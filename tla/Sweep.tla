------------------------------- MODULE Sweep -------------------------------
(***************************************************************************)
(* The fill sweeper of the venue (mogwai-venue/src/sweeper.rs): one task   *)
(* that walks the tape of each boat for the orders resting on it, settles  *)
(* whoever rides it, and holds no lock while it reads.  Meanwhile boats    *)
(* are placed and wound down, sockets board, commit, resume and leave, and *)
(* their consumers submit, amend and cancel.                               *)
(*                                                                         *)
(* Wall time is one counter.  A boat's clock runs from its river's origin, *)
(* nought, at the wall instant it was placed; every boat runs at one       *)
(* speed, as two placements under one key do.  Where a river's prints go   *)
(* through an order is left open: a walk may find a hit at any instant of  *)
(* the span it reads.  A hit fills its order whole.                        *)
(***************************************************************************)
EXTENDS Integers, Sequences, FiniteSets

CONSTANTS
  Account,      \* accounts
  Leg,          \* sockets, each of which dials once
  Key,          \* boat keys, each naming a river of its own here
  Order,        \* orders, each submitted once
  None,         \* no account, no key
  Berths,       \* which <<leg, account, key>> may board
  MaxBoats,     \* bound on the placements
  Horizon,      \* bound on wall time
  Calendar      \* the instants at which the river of each key settles

ASSUME SweepAssumption == /\ None \notin Account \cup Key
                          /\ Berths \subseteq Leg \X Account \X Key
                          /\ MaxBoats \in Nat /\ Horizon \in Nat
                          /\ Calendar \in [Key -> SUBSET (1..Horizon)]

VARIABLES
  wall,       \* wall time
  boats,      \* every placement so far, in order
  legs,       \* the sockets
  orders,     \* the books
  settled,    \* how often each account crossed each settlement of each boat
  schedule,   \* next_due: the boat the sweeper keeps for each key
  pass        \* where the sweeper stands and what it has read

vars == <<wall, boats, legs, orders, settled, schedule, pass>>

NoBoat == 0
BoatNumber == 1..MaxBoats
Boat == [key : Key, born : Nat, swept : Nat]
\* A leg met the pass under way at its commit if its account was seen frozen
\* by that pass ("unseen") or attached ("second"), and "between" otherwise.
Leg0 == [at |-> "ashore", account |-> None, boat |-> NoBoat, registered |-> FALSE,
         returning |-> FALSE, met |-> "between", owed |-> {}]
Sitting == [at : {"ashore", "aboard", "committed", "reading", "gone"},
            account : Account \cup {None}, boat : {NoBoat} \cup BoatNumber,
            registered : BOOLEAN,  \* the registry has its record, and so its ride
            returning : BOOLEAN,   \* its commit ended a freeze
            met : {"between", "unseen", "second"},
            owed : SUBSET (1..Horizon)]  \* ahead of its boat when it committed
Order0 == [state |-> "unsent", account |-> None, key |-> None,
           frontier |-> 0, since |-> 0, astray |-> "no"]
Resting == [state : {"unsent", "resting", "filled", "canceled"},
            account : Account \cup {None}, key : Key \cup {None}, frontier : Nat,
            since : Nat,  \* when it was accepted, amended or last came back from a freeze
            astray : {"no", "away", "pulled"}]  \* whose frontier is not of that span
Done(state) == [Order0 EXCEPT !.state = state]
\* The scans a pass gathered are kept as the orders whose revision is still
\* the one that it read.
Asleep == [step |-> "sleeping", attached |-> {}, placed |-> {}, todo |-> {}, scans |-> {},
           due |-> {}, boat |-> NoBoat, to |-> 0, walked |-> {}, hits |-> <<>>, from |-> 0]

TypeOK ==
  /\ wall \in Nat
  /\ boats \in Seq(Boat) /\ Len(boats) <= MaxBoats
  /\ legs \in [Leg -> Sitting]
  /\ orders \in [Order -> Resting]
  /\ settled \in [Account \X BoatNumber \X (1..Horizon) -> Nat]
  /\ schedule \in [Key -> {NoBoat} \cup BoatNumber]
  /\ pass.step \in {"sleeping", "sampling", "gathering", "reading", "applying"}
  /\ pass.attached \cup pass.todo \subseteq Account
  /\ pass.placed \cup pass.due \subseteq BoatNumber
  /\ pass.walked \cup pass.scans \subseteq Order
  /\ \A b \in 1..Len(boats) : boats[b].swept <= wall - boats[b].born

Init == /\ wall = 0
        /\ boats = <<>>
        /\ legs = [l \in Leg |-> Leg0]
        /\ orders = [o \in Order |-> Order0]
        /\ settled = [x \in Account \X BoatNumber \X (1..Horizon) |-> 0]
        /\ schedule = [k \in Key |-> NoBoat]
        /\ pass = Asleep

Clock(b) == wall - boats[b].born
Afloat == {b \in 1..Len(boats) : \E l \in Leg : legs[l].boat = b}
KeyOf(l) == boats[legs[l].boat].key
Registered(a) == {l \in Leg : legs[l].registered /\ legs[l].account = a}
Attended(a) == Registered(a) # {}
SeatedOn(a, k) == \E l \in Registered(a) : KeyOf(l) = k
Rides(a, b) == \E l \in Registered(a) : legs[l].boat = b
\* Orders whose revision moved are no longer the ones a pass gathered.
Touches(touched) == pass' = [pass EXCEPT !.scans = @ \ touched]
----------------------------------------------------------------------------
(* Sockets                                                                 *)

\* The boatyard: a passenger joins the boat under its key or places one.
Board(l, a, k) ==
  /\ legs[l].at = "ashore" /\ <<l, a, k>> \in Berths
  /\ \E b \in BoatNumber :
       /\ \/ b \in Afloat /\ boats[b].key = k /\ UNCHANGED boats
          \/ /\ \A c \in Afloat : boats[c].key # k
             /\ b = Len(boats) + 1
             /\ boats' = Append(boats, [key |-> k, born |-> wall, swept |-> 0])
       /\ legs' = [legs EXCEPT ![l] = [Leg0 EXCEPT !.at = "aboard", !.account = a, !.boat = b]]
  /\ UNCHANGED <<wall, orders, settled, schedule, pass>>

MetOnCommit(a) == IF pass.step = "sleeping" THEN "between"
                  ELSE IF a \in pass.attached THEN "second" ELSE "unseen"

Resters(a) == {o \in Order : orders[o].state = "resting" /\ orders[o].account = a}

\* The commit of an admission: the account is attended from here on, and
\* whoever it claims the account from loses its record in the same step.
Commit(l, evicts) ==
  LET a == legs[l].account
      back == IF Attended(a) THEN {} ELSE Resters(a)
  IN  /\ legs[l].at = "aboard"
      /\ legs' = [m \in Leg |->
           IF m = l THEN [legs[l] EXCEPT !.at = "committed", !.registered = TRUE,
                                         !.returning = ~Attended(a), !.met = MetOnCommit(a),
                                         !.owed = {i \in Calendar[KeyOf(l)] : i > Clock(legs[l].boat)}]
           ELSE IF evicts /\ m \in Registered(a)
             THEN [legs[m] EXCEPT !.registered = FALSE, !.met = "between", !.owed = {}]
           ELSE legs[m]]
      /\ orders' = [o \in Order |->
           IF o \in back THEN [orders[o] EXCEPT !.since = wall, !.astray = "away"]
           ELSE orders[o]]
      /\ UNCHANGED <<wall, boats, settled, schedule, pass>>

\* Run::resume, of an evicted socket too.  A return from a freeze cancels what
\* rests off the river it bound and rebases the rest onto its clock; any other
\* bind rebases only what leads that clock, on whatever river it rests.  An
\* order that already stands at that clock keeps its revision, so a walk planned
\* before the return may still be applied to it.
Resume(l) ==
  LET now == Clock(legs[l].boat)
      mine == Resters(legs[l].account)
      off == {o \in mine : legs[l].returning /\ orders[o].key # KeyOf(l)}
      leading == {o \in mine : orders[o].frontier > now}
      moved == {o \in mine : legs[l].returning /\ orders[o].frontier # now} \cup leading
  IN  /\ legs[l].at = "committed"
      /\ legs' = [legs EXCEPT ![l].at = "reading", ![l].returning = FALSE]
      /\ orders' = [o \in Order |->
           IF o \in off THEN Done("canceled")
           ELSE IF o \in mine /\ legs[l].returning
             THEN [orders[o] EXCEPT !.frontier = now,
                                    !.astray = IF o \in pass.scans \ moved THEN @ ELSE "no"]
           ELSE IF o \in leading
             THEN [orders[o] EXCEPT !.frontier = now,
                                    !.astray = IF orders[o].key # KeyOf(l) THEN "pulled" ELSE @]
           ELSE orders[o]]
      /\ Touches(off \cup moved)
      /\ UNCHANGED <<wall, boats, settled, schedule>>

\* The connection is released and its ticket dropped.
Leave(l) ==
  /\ legs[l].at \in {"aboard", "committed", "reading"}
  /\ legs' = [legs EXCEPT ![l] = [Leg0 EXCEPT !.at = "gone"]]
  /\ UNCHANGED <<wall, boats, orders, settled, schedule, pass>>

Submit(l, o) ==
  /\ legs[l].at = "reading" /\ orders[o].state = "unsent"
  /\ orders' = [orders EXCEPT ![o] = [state |-> "resting", account |-> legs[l].account,
       key |-> KeyOf(l), frontier |-> Clock(legs[l].boat), since |-> wall, astray |-> "no"]]
  /\ UNCHANGED <<wall, boats, legs, settled, schedule, pass>>

\* An amend of the price restarts the scan at the clock of the socket it came by.
Amend(l, o) ==
  /\ legs[l].at = "reading" /\ o \in Resters(legs[l].account) /\ orders[o].key = KeyOf(l)
  /\ orders' = [orders EXCEPT ![o].frontier = Clock(legs[l].boat), ![o].since = wall,
                                   ![o].astray = "no"]
  /\ Touches({o})
  /\ UNCHANGED <<wall, boats, legs, settled, schedule>>

Cancel(l, o) ==
  /\ legs[l].at = "reading" /\ o \in Resters(legs[l].account)
  /\ orders' = [orders EXCEPT ![o] = Done("canceled")]
  /\ Touches({o})
  /\ UNCHANGED <<wall, boats, legs, settled, schedule>>

Tick == /\ wall < Horizon
        /\ wall' = wall + 1
        /\ UNCHANGED <<boats, legs, orders, settled, schedule, pass>>
----------------------------------------------------------------------------
(* The sweeper                                                             *)

\* The top of the loop: keys nobody rides are forgotten, keys not yet known
\* take the boat placed under them.
Rescheduled ==
  [k \in Key |-> LET placed == {b \in Afloat : boats[b].key = k}
                 IN  IF placed = {} THEN NoBoat
                     ELSE IF schedule[k] # NoBoat THEN schedule[k]
                     ELSE CHOOSE b \in placed : TRUE]

\* It wakes and keeps the accounts that are not frozen ...
SampleAccounts ==
  /\ pass.step = "sleeping"
  /\ pass' = [pass EXCEPT !.step = "sampling", !.attached = {a \in Account : Attended(a)}]
  /\ UNCHANGED <<wall, boats, legs, orders, settled, schedule>>

\* Slip: the boats are those the loop began with.
SampleScheduled ==
  /\ pass.step = "sampling"
  /\ pass' = [pass EXCEPT !.step = "gathering", !.todo = pass.attached,
                          !.placed = {schedule[k] : k \in Key} \ {NoBoat}]
  /\ UNCHANGED <<wall, boats, legs, orders, settled, schedule>>

\* ... and then the boats placed.
SampleBoats ==
  /\ pass.step = "sampling"
  /\ pass' = [pass EXCEPT !.step = "gathering", !.todo = pass.attached, !.placed = Afloat]
  /\ UNCHANGED <<wall, boats, legs, orders, settled, schedule>>

\* One account's engine is locked: what rests on no river its own cursors
\* read is cancelled, and the rest is to be scanned.
Gather(a) ==
  LET readable == {boats[b].key : b \in {c \in pass.placed : SeatedOn(a, boats[c].key)}}
      stranded == {o \in Resters(a) : orders[o].key \notin readable}
  IN  /\ pass.step = "gathering" /\ a \in pass.todo
      /\ orders' = [o \in Order |-> IF o \in stranded
                                      THEN Done("canceled")
                                      ELSE orders[o]]
      /\ pass' = [pass EXCEPT !.todo = @ \ {a},
                              !.scans = @ \cup (Resters(a) \ stranded)]
      /\ UNCHANGED <<wall, boats, legs, settled, schedule>>

\* The next boat that is due, or the end of the pass and the sleep before the
\* next one.
NextBoat(due) ==
  IF due = {} THEN pass' = Asleep /\ schedule' = Rescheduled
  ELSE /\ \E b \in due :
            pass' = [pass EXCEPT
              !.step = "reading", !.placed = {}, !.todo = {}, !.due = due \ {b},
              !.boat = b, !.to = Clock(b), !.from = boats[b].swept, !.hits = <<>>,
              !.walked = {o \in pass.scans : /\ orders[o].key = boats[b].key
                                             /\ SeatedOn(orders[o].account, boats[b].key)}]
       /\ UNCHANGED schedule

\* Every account was gathered; some of the boats scheduled are due.
StartReading ==
  /\ pass.step = "gathering" /\ pass.todo = {}
  /\ \E due \in SUBSET ({schedule[k] : k \in Key} \ {NoBoat}) : NextBoat(due)
  /\ UNCHANGED <<wall, boats, legs, orders, settled>>

\* What a walk of these orders may find: nothing for an order untouched, or
\* a hit after its frontier.
Hits(walked) ==
  {h \in [walked -> 0..pass.to] :
     \A o \in walked : h[o] # 0 => o \in pass.scans /\ h[o] > orders[o].frontier}

\* Slip: the frontier moves over a span whose settlements were not priced.
FrontierAfterRegardless(b, read) == pass.to

FrontierAfter(b, read) == IF read THEN pass.to ELSE boats[b].swept

\* The walk, the marks and the settlement prices are back.  A failed walk has
\* no results, a failed reading abandons the boat for this pass.
Read ==
  /\ pass.step = "reading"
  /\ \E read \in BOOLEAN, walked \in {{}, pass.walked} :
       /\ boats' = [boats EXCEPT ![pass.boat].swept = FrontierAfter(pass.boat, read)]
       /\ IF read
            THEN \E h \in Hits(walked) :
                   pass' = [pass EXCEPT !.step = "applying", !.walked = walked, !.hits = h,
                                        !.todo = pass.attached]
                 /\ UNCHANGED schedule
            ELSE NextBoat(pass.due)
  /\ UNCHANGED <<wall, legs, orders, settled>>

\* Slip: a walk is applied to what the order has become since.
ResultsUnchecked(a) == pass.walked \cap Resters(a)

\* The results of this account's orders that still are what the walk read.
Results(a) == pass.walked \cap pass.scans \cap Resters(a)

SweptHere(a) == SeatedOn(a, boats[pass.boat].key)

\* The settlement instants between the boat's frontier and its clock.
Crossed == {i \in Calendar[boats[pass.boat].key] : pass.from < i /\ i <= pass.to}

\* One account's engine is locked again and the pass applied to it: hits fill,
\* frontiers move to where the walk got, the settlements crossed are booked.
Apply(a) ==
  /\ pass.step = "applying" /\ a \in pass.todo
  /\ IF SweptHere(a)
       THEN /\ orders' = [o \in Order |->
                 IF o \notin Results(a) THEN orders[o]
                 ELSE IF pass.hits[o] # 0 THEN Done("filled")
                 ELSE [orders[o] EXCEPT !.frontier = pass.to]]
            /\ settled' = [x \in DOMAIN settled |->
                 IF x[1] = a /\ x[2] = pass.boat /\ x[3] \in Crossed
                   THEN settled[x] + 1 ELSE settled[x]]
            /\ pass' = [pass EXCEPT !.todo = @ \ {a}, !.scans = @ \ Results(a)]
       ELSE pass' = [pass EXCEPT !.todo = @ \ {a}] /\ UNCHANGED <<orders, settled>>
  /\ UNCHANGED <<wall, boats, legs, schedule>>

EndOfBoat ==
  /\ pass.step = "applying" /\ pass.todo = {}
  /\ NextBoat(pass.due)
  /\ UNCHANGED <<wall, boats, legs, orders, settled>>

Next ==
  \/ Tick
  \/ \E l \in Leg :
       \/ \E a \in Account, k \in Key : Board(l, a, k)
       \/ \E evicts \in BOOLEAN : Commit(l, evicts)
       \/ Resume(l) \/ Leave(l)
       \/ \E o \in Order : Submit(l, o) \/ Amend(l, o) \/ Cancel(l, o)
  \/ SampleAccounts \/ SampleBoats \/ StartReading \/ Read \/ EndOfBoat
  \/ \E a \in Account : Gather(a) \/ Apply(a)

Spec == Init /\ [][Next]_vars
----------------------------------------------------------------------------
(* Properties                                                              *)

\* A settlement instant of a boat is booked to an account at most once, however
\* often the pass that crosses it is abandoned and swept again and whoever leaves
\* and comes back in between; and what the boat's frontier has passed since a
\* leg sat down was booked to its account, unless the account was still frozen
\* when the pass that crossed it looked: no reading that failed retires a
\* settlement (sweeper.rs:707-730).
SettledOnce ==
  /\ \A x \in DOMAIN settled : settled[x] <= 1
  /\ \A l \in Leg : \A i \in legs[l].owed :
       /\ legs[l].met # "unseen"
       /\ ~(pass.step = "applying" /\ legs[l].account \in pass.todo)
       /\ i <= boats[legs[l].boat].swept
       => settled[<<legs[l].account, legs[l].boat, i>>] = 1

Fills(o) == orders[o].state = "resting" /\ orders'[o].state = "filled"
\* The wall instant of the print that fills it, on the boat being swept.
PrintedAt(o) == boats[pass.boat].born + pass.hits[o]

\* An order fills on a print its boat showed after the order, as it stands,
\* was accepted, whatever the walk was planned against: amends and rebases
\* that cross a walk in flight void its result.  Left out are boats the account
\* does not ride, orders that another river's bind pulled back, and orders that
\* a return found standing at its own clock while a pass had them (the walk of
\* that pass may reach less far, and moves their frontier back: trigger.rs:278).
FillsAfterAcceptance ==
  [][\A o \in Order : Fills(o) => \/ PrintedAt(o) > orders[o].since
                                  \/ orders[o].astray # "no"
                                  \/ ~Rides(orders[o].account, pass.boat)]_vars

\* The sweep cancels no order of an account that rides its river, unless the
\* leg that does committed under the pass (sweeper.rs:131-137).
RiddenOrdersKept ==
  [][\A a \in Account : Gather(a) =>
       \A o \in Order, l \in Leg :
         /\ orders[o].state = "resting" /\ orders'[o].state = "canceled"
         /\ l \in Registered(orders[o].account) /\ KeyOf(l) = orders[o].key
         => legs[l].met # "between"]_vars
============================================================================
