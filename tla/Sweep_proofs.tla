----------------------------- MODULE Sweep_proofs -----------------------------
(***************************************************************************)
(* Proofs about the fill sweeper of module Sweep, for any number of        *)
(* accounts, sockets, boats and orders and for settlements at any instants *)
(* of any river: what the sweep books it books once, what it fills it      *)
(* fills on a print seen after the order was accepted, and what it cancels *)
(* nobody was riding.                                                      *)
(***************************************************************************)
EXTENDS Sweep, TLAPS

\* What a walk found, for the orders that it walked.
Found == {<<>>} \cup UNION {[walked -> Nat] : walked \in SUBSET Order}

Passing == [step : {"sleeping", "sampling", "gathering", "reading", "applying"},
            attached : SUBSET Account, placed : SUBSET BoatNumber, todo : SUBSET Account,
            scans : SUBSET Order, due : SUBSET BoatNumber, boat : {NoBoat} \cup BoatNumber,
            to : Nat, walked : SUBSET Order, hits : Found, from : Nat]

Typed ==
  /\ wall \in Nat
  /\ boats \in Seq(Boat) /\ Len(boats) <= MaxBoats
  /\ legs \in [Leg -> Sitting]
  /\ orders \in [Order -> Resting]
  /\ settled \in [Account \X BoatNumber \X (1..Horizon) -> Nat]
  /\ schedule \in [Key -> {NoBoat} \cup BoatNumber]
  /\ pass \in Passing

Placed == 1..Len(boats)
Walking == pass.step \in {"reading", "applying"}

\* Whoever has a socket on the venue rides a boat, the last one placed under its key.
Seated(l) ==
  /\ legs[l].at \in {"aboard", "committed", "reading"}
       => legs[l].boat \in Placed /\ legs[l].account \in Account
  /\ legs[l].boat # NoBoat =>
       /\ legs[l].boat \in Placed
       /\ \A c \in Placed : boats[c].key = KeyOf(l) => c <= legs[l].boat
  /\ legs[l].registered => legs[l].at \in {"committed", "reading"}
  /\ legs[l].owed # {} => legs[l].registered

\* Boats are placed one after the other and never swept beyond their clocks.
Fleet ==
  /\ \A b \in Placed : boats[b].born <= wall /\ boats[b].swept <= wall - boats[b].born
  /\ \A b, c \in Placed : b <= c => boats[b].born <= boats[c].born
  /\ \A l \in Leg : Seated(l)
  /\ \A k \in Key : schedule[k] # NoBoat => schedule[k] \in Placed
  /\ pass.due \subseteq Placed
  /\ Walking => pass.boat \in Placed

\* How far the settlements of a leg's boat are booked to its account.
Reached(l) == IF /\ pass.step = "applying" /\ legs[l].account \in pass.todo
                 /\ legs[l].boat = pass.boat
                THEN pass.from ELSE boats[legs[l].boat].swept

\* Whoever sat down outside a pass, or was seen by it, is one that it reaches,
\* and has been booked what it was owed so far.
Paid(l) ==
  /\ pass.step # "sleeping" /\ legs[l].registered /\ legs[l].met # "unseen"
       => legs[l].account \in pass.attached
  /\ \A i \in legs[l].owed :
       /\ i \in Calendar[KeyOf(l)]
       /\ legs[l].met # "unseen" /\ i <= Reached(l)
          => settled[<<legs[l].account, legs[l].boat, i>>] = 1

\* Nothing is booked beyond a boat's frontier, nor to an account the pass has
\* yet to reach beyond the frontier that it set out from.
Booked ==
  /\ \A a \in Account, b \in BoatNumber, i \in 1..Horizon :
       /\ settled[<<a, b, i>>] <= 1
       /\ settled[<<a, b, i>>] > 0 => b \in Placed /\ i <= boats[b].swept
  /\ pass.step = "reading" => /\ pass.from = boats[pass.boat].swept
                              /\ pass.to <= Clock(pass.boat)
                              /\ pass.from <= pass.to
  /\ pass.step = "applying" =>
       /\ boats[pass.boat].swept = pass.to /\ pass.from <= pass.to
       /\ \A a \in pass.todo, i \in 1..Horizon :
            i > pass.from => settled[<<a, pass.boat, i>>] = 0
  /\ \A l \in Leg : Paid(l)

\* An order whose frontier is its boat's own has been owed a fill since no
\* later than that frontier, and since no later than the instant a walk goes
\* to that may still be applied to it.
Fresh(o) ==
  orders[o].state = "resting" =>
    /\ orders[o].since <= wall
    /\ orders[o].astray = "no" =>
         /\ \A l \in Leg : legs[l].boat # NoBoat /\ KeyOf(l) = orders[o].key
              => boats[legs[l].boat].born + orders[o].frontier >= orders[o].since
         /\ o \in pass.scans /\ Walking
              => boats[pass.boat].born + pass.to >= orders[o].since
    /\ o \in pass.walked /\ Walking => orders[o].key = boats[pass.boat].key
    /\ o \in pass.walked \cap pass.scans /\ pass.step = "applying" /\ pass.hits[o] # 0
         => pass.hits[o] > orders[o].frontier

Scanned ==
  /\ \A o \in pass.scans \cup pass.walked : orders[o].state # "unsent"
  /\ \A o \in Order : Fresh(o)
  /\ pass.step = "applying" => pass.hits \in [pass.walked -> Nat]

\* A pass that gathers knows the boat of every leg that sat down before it.
Known ==
  \A l \in Leg : pass.step = "gathering" /\ legs[l].registered /\ legs[l].met = "between"
                   => legs[l].boat \in pass.placed

IInv == Typed /\ Fleet /\ Booked /\ Scanned /\ Known
-------------------------------------------------------------------------------
(* The fleet.                                                              *)

LEMMA NoHits == <<>> \in Found
BY DEF Found

LEMMA AsleepPassing == Asleep \in Passing
BY NoHits DEF Asleep, Passing, NoBoat

\* A boat has a key, and a clock that runs from nought.
LEMMA BoatPlaced ==
  ASSUME Typed, Fleet, NEW b \in Placed
  PROVE  /\ b \in BoatNumber /\ b # NoBoat /\ boats[b] \in Boat
         /\ boats[b].key \in Key /\ boats[b].born \in Nat /\ boats[b].swept \in Nat
         /\ Clock(b) \in Nat /\ boats[b].swept <= Clock(b) /\ boats[b].born <= wall
<1>1. boats[b] \in Boat
  BY DEF Typed, Placed
<1>2. b \in BoatNumber /\ b # NoBoat
  BY SweepAssumption DEF Typed, Placed, BoatNumber, NoBoat
<1>3. boats[b].born <= wall /\ boats[b].swept <= wall - boats[b].born
  BY DEF Fleet, Seated
<1>4. boats[b].key \in Key /\ boats[b].born \in Nat /\ boats[b].swept \in Nat
  BY <1>1 DEF Boat
<1> QED
  BY <1>1, <1>2, <1>3, <1>4 DEF Clock, Typed

\* Whoever has a socket on the venue rides a boat.
LEMMA LegAboard ==
  ASSUME Typed, Fleet, NEW l \in Leg, legs[l].at \in {"aboard", "committed", "reading"}
  PROVE  /\ legs[l].boat \in Placed /\ legs[l].boat # NoBoat /\ legs[l].account \in Account
         /\ KeyOf(l) \in Key /\ Clock(legs[l].boat) \in Nat
<1>1. legs[l].boat \in Placed /\ legs[l].account \in Account
  BY DEF Fleet, Seated
<1> QED
  BY <1>1, BoatPlaced DEF KeyOf

\* Two boats ridden under one key are one boat.
LEMMA OneAfloat ==
  ASSUME Typed, Fleet, NEW l \in Leg, NEW m \in Leg,
         legs[l].boat # NoBoat, legs[m].boat # NoBoat, KeyOf(l) = KeyOf(m)
  PROVE  legs[l].boat = legs[m].boat
<1>1. legs[l].boat \in Placed /\ legs[m].boat \in Placed
  BY DEF Fleet, Seated
<1>2. legs[l].boat <= legs[m].boat /\ legs[m].boat <= legs[l].boat
  BY <1>1 DEF Fleet, Seated, KeyOf
<1> QED
  BY <1>1, <1>2 DEF Placed

LEMMA AfloatPlaced == Afloat \subseteq Placed
BY DEF Afloat, Placed

LEMMA ScheduledPlaced ==
  ASSUME Typed, Fleet
  PROVE  {schedule[k] : k \in Key} \ {NoBoat} \subseteq Placed
BY DEF Fleet, Seated

\* What the sweeper keeps for a key is a boat placed.
LEMMA RescheduledPlaced ==
  ASSUME Typed, Fleet
  PROVE  /\ Rescheduled \in [Key -> {NoBoat} \cup BoatNumber]
         /\ \A k \in Key : Rescheduled[k] # NoBoat => Rescheduled[k] \in Placed
<1> SUFFICES ASSUME NEW k \in Key
             PROVE  Rescheduled[k] = NoBoat \/ Rescheduled[k] \in Placed
  BY BoatPlaced DEF Rescheduled
<1> DEFINE placed == {b \in Afloat : boats[b].key = k}
<1>1. placed # {} => (CHOOSE b \in placed : TRUE) \in placed
  OBVIOUS
<1>2. placed \subseteq Placed
  BY AfloatPlaced
<1>3. Rescheduled[k] = IF placed = {} THEN NoBoat
                       ELSE IF schedule[k] # NoBoat THEN schedule[k]
                       ELSE CHOOSE b \in placed : TRUE
  BY DEF Rescheduled
<1>4. schedule[k] # NoBoat => schedule[k] \in Placed
  BY DEF Fleet, Seated
<1> HIDE DEF placed
<1> QED
  BY <1>1, <1>2, <1>3, <1>4
-------------------------------------------------------------------------------
(* Each step keeps the invariant.                                          *)

LEMMA TickInv ==
  ASSUME IInv, Tick
  PROVE  IInv'
<1> USE DEF IInv, Tick
<1>1. wall \in Nat /\ wall' = wall + 1
  BY DEF Typed
<1>2. Typed'
  BY <1>1 DEF Typed
<1>3. \A b \in Placed : boats[b].born \in Nat /\ boats[b].swept \in Nat
  BY BoatPlaced
<1>4. Fleet'
  BY <1>1, <1>3 DEF Fleet, Seated, Placed, KeyOf, Walking
<1>5. Booked'
  <2>1. pass.step = "reading" => pass.to <= Clock(pass.boat)'
    BY <1>1, <1>3 DEF Booked, Paid, Clock, Fleet, Seated, Walking, Typed, Passing
  <2> QED
    BY <2>1 DEF Booked, Paid, Placed, KeyOf, Reached
<1>6. Scanned'
  <2>1. \A o \in Order : orders[o].since \in Nat
    BY DEF Typed, Resting
  <2> QED
    BY <1>1, <2>1 DEF Scanned, Fresh, KeyOf, Walking
<1>7. Known'
  BY DEF Known
<1> QED
  BY <1>2, <1>4, <1>5, <1>6, <1>7

LEMMA BoardInv ==
  ASSUME IInv, NEW l \in Leg, NEW a \in Account, NEW k \in Key, Board(l, a, k)
  PROVE  IInv'
<1> USE DEF IInv
<1> DEFINE seated(b) == [Leg0 EXCEPT !.at = "aboard", !.account = a, !.boat = b]
<1> PICK b \in BoatNumber :
      /\ \/ b \in Afloat /\ boats[b].key = k /\ UNCHANGED boats
         \/ /\ \A c \in Afloat : boats[c].key # k
            /\ b = Len(boats) + 1
            /\ boats' = Append(boats, [key |-> k, born |-> wall, swept |-> 0])
      /\ legs' = [legs EXCEPT ![l] = seated(b)]
  BY DEF Board
<1>1. UNCHANGED <<wall, orders, settled, schedule, pass>> /\ legs[l].at = "ashore"
  BY DEF Board
<1>2. /\ seated(b) \in Sitting /\ seated(b).at = "aboard" /\ seated(b).account = a
      /\ seated(b).boat = b /\ ~seated(b).registered /\ seated(b).owed = {}
  BY DEF Leg0, Sitting
<1>3. /\ legs' \in [Leg -> Sitting] /\ legs'[l] = seated(b)
      /\ \A m \in Leg : m # l => legs'[m] = legs[m]
  BY <1>2 DEF Typed
<1> HIDE DEF seated
<1>4. b # NoBoat
  BY DEF BoatNumber, NoBoat
\* The boats placed stay as they are, and another may be placed now.
<1>5. /\ boats' \in Seq(Boat) /\ Len(boats') <= MaxBoats /\ Len(boats') \in Nat
      /\ Placed \subseteq Placed' /\ \A c \in Placed : boats'[c] = boats[c]
      /\ \A c \in Placed' \ Placed : c = b /\ boats'[c].born = wall /\ boats'[c].swept = 0
      /\ b \in Placed' /\ boats'[b].key = k
  <2>1. CASE b \in Afloat /\ boats[b].key = k /\ UNCHANGED boats
    BY <2>1, AfloatPlaced DEF Typed, Placed
  <2>2. CASE /\ b = Len(boats) + 1
             /\ boats' = Append(boats, [key |-> k, born |-> wall, swept |-> 0])
    <3>1. [key |-> k, born |-> wall, swept |-> 0] \in Boat
      BY DEF Boat, Typed
    <3> QED
      BY <2>2, <3>1, SweepAssumption DEF Typed, Placed, BoatNumber
  <2> QED
    BY <2>1, <2>2
<1>6. \A c \in Placed : b \in Placed' \ Placed => c <= b
  BY DEF Placed, Typed, BoatNumber
<1>7. \A m \in Leg : m # l => /\ legs[m].boat # NoBoat => legs[m].boat \in Placed
                              /\ legs[m].boat # NoBoat => KeyOf(m)' = KeyOf(m)
  BY <1>3, <1>5 DEF Fleet, Seated, KeyOf
<1>8. Typed'
  BY <1>1, <1>3, <1>5 DEF Typed
<1>9. Fleet'
  <2>1. \A c \in Placed' : /\ boats'[c].born <= wall' 
                           /\ boats'[c].swept <= wall' - boats'[c].born
    BY <1>1, <1>5 DEF Fleet, Seated, Typed
  <2>2. \A c, d \in Placed' : c <= d => boats'[c].born <= boats'[d].born
    <3> SUFFICES ASSUME NEW c \in Placed', NEW d \in Placed', c <= d
                 PROVE  boats'[c].born <= boats'[d].born
      OBVIOUS
    <3>1. CASE d \in Placed' \ Placed
      BY <1>1, <1>5, <2>1, <3>1 DEF Typed
    <3>2. CASE d \in Placed
      BY <1>5, <3>2 DEF Fleet, Seated, Typed, Placed
    <3> QED
      BY <3>1, <3>2
  <2>3. \A m \in Leg : /\ legs'[m].at \in {"aboard", "committed", "reading"}
                            => legs'[m].boat \in Placed' /\ legs'[m].account \in Account
                       /\ legs'[m].boat # NoBoat => legs'[m].boat \in Placed'
                       /\ legs'[m].registered => legs'[m].at \in {"committed", "reading"}
                       /\ legs'[m].owed # {} => legs'[m].registered
    BY <1>2, <1>3, <1>5 DEF Fleet, Seated
  <2>4. \A m \in Leg, c \in Placed' :
          legs'[m].boat # NoBoat /\ boats'[c].key = KeyOf(m)' => c <= legs'[m].boat
    <3> SUFFICES ASSUME NEW m \in Leg, NEW c \in Placed', legs'[m].boat # NoBoat,
                        boats'[c].key = KeyOf(m)'
                 PROVE  c <= legs'[m].boat
      OBVIOUS
    <3>1. CASE b \in Placed' \ Placed
      <4>1. \A d \in Afloat : boats[d].key # k
        BY <3>1, AfloatPlaced
      <4>2. CASE m = l
        BY <1>2, <1>3, <1>5, <1>6, <3>1, <4>2 DEF Placed, Typed
      <4>3. CASE m # l
        <5>1. legs[m].boat \in Afloat
          BY <1>3, <1>7, <4>3 DEF Afloat, Placed
        <5>2. KeyOf(m)' # k
          BY <1>3, <1>7, <4>1, <4>3, <5>1 DEF KeyOf
        <5>3. c \in Placed
          BY <1>5, <5>2
        <5> QED
          BY <1>3, <1>5, <1>7, <4>3, <5>3 DEF Fleet, Seated
      <4> QED
        BY <4>2, <4>3
    <3>2. CASE b \in Placed
      <4>1. b \in Afloat /\ boats[b].key = k /\ UNCHANGED boats
        BY <3>2 DEF Placed, Typed
      <4>2. CASE m = l
        <5>1. PICK n \in Leg : legs[n].boat = b
          BY <4>1 DEF Afloat
        <5> QED
          BY <1>2, <1>3, <1>4, <4>1, <4>2, <5>1 DEF Fleet, Seated, KeyOf, Placed
      <4>3. CASE m # l
        BY <1>3, <1>7, <4>1, <4>3 DEF Fleet, Seated, Placed
      <4> QED
        BY <4>2, <4>3
    <3> QED
      BY <1>5, <3>1, <3>2
  <2> QED
    BY <1>1, <1>5, <2>1, <2>2, <2>3, <2>4 DEF Fleet, Seated, Walking
<1>10. Booked'
  <2>1. \A m \in Leg : m # l /\ legs[m].owed # {} => /\ Reached(m)' = Reached(m)
                                                     /\ KeyOf(m)' = KeyOf(m)
    <3> SUFFICES ASSUME NEW m \in Leg, m # l, legs[m].owed # {}
                 PROVE  Reached(m)' = Reached(m) /\ KeyOf(m)' = KeyOf(m)
      OBVIOUS
    <3>1. legs[m].boat \in Placed /\ legs[m].boat # NoBoat
      BY LegAboard DEF Fleet, Seated
    <3> QED
      BY <1>1, <1>3, <1>5, <1>7, <3>1 DEF Reached
  <2>2. \A aa \in Account, c \in BoatNumber, i \in 1..Horizon :
          /\ settled'[<<aa, c, i>>] <= 1
          /\ settled'[<<aa, c, i>>] > 0 => c \in Placed' /\ i <= boats'[c].swept
    BY <1>1, <1>5 DEF Booked, Paid
  <2>3. Walking => pass.boat \in Placed /\ boats'[pass.boat] = boats[pass.boat]
    BY <1>5 DEF Fleet, Seated
  <2>4. \A m \in Leg : \A i \in legs'[m].owed :
          /\ i \in Calendar[KeyOf(m)']
          /\ legs'[m].met # "unseen" /\ i <= Reached(m)'
             => settled'[<<legs'[m].account, legs'[m].boat, i>>] = 1
    <3> SUFFICES ASSUME NEW m \in Leg, NEW i \in legs'[m].owed
                 PROVE  /\ i \in Calendar[KeyOf(m)']
                        /\ legs'[m].met # "unseen" /\ i <= Reached(m)'
                           => settled'[<<legs'[m].account, legs'[m].boat, i>>] = 1
      OBVIOUS
    <3>1. m # l /\ legs'[m] = legs[m]
      BY <1>2, <1>3
    <3> QED
      BY <1>1, <2>1, <3>1 DEF Booked, Paid
  <2> QED
    BY <1>1, <1>2, <1>3, <2>2, <2>3, <2>4 DEF Booked, Paid, Walking, Clock
<1>11. Scanned'
  <2>1. Walking => pass.boat \in Placed /\ boats'[pass.boat] = boats[pass.boat]
    BY <1>5 DEF Fleet, Seated
  <2>2. ASSUME NEW o \in Order, orders[o].state = "resting", orders[o].astray = "no",
               NEW m \in Leg, legs'[m].boat # NoBoat, KeyOf(m)' = orders[o].key
        PROVE  boats'[legs'[m].boat].born + orders[o].frontier >= orders[o].since
    <3>1. /\ orders[o].since \in Nat /\ orders[o].frontier \in Nat /\ wall \in Nat
          /\ orders[o].since <= wall
      BY <2>2 DEF Typed, Resting, Scanned, Fresh
    <3>2. CASE m = l
      <4>1. CASE b \in Placed
        <5>1. b \in Afloat /\ boats[b].key = k /\ UNCHANGED boats
          BY <4>1 DEF Placed, Typed
        <5>2. PICK n \in Leg : legs[n].boat = b
          BY <5>1 DEF Afloat
        <5> QED
          BY <1>2, <1>3, <1>4, <2>2, <3>2, <5>1, <5>2 DEF Scanned, Fresh, KeyOf
      <4>2. CASE b \notin Placed
        BY <1>2, <1>3, <1>5, <3>1, <3>2, <4>2
      <4> QED
        BY <4>1, <4>2
    <3>3. CASE m # l
      <4>1. legs'[m] = legs[m] /\ legs[m].boat \in Placed /\ KeyOf(m)' = KeyOf(m)
        BY <1>3, <1>7, <2>2, <3>3
      <4> QED
        BY <1>5, <2>2, <4>1 DEF Scanned, Fresh
    <3> QED
      BY <3>2, <3>3
  <2> QED
    BY <1>1, <2>1, <2>2 DEF Scanned, Fresh, Walking
<1>12. Known'
  BY <1>1, <1>2, <1>3 DEF Known
<1> QED
  BY <1>8, <1>9, <1>10, <1>11, <1>12
-------------------------------------------------------------------------------
(* Steps of the sockets and their consumers, which a pass may only lose     *)
(* scans to.                                                                *)

Quiet ==
  /\ UNCHANGED <<wall, boats, settled, schedule>>
  /\ pass' \in Passing /\ pass'.scans \subseteq pass.scans
  /\ pass'.step = pass.step /\ pass'.attached = pass.attached /\ pass'.placed = pass.placed
  /\ pass'.todo = pass.todo /\ pass'.due = pass.due /\ pass'.boat = pass.boat
  /\ pass'.to = pass.to /\ pass'.walked = pass.walked /\ pass'.hits = pass.hits
  /\ pass'.from = pass.from

\* A leg that stays seated where it was, or gets up, and is owed no more.
Eases(m) ==
  /\ legs'[m] \in Sitting
  /\ legs'[m].owed \subseteq legs[m].owed
  /\ legs'[m].owed # {} => legs'[m].registered
  /\ legs'[m].registered => /\ legs[m].registered /\ legs'[m].met = legs[m].met
                            /\ legs'[m].at \in {"committed", "reading"}
                            /\ legs'[m].boat = legs[m].boat
  /\ legs'[m].boat # NoBoat => legs'[m].boat = legs[m].boat
  /\ legs'[m].at \in {"aboard", "committed", "reading"} =>
       /\ legs[m].at \in {"aboard", "committed", "reading"}
       /\ legs'[m].boat = legs[m].boat /\ legs'[m].account = legs[m].account

LEMMA TouchedQuiet ==
  ASSUME Typed, NEW touched, Touches(touched), UNCHANGED <<wall, boats, settled, schedule>>
  PROVE  Quiet /\ pass'.scans = pass.scans \ touched
<1>1. pass \in Passing /\ pass' = [pass EXCEPT !.scans = @ \ touched]
  BY DEF Touches, Typed
<1>2. pass.scans \ touched \subseteq Order
  BY <1>1 DEF Passing
<1> QED
  BY <1>1, <1>2 DEF Quiet, Passing

LEMMA StillQuiet ==
  ASSUME Typed, UNCHANGED <<wall, boats, settled, schedule, pass>>
  PROVE  Quiet
BY DEF Quiet, Typed

\* A leg left alone is eased.
LEMMA StillEases ==
  ASSUME Typed, Fleet, NEW m \in Leg, legs'[m] = legs[m]
  PROVE  Eases(m)
<1>1. legs[m] \in Sitting /\ Seated(m)
  BY DEF Typed, Fleet
<1> QED
  BY <1>1 DEF Eases, Seated

\* What holds of a leg holds of it eased.
LEMMA EasedLeg ==
  ASSUME IInv, Quiet, NEW m \in Leg, Eases(m)
  PROVE  /\ Seated(m)' /\ Paid(m)'
         /\ (pass.step = "gathering" /\ legs[m].registered /\ legs[m].met = "between"
               => legs[m].boat \in pass.placed)'
<1> USE DEF IInv
<1>1. Seated(m) /\ Paid(m)
  BY DEF Fleet, Booked
<1>2. legs'[m].boat # NoBoat => KeyOf(m)' = KeyOf(m)
  BY DEF Eases, Quiet, KeyOf
<1>3. Placed' = Placed
  BY DEF Quiet, Placed
<1>4. Seated(m)'
  BY <1>1, <1>2, <1>3 DEF Seated, Eases, Quiet
<1>5. legs'[m].owed # {} => /\ legs'[m].boat = legs[m].boat /\ legs'[m].account = legs[m].account
                            /\ legs'[m].met = legs[m].met /\ legs[m].boat # NoBoat
  BY <1>1 DEF Eases, Seated, Placed, NoBoat
<1>6. legs'[m].owed # {} => Reached(m)' = Reached(m)
  BY <1>5 DEF Reached, Quiet
<1>7. legs'[m].registered => legs'[m].account = legs[m].account
  BY DEF Eases
<1>8. Paid(m)'
  BY <1>1, <1>2, <1>5, <1>6, <1>7 DEF Paid, Eases, Quiet
<1> QED
  BY <1>4, <1>8 DEF Known, Eases, Quiet

\* What holds of an order holds of it left alone, and of one no longer resting.
LEMMA EasedOrder ==
  ASSUME IInv, Quiet, NEW o \in Order,
         \A m \in Leg : legs'[m].boat # NoBoat => legs'[m].boat = legs[m].boat,
         orders'[o] = orders[o] \/ orders'[o].state # "resting"
  PROVE  Fresh(o)'
<1>1. CASE orders'[o].state # "resting"
  BY <1>1 DEF Fresh
<1>2. CASE orders'[o] = orders[o]
  <2>1. Fresh(o)
    BY DEF IInv, Scanned
  <2>2. \A m \in Leg : legs'[m].boat # NoBoat => KeyOf(m)' = KeyOf(m)
    BY DEF KeyOf, Quiet
  <2> QED
    BY <1>2, <2>1, <2>2 DEF Fresh, Quiet, Walking
<1> QED
  BY <1>1, <1>2

\* So a quiet step is judged by the leg and the orders it changes.
LEMMA QuietInv ==
  ASSUME IInv, Quiet, legs' \in [Leg -> Sitting], orders' \in [Order -> Resting],
         \A m \in Leg : Seated(m)' /\ Paid(m)',
         \A m \in Leg : (pass.step = "gathering" /\ legs[m].registered /\ legs[m].met = "between"
                           => legs[m].boat \in pass.placed)',
         \A o \in Order : /\ Fresh(o)'
                          /\ orders[o].state # "unsent" => orders'[o].state # "unsent"
  PROVE  IInv'
<1> USE DEF IInv
<1>1. Typed'
  BY DEF Typed, Quiet
<1>2. Placed' = Placed /\ Walking' = Walking
  BY DEF Placed, Walking, Quiet
<1>3. Fleet'
  BY <1>2 DEF Fleet, Quiet
<1>4. Booked'
  <2>1. Walking => pass.boat \in Placed
    BY DEF Fleet
  <2> QED
    BY <1>2, <2>1 DEF Booked, Quiet, Walking, Clock
<1>5. Scanned'
  <2>1. pass.scans \cup pass.walked \subseteq Order
    BY DEF Typed, Passing
  <2> QED
    BY <2>1 DEF Scanned, Quiet
<1>6. Known'
  BY DEF Known
<1> QED
  BY <1>1, <1>3, <1>4, <1>5, <1>6
-------------------------------------------------------------------------------

LEMMA CommitInv ==
  ASSUME IInv, NEW l \in Leg, NEW evicts \in BOOLEAN, Commit(l, evicts)
  PROVE  IInv'
<1> USE DEF IInv
<1> DEFINE a == legs[l].account
           b == legs[l].boat
           back == IF Attended(a) THEN {} ELSE Resters(a)
           seat == [legs[l] EXCEPT !.at = "committed", !.registered = TRUE,
                                   !.returning = ~Attended(a), !.met = MetOnCommit(a),
                                   !.owed = {i \in Calendar[KeyOf(l)] : i > Clock(b)}]
           out(m) == [legs[m] EXCEPT !.registered = FALSE, !.met = "between", !.owed = {}]
<1>1. /\ legs[l].at = "aboard" /\ UNCHANGED <<wall, boats, settled, schedule, pass>>
      /\ legs' = [m \in Leg |-> IF m = l THEN seat
                                ELSE IF evicts /\ m \in Registered(a) THEN out(m) ELSE legs[m]]
      /\ orders' = [o \in Order |->
           IF o \in back THEN [orders[o] EXCEPT !.since = wall, !.astray = "away"]
           ELSE orders[o]]
  BY DEF Commit
<1>2. Quiet
  BY <1>1, StillQuiet
<1>3. b \in Placed /\ b # NoBoat /\ a \in Account /\ KeyOf(l) \in Key /\ Clock(b) \in Nat
  BY <1>1, LegAboard
<1>4. legs[l] \in Sitting /\ Calendar[KeyOf(l)] \subseteq 1..Horizon
  BY <1>3, SweepAssumption DEF Typed
<1>5. MetOnCommit(a) \in {"between", "unseen", "second"}
  BY DEF MetOnCommit
<1>6. /\ seat \in Sitting /\ seat.at = "committed" /\ seat.registered /\ seat.met = MetOnCommit(a)
      /\ seat.owed = {i \in Calendar[KeyOf(l)] : i > Clock(b)} /\ seat.account = a /\ seat.boat = b
  BY <1>4, <1>5 DEF Sitting
<1>7. \A m \in Leg : /\ out(m) \in Sitting /\ ~out(m).registered /\ out(m).owed = {}
                     /\ out(m).at = legs[m].at /\ out(m).boat = legs[m].boat
                     /\ out(m).account = legs[m].account
  BY DEF Sitting, Typed
<1>8. legs' \in [Leg -> Sitting] /\ legs'[l] = seat
  BY <1>1, <1>6, <1>7 DEF Typed
<1>9. \A m \in Leg : m # l => Eases(m)
  <2> SUFFICES ASSUME NEW m \in Leg, m # l PROVE Eases(m)
    OBVIOUS
  <2>1. CASE legs'[m] = out(m)
    BY <1>7, <2>1 DEF Eases
  <2>2. CASE legs'[m] = legs[m]
    BY <2>2, StillEases
  <2> QED
    BY <1>1, <2>1, <2>2
<1> HIDE DEF seat, out
<1>10. KeyOf(l)' = KeyOf(l)
  BY <1>1, <1>6, <1>8 DEF KeyOf
<1>11. Seated(l)'
  <2>1. Seated(l)
    BY DEF Fleet
  <2> QED
    BY <1>1, <1>3, <1>6, <1>8, <1>10, <2>1 DEF Seated, Placed
<1>12. Paid(l)'
  <2>1. Reached(l)' \in Int /\ Reached(l)' <= Clock(b)
    <3>1. boats[b].swept \in Nat /\ boats[b].swept <= Clock(b)
      BY <1>3, BoatPlaced
    <3>2. Reached(l)' = Reached(l)
      BY <1>1, <1>6, <1>8 DEF Reached
    <3>3. pass.step = "applying" /\ b = pass.boat
            => pass.from \in Nat /\ pass.from <= pass.to /\ pass.to = boats[b].swept
      BY DEF Booked, Typed, Passing
    <3> QED
      BY <1>3, <3>1, <3>2, <3>3 DEF Reached
  <2>2. \A i \in seat.owed : i \in Calendar[KeyOf(l)] /\ i \in Nat /\ i > Clock(b)
    BY <1>4, <1>6
  <2>3. pass.step # "sleeping" /\ seat.met # "unseen" => a \in pass.attached
    BY <1>6 DEF MetOnCommit
  <2>4. UNCHANGED pass
    BY <1>1
  <2>5. \A i \in legs'[l].owed : i \in Calendar[KeyOf(l)'] /\ ~(i <= Reached(l)')
    BY <1>3, <1>8, <1>10, <2>1, <2>2
  <2>6. legs'[l].account = a /\ legs'[l].met = seat.met
    BY <1>6, <1>8
  <2> QED
    BY <2>3, <2>4, <2>5, <2>6 DEF Paid
<1>13. ~(pass.step = "gathering" /\ seat.met = "between")
  BY <1>6 DEF MetOnCommit
<1>14. ASSUME NEW o \in Order
       PROVE  /\ orders'[o] \in Resting /\ orders'[o].state = orders[o].state
              /\ Fresh(o)'
  <2>1. orders[o] \in Resting /\ wall \in Nat
    BY DEF Typed
  <2>2. CASE o \in back
    <3>1. orders'[o] = [orders[o] EXCEPT !.since = wall, !.astray = "away"]
      BY <1>1, <2>2
    <3>2. /\ orders'[o] \in Resting /\ orders'[o].state = orders[o].state
          /\ orders'[o].since = wall /\ orders'[o].astray = "away"
          /\ orders'[o].key = orders[o].key /\ orders'[o].frontier = orders[o].frontier
      BY <2>1, <3>1 DEF Resting
    <3>3. Fresh(o)
      BY DEF Scanned
    <3>4. UNCHANGED <<wall, boats, pass>>
      BY <1>1
    <3>5. Fresh(o)'
      BY <2>1, <3>2, <3>3, <3>4 DEF Fresh, Walking
    <3> QED
      BY <3>2, <3>5
  <2>3. CASE o \notin back
    <3>1. orders'[o] = orders[o]
      BY <1>1, <2>3
    <3>2. \A m \in Leg : legs'[m].boat = legs[m].boat
      BY <1>1, <1>6, <1>7
    <3> QED
      BY <1>2, <2>1, <3>1, <3>2, EasedOrder
  <2> QED
    BY <2>2, <2>3
<1>15. orders' \in [Order -> Resting]
  BY <1>1, <1>14
<1> HIDE DEF a, b, back
<1> QED
  BY <1>2, <1>6, <1>8, <1>9, <1>11, <1>12, <1>13, <1>14, <1>15, EasedLeg, QuietInv DEF Quiet

LEMMA EasedInv ==
  ASSUME IInv, Quiet, legs' \in [Leg -> Sitting], orders' \in [Order -> Resting],
         \A m \in Leg : Eases(m),
         \A o \in Order : /\ Fresh(o)'
                          /\ orders[o].state # "unsent" => orders'[o].state # "unsent"
  PROVE  IInv'
BY EasedLeg, QuietInv

\* An order accepted or marked again on the clock of the boat under its key.
LEMMA MarkedFresh ==
  ASSUME IInv, Quiet, NEW l \in Leg, NEW o \in Order,
         legs[l].at \in {"committed", "reading"},
         \A m \in Leg : legs'[m].boat # NoBoat => legs'[m].boat = legs[m].boat,
         orders'[o].frontier = Clock(legs[l].boat), orders'[o].key = KeyOf(l),
         orders'[o].since <= wall, orders'[o].since \in Nat, o \notin pass'.scans,
         o \in pass.walked => orders[o].state = "resting" /\ orders[o].key = KeyOf(l)
  PROVE  Fresh(o)'
<1> USE DEF IInv
<1>1. \A m \in Leg : legs'[m].boat # NoBoat => legs'[m].boat = legs[m].boat /\ KeyOf(m)' = KeyOf(m)
  BY DEF KeyOf, Quiet
<1>2. legs[l].boat \in Placed /\ legs[l].boat # NoBoat
  BY LegAboard
<1>3. boats[legs[l].boat].born \in Nat /\ wall \in Nat
  BY <1>2, BoatPlaced DEF Typed
<1>4. \A m \in Leg : legs'[m].boat # NoBoat /\ KeyOf(m)' = orders'[o].key
        => boats'[legs'[m].boat].born + orders'[o].frontier = wall
  BY <1>1, <1>2, <1>3, OneAfloat DEF Clock, Quiet
<1>5. o \in pass.walked /\ Walking => orders'[o].key = boats[pass.boat].key
  BY DEF Scanned, Fresh
<1> QED
  BY <1>3, <1>4, <1>5 DEF Fresh, Quiet, Walking

LEMMA LeaveInv ==
  ASSUME IInv, NEW l \in Leg, Leave(l)
  PROVE  IInv'
<1> USE DEF IInv
<1> DEFINE gone == [Leg0 EXCEPT !.at = "gone"]
<1>1. /\ legs' = [legs EXCEPT ![l] = gone]
      /\ UNCHANGED <<wall, boats, orders, settled, schedule, pass>>
  BY DEF Leave
<1>2. /\ gone \in Sitting /\ gone.at = "gone" /\ gone.boat = NoBoat /\ gone.owed = {}
      /\ ~gone.registered
  BY DEF Leg0, Sitting
<1> HIDE DEF gone
<1>3. Quiet
  BY <1>1, StillQuiet
<1>4. \A m \in Leg : Eases(m)
  <2>1. Eases(l)
    BY <1>1, <1>2 DEF Eases, Typed
  <2>2. \A m \in Leg : m # l => legs'[m] = legs[m]
    BY <1>1 DEF Typed
  <2> QED
    BY <2>1, <2>2, StillEases
<1>5. \A m \in Leg : legs'[m].boat # NoBoat => legs'[m].boat = legs[m].boat
  BY <1>4 DEF Eases
<1>6. \A o \in Order : Fresh(o)'
  BY <1>1, <1>3, <1>5, EasedOrder
<1>7. legs' \in [Leg -> Sitting]
  BY <1>1, <1>2 DEF Typed
<1>8. orders' \in [Order -> Resting] /\ \A o \in Order : orders'[o] = orders[o]
  BY <1>1 DEF Typed
<1> QED
  BY <1>3, <1>4, <1>6, <1>7, <1>8, EasedInv

\* A command of a socket that is reading changes one order.
LEMMA CommandInv ==
  ASSUME IInv, Quiet, UNCHANGED legs, NEW o \in Order, NEW order \in Resting,
         orders' = [orders EXCEPT ![o] = order], Fresh(o)', order.state # "unsent"
  PROVE  IInv'
<1> USE DEF IInv
<1>1. legs' \in [Leg -> Sitting] /\ \A m \in Leg : legs'[m] = legs[m] /\ Eases(m)
  BY StillEases DEF Typed
<1>2. /\ orders' \in [Order -> Resting] /\ orders'[o] = order
      /\ \A p \in Order : p # o => orders'[p] = orders[p]
  BY DEF Typed
<1>3. \A p \in Order : Fresh(p)'
  BY <1>1, <1>2, EasedOrder
<1> QED
  BY <1>1, <1>2, <1>3, EasedInv

LEMMA SubmitInv ==
  ASSUME IInv, NEW l \in Leg, NEW o \in Order, Submit(l, o)
  PROVE  IInv'
<1> USE DEF IInv
<1> DEFINE order == [state |-> "resting", account |-> legs[l].account, key |-> KeyOf(l),
                     frontier |-> Clock(legs[l].boat), since |-> wall, astray |-> "no"]
<1>1. /\ legs[l].at = "reading" /\ orders[o].state = "unsent"
      /\ orders' = [orders EXCEPT ![o] = order]
      /\ UNCHANGED <<wall, boats, legs, settled, schedule, pass>>
  BY DEF Submit
<1>2. /\ legs[l].account \in Account /\ KeyOf(l) \in Key /\ Clock(legs[l].boat) \in Nat
      /\ wall \in Nat
  BY <1>1, LegAboard DEF Typed
<1>3. order \in Resting
  BY <1>2 DEF Resting
<1>4. Quiet
  BY <1>1, StillQuiet
<1>5. /\ orders'[o].frontier = Clock(legs[l].boat) /\ orders'[o].key = KeyOf(l)
      /\ orders'[o].since = wall /\ orders'[o].state = "resting"
  BY <1>1 DEF Typed
<1>6. o \notin pass'.scans /\ o \notin pass.walked
  BY <1>1 DEF Scanned
<1>7. Fresh(o)'
  BY <1>1, <1>2, <1>4, <1>5, <1>6, MarkedFresh
<1>8. order.state # "unsent"
  OBVIOUS
<1> HIDE DEF order
<1> QED
  BY <1>1, <1>3, <1>4, <1>7, <1>8, CommandInv

LEMMA AmendInv ==
  ASSUME IInv, NEW l \in Leg, NEW o \in Order, Amend(l, o)
  PROVE  IInv'
<1> USE DEF IInv
<1> DEFINE order == [orders[o] EXCEPT !.frontier = Clock(legs[l].boat), !.since = wall,
                                      !.astray = "no"]
<1>1. /\ legs[l].at = "reading" /\ orders[o].state = "resting" /\ orders[o].key = KeyOf(l)
      /\ Touches({o}) /\ UNCHANGED <<wall, boats, legs, settled, schedule>>
      /\ orders' = [orders EXCEPT ![o].frontier = Clock(legs[l].boat), ![o].since = wall,
                                  ![o].astray = "no"]
  BY DEF Amend, Resters
<1>2. Clock(legs[l].boat) \in Nat /\ wall \in Nat /\ orders[o] \in Resting
  BY <1>1, LegAboard DEF Typed
<1>3. /\ order \in Resting /\ order.state = "resting" /\ order.key = KeyOf(l)
      /\ order.frontier = Clock(legs[l].boat) /\ order.since = wall
  BY <1>1, <1>2 DEF Resting
<1>4. orders' = [orders EXCEPT ![o] = order]
  BY <1>1, <1>2 DEF Typed, Resting
<1> HIDE DEF order
<1>5. Quiet /\ o \notin pass'.scans
  BY <1>1, TouchedQuiet
<1>6. orders'[o] = order
  BY <1>4 DEF Typed
<1>7. Fresh(o)'
  <2>1. \A m \in Leg : legs'[m] = legs[m]
    BY <1>1
  <2>2. legs[l].at = "reading" /\ orders[o].state = "resting" /\ orders[o].key = KeyOf(l)
    BY <1>1
  <2> QED
    BY <1>2, <1>3, <1>5, <1>6, <2>1, <2>2, MarkedFresh
<1> QED
  BY <1>1, <1>3, <1>4, <1>5, <1>7, CommandInv

LEMMA DoneResting ==
  ASSUME NEW state \in {"filled", "canceled"}
  PROVE  Done(state) \in Resting /\ Done(state).state = state
BY DEF Done, Order0, Resting

LEMMA CancelInv ==
  ASSUME IInv, NEW l \in Leg, NEW o \in Order, Cancel(l, o)
  PROVE  IInv'
<1> USE DEF IInv
<1>1. /\ Touches({o}) /\ UNCHANGED <<wall, boats, legs, settled, schedule>>
      /\ orders' = [orders EXCEPT ![o] = Done("canceled")]
  BY DEF Cancel
<1>2. Quiet
  BY <1>1, TouchedQuiet
<1>3. orders'[o].state = "canceled"
  BY <1>1, DoneResting DEF Typed
<1>4. Fresh(o)'
  BY <1>3 DEF Fresh
<1> QED
  BY <1>1, <1>2, <1>4, DoneResting, CommandInv

LEMMA AtItsMark ==
  ASSUME NEW order \in Resting
  PROVE  [order EXCEPT !.frontier = order.frontier, !.astray = order.astray] = order
BY DEF Resting

LEMMA ResumeInv ==
  ASSUME IInv, NEW l \in Leg, Resume(l)
  PROVE  IInv'
<1> USE DEF IInv
<1> DEFINE now == Clock(legs[l].boat)
           mine == Resters(legs[l].account)
           off == {o \in mine : legs[l].returning /\ orders[o].key # KeyOf(l)}
           leading == {o \in mine : orders[o].frontier > now}
           moved == {o \in mine : legs[l].returning /\ orders[o].frontier # now} \cup leading
           rebased(o) == [orders[o] EXCEPT !.frontier = now,
                            !.astray = IF o \in pass.scans \ moved THEN @ ELSE "no"]
           pulled(o) == [orders[o] EXCEPT !.frontier = now,
                            !.astray = IF orders[o].key # KeyOf(l) THEN "pulled" ELSE @]
           resumed == [legs[l] EXCEPT !.at = "reading", !.returning = FALSE]
           after(o) == IF o \in off THEN Done("canceled")
                       ELSE IF o \in mine /\ legs[l].returning THEN rebased(o)
                       ELSE IF o \in leading THEN pulled(o)
                       ELSE orders[o]
<1>1. /\ legs[l].at = "committed" /\ Touches(off \cup moved)
      /\ UNCHANGED <<wall, boats, settled, schedule>>
      /\ legs' = [legs EXCEPT ![l].at = "reading", ![l].returning = FALSE]
      /\ orders' = [o \in Order |-> after(o)]
  BY DEF Resume
<1>2. Quiet /\ pass'.scans = pass.scans \ (off \cup moved)
  BY <1>1, TouchedQuiet
<1>3. now \in Nat /\ KeyOf(l) \in Key /\ legs[l].boat \in Placed
  BY <1>1, LegAboard
<1>4. /\ resumed \in Sitting /\ resumed.at = "reading" /\ resumed.boat = legs[l].boat
      /\ resumed.account = legs[l].account /\ resumed.met = legs[l].met
      /\ resumed.owed = legs[l].owed /\ resumed.registered = legs[l].registered
  BY DEF Sitting, Typed
<1>5. legs' = [legs EXCEPT ![l] = resumed]
  BY <1>1 DEF Typed, Sitting
<1> HIDE DEF resumed
<1>6. legs' \in [Leg -> Sitting] /\ \A m \in Leg : Eases(m)
  <2>1. Seated(l)
    BY DEF Fleet
  <2>2. Eases(l)
    BY <1>1, <1>4, <1>5, <2>1 DEF Eases, Seated, Typed
  <2>3. \A m \in Leg : m # l => legs'[m] = legs[m]
    BY <1>5 DEF Typed
  <2> QED
    BY <1>4, <1>5, <2>2, <2>3, StillEases DEF Typed
<1>7. \A m \in Leg : legs'[m].boat # NoBoat => legs'[m].boat = legs[m].boat
  BY <1>6 DEF Eases
<1>8. ASSUME NEW o \in Order
      PROVE  /\ orders'[o] \in Resting
             /\ orders[o].state # "unsent" => orders'[o].state # "unsent"
             /\ Fresh(o)'
  <2>1. orders[o] \in Resting /\ Fresh(o) /\ orders[o].since \in Nat
    BY DEF Typed, Scanned, Resting
  <2>2. CASE o \in off
    <3>1. orders'[o] = Done("canceled")
      BY <1>1, <2>2
    <3> QED
      BY <1>2, <1>7, <3>1, DoneResting, EasedOrder
  <2>3. CASE o \in mine \ off /\ legs[l].returning
    <3>1. orders'[o] = rebased(o) /\ orders[o].state = "resting" /\ orders[o].key = KeyOf(l)
      BY <1>1, <2>3 DEF Resters
    <3>2. /\ rebased(o) \in Resting /\ rebased(o).frontier = now /\ rebased(o).key = KeyOf(l)
          /\ rebased(o).since = orders[o].since /\ rebased(o).state = "resting"
          /\ rebased(o).astray = IF o \in pass.scans \ moved THEN orders[o].astray ELSE "no"
      BY <1>3, <2>1, <3>1 DEF Resting
    <3> HIDE DEF rebased
    <3>3. orders[o].since <= wall
      BY <2>1, <3>1 DEF Fresh
    <3>4. CASE o \in pass.scans \ moved
      <4>1. orders[o].frontier = now
        BY <2>3, <3>4
      <4>2. orders'[o] = orders[o]
        <5>1. rebased(o) = [orders[o] EXCEPT !.frontier = now, !.astray = orders[o].astray]
          BY <3>4 DEF rebased
        <5> QED
          BY <2>1, <3>1, <4>1, <5>1, AtItsMark
      <4> QED
        BY <1>2, <1>7, <2>1, <4>2, EasedOrder
    <3>5. CASE o \notin pass.scans \ moved
      <4>1. o \notin pass'.scans
        BY <1>2, <3>5
      <4> QED
        BY <1>1, <1>2, <1>7, <2>1, <3>1, <3>2, <3>3, <4>1, MarkedFresh
    <3> QED
      BY <3>4, <3>5
  <2>4. CASE o \in leading /\ ~legs[l].returning
    <3>1. /\ orders'[o] = pulled(o) /\ orders[o].state = "resting"
          /\ o \notin pass'.scans
      BY <1>1, <1>2, <2>4 DEF Resters
    <3>2. /\ pulled(o) \in Resting /\ pulled(o).frontier = now /\ pulled(o).key = orders[o].key
          /\ pulled(o).since = orders[o].since /\ pulled(o).state = "resting"
          /\ orders[o].key # KeyOf(l) => pulled(o).astray = "pulled"
      BY <1>3, <2>1, <3>1 DEF Resting
    <3> HIDE DEF pulled
    <3>3. orders[o].since <= wall
      BY <2>1, <3>1 DEF Fresh
    <3>4. CASE orders[o].key = KeyOf(l)
      BY <1>1, <1>2, <1>7, <2>1, <3>1, <3>2, <3>3, <3>4, MarkedFresh
    <3>5. CASE orders[o].key # KeyOf(l)
      BY <1>2, <2>1, <3>1, <3>2, <3>3, <3>5 DEF Fresh, Quiet, Walking
    <3> QED
      BY <3>1, <3>2, <3>4, <3>5
  <2>5. CASE ~(o \in mine /\ legs[l].returning) /\ o \notin leading
    <3>1. orders'[o] = orders[o]
      BY <1>1, <2>5
    <3> QED
      BY <1>2, <1>7, <2>1, <3>1, EasedOrder
  <2> QED
    BY <2>2, <2>3, <2>4, <2>5
<1>9. orders' \in [Order -> Resting]
  <2>1. orders' = [o \in Order |-> orders'[o]]
    <3>1. orders' = [o \in Order |-> after(o)]
      BY <1>1
    <3> HIDE DEF after
    <3> QED
      BY <3>1
  <2> QED
    BY <1>8, <2>1
<1> QED
  BY <1>2, <1>6, <1>8, <1>9, EasedInv
-------------------------------------------------------------------------------
(* Steps of the sweeper, which move no leg.                                *)

LEMMA SampleAccountsInv ==
  ASSUME IInv, SampleAccounts
  PROVE  IInv'
<1> USE DEF IInv
<1>1. /\ pass.step = "sleeping" /\ UNCHANGED <<wall, boats, legs, orders, settled, schedule>>
      /\ pass' = [pass EXCEPT !.step = "sampling", !.attached = {a \in Account : Attended(a)}]
  BY DEF SampleAccounts
<1>2. /\ pass' \in Passing /\ pass'.step = "sampling"
      /\ pass'.attached = {a \in Account : Attended(a)}
      /\ pass'.scans = pass.scans /\ pass'.walked = pass.walked /\ pass'.due = pass.due
  BY <1>1 DEF Typed, Passing
<1>3. Typed'
  BY <1>1, <1>2 DEF Typed
<1>4. Fleet'
  BY <1>1, <1>2 DEF Fleet, Seated, Placed, Walking, KeyOf
<1>5. Booked'
  <2>1. ASSUME NEW l \in Leg PROVE Paid(l)'
    <3>1. Paid(l) /\ Seated(l)
      BY DEF Booked, Fleet
    <3>2. legs[l].registered => Attended(legs[l].account) /\ legs[l].account \in Account
      BY <3>1 DEF Attended, Registered, Seated
    <3>3. Reached(l)' = Reached(l) /\ KeyOf(l)' = KeyOf(l)
      BY <1>1, <1>2 DEF Reached, KeyOf
    <3> QED
      BY <1>1, <1>2, <3>1, <3>2, <3>3 DEF Paid
  <2> QED
    BY <1>1, <1>2, <2>1 DEF Booked, Placed
<1>6. Scanned'
  BY <1>1, <1>2 DEF Scanned, Fresh, Walking, KeyOf
<1>7. Known'
  BY <1>2 DEF Known
<1> QED
  BY <1>3, <1>4, <1>5, <1>6, <1>7

LEMMA SampleBoatsInv ==
  ASSUME IInv, SampleBoats
  PROVE  IInv'
<1> USE DEF IInv
<1>1. /\ pass.step = "sampling" /\ UNCHANGED <<wall, boats, legs, orders, settled, schedule>>
      /\ pass' = [pass EXCEPT !.step = "gathering", !.todo = pass.attached, !.placed = Afloat]
  BY DEF SampleBoats
<1>2. Afloat \subseteq BoatNumber
  BY AfloatPlaced, BoatPlaced
<1>3. /\ pass' \in Passing /\ pass'.step = "gathering" /\ pass'.placed = Afloat
      /\ pass'.attached = pass.attached
      /\ pass'.scans = pass.scans /\ pass'.walked = pass.walked /\ pass'.due = pass.due
  BY <1>1, <1>2 DEF Typed, Passing
<1>4. Typed'
  BY <1>1, <1>3 DEF Typed
<1>5. Fleet'
  BY <1>1, <1>3 DEF Fleet, Seated, Placed, Walking, KeyOf
<1>6. Booked'
  <2>1. ASSUME NEW l \in Leg PROVE Paid(l)'
    <3>1. Paid(l)
      BY DEF Booked
    <3>2. Reached(l)' = Reached(l) /\ KeyOf(l)' = KeyOf(l)
      BY <1>1, <1>3 DEF Reached, KeyOf
    <3> QED
      BY <1>1, <1>3, <3>1, <3>2 DEF Paid
  <2> QED
    BY <1>1, <1>3, <2>1 DEF Booked, Placed
<1>7. Scanned'
  BY <1>1, <1>3 DEF Scanned, Fresh, Walking, KeyOf
<1>8. Known'
  <2> SUFFICES ASSUME NEW l \in Leg, legs[l].registered
               PROVE  legs[l].boat \in Afloat
    BY <1>1, <1>3 DEF Known
  <2>1. legs[l].boat \in Placed
    BY LegAboard DEF Fleet, Seated
  <2> QED
    BY <2>1 DEF Afloat, Placed
<1> QED
  BY <1>4, <1>5, <1>6, <1>7, <1>8

LEMMA GatherInv ==
  ASSUME IInv, NEW a \in Account, Gather(a)
  PROVE  IInv'
<1> USE DEF IInv
<1> DEFINE readable == {boats[b].key : b \in {c \in pass.placed : SeatedOn(a, boats[c].key)}}
           stranded == {o \in Resters(a) : orders[o].key \notin readable}
<1>1. /\ pass.step = "gathering" /\ UNCHANGED <<wall, boats, legs, settled, schedule>>
      /\ orders' = [o \in Order |-> IF o \in stranded THEN Done("canceled") ELSE orders[o]]
      /\ pass' = [pass EXCEPT !.todo = @ \ {a},
                              !.scans = @ \cup (Resters(a) \ stranded)]
  BY DEF Gather
<1>2. Resters(a) \subseteq Order /\ \A o \in Resters(a) : orders[o].state = "resting"
  BY DEF Resters
<1> HIDE DEF stranded
<1>3. /\ pass' \in Passing /\ pass'.step = "gathering" /\ pass'.placed = pass.placed
      /\ pass'.attached = pass.attached /\ pass'.scans = pass.scans \cup (Resters(a) \ stranded)
      /\ pass'.walked = pass.walked /\ pass'.due = pass.due
  BY <1>1, <1>2 DEF Typed, Passing
<1>4. \A o \in Order : /\ orders'[o] \in Resting
                       /\ orders'[o] = orders[o] \/ orders'[o].state = "canceled"
  BY <1>1, DoneResting DEF Typed
<1>5. orders' \in [Order -> Resting]
  BY <1>1, <1>4
<1>6. Typed'
  BY <1>1, <1>3, <1>5 DEF Typed
<1>7. Fleet'
  BY <1>1, <1>3 DEF Fleet, Seated, Placed, Walking, KeyOf
<1>8. Booked'
  <2>1. ASSUME NEW l \in Leg PROVE Paid(l)'
    <3>1. Paid(l)
      BY DEF Booked
    <3>2. Reached(l)' = Reached(l) /\ KeyOf(l)' = KeyOf(l)
      BY <1>1, <1>3 DEF Reached, KeyOf
    <3> QED
      BY <1>1, <1>3, <3>1, <3>2 DEF Paid
  <2> QED
    BY <1>1, <1>3, <2>1 DEF Booked, Placed
<1>9. Scanned'
  <2>1. \A o \in pass'.scans \cup pass'.walked : o \in Order /\ orders[o].state # "unsent"
    BY <1>2, <1>3 DEF Scanned, Typed, Passing
  <2>2. ASSUME NEW o \in Order PROVE Fresh(o)'
    <3>1. CASE orders'[o] = orders[o]
      BY <1>1, <1>3, <3>1 DEF Scanned, Fresh, Walking, KeyOf
    <3>2. CASE orders'[o].state = "canceled"
      BY <3>2 DEF Fresh
    <3> QED
      BY <1>4, <3>1, <3>2
  <2> QED
    BY <1>3, <1>4, <2>1, <2>2 DEF Scanned
<1>10. Known'
  BY <1>1, <1>3 DEF Known
<1> QED
  BY <1>6, <1>7, <1>8, <1>9, <1>10

\* On to the next boat that is due, or to sleep.
LEMMA NextBoatInv ==
  ASSUME IInv, NEW due \in SUBSET Placed, NextBoat(due), pass.step # "sleeping",
         pass.step = "applying" => pass.todo = {},
         UNCHANGED <<wall, boats, legs, orders, settled>>
  PROVE  IInv'
<1> USE DEF IInv
<1>1. Placed' = Placed /\ \A l \in Leg : KeyOf(l)' = KeyOf(l)
  BY DEF Placed, KeyOf
<1>2. \A l \in Leg : Reached(l) = boats[legs[l].boat].swept
  BY DEF Reached
<1>3. CASE due = {}
  <2>1. /\ pass' = Asleep /\ schedule' = Rescheduled
    BY <1>3 DEF NextBoat
  <2>2. pass' \in Passing /\ pass'.step = "sleeping" /\ pass'.scans = {} /\ pass'.walked = {}
        /\ pass'.due = {}
    BY <2>1, AsleepPassing DEF Asleep
  <2>3. Typed'
    BY <2>1, <2>2, RescheduledPlaced DEF Typed
  <2>4. Fleet'
    BY <1>1, <2>1, <2>2, RescheduledPlaced DEF Fleet, Seated, Walking
  <2>5. Booked'
    <3>1. ASSUME NEW l \in Leg PROVE Paid(l)'
      <4>1. Paid(l)
        BY DEF Booked
      <4>2. Reached(l)' = Reached(l)
        BY <1>2, <2>2 DEF Reached
      <4> QED
        BY <1>1, <2>2, <4>1, <4>2 DEF Paid
    <3> QED
      BY <1>1, <2>2, <3>1 DEF Booked
  <2>6. Scanned'
    BY <1>1, <2>2 DEF Scanned, Fresh, Walking
  <2>7. Known'
    BY <2>2 DEF Known
  <2> QED
    BY <2>3, <2>4, <2>5, <2>6, <2>7
<1>4. CASE due # {}
  <2>1. PICK b \in due : pass' = [pass EXCEPT
              !.step = "reading", !.placed = {}, !.todo = {}, !.due = due \ {b},
              !.boat = b, !.to = Clock(b), !.from = boats[b].swept, !.hits = <<>>,
              !.walked = {o \in pass.scans : /\ orders[o].key = boats[b].key
                                             /\ SeatedOn(orders[o].account, boats[b].key)}]
    BY <1>4 DEF NextBoat
  <2>2. UNCHANGED schedule
    BY <1>4 DEF NextBoat
  <2> DEFINE walked == {o \in pass.scans : /\ orders[o].key = boats[b].key
                                           /\ SeatedOn(orders[o].account, boats[b].key)}
  <2>3. /\ b \in Placed /\ b \in BoatNumber /\ Clock(b) \in Nat /\ boats[b].swept \in Nat
        /\ boats[b].swept <= Clock(b) /\ boats[b].born \in Nat /\ due \subseteq BoatNumber
    BY BoatPlaced
  <2>4. pass \in Passing /\ wall \in Nat /\ walked \subseteq pass.scans /\ walked \subseteq Order
    BY DEF Typed, Passing
  <2>5. /\ pass' \in Passing /\ pass'.step = "reading" /\ pass'.boat = b /\ pass'.to = Clock(b)
        /\ pass'.from = boats[b].swept /\ pass'.walked = walked /\ pass'.scans = pass.scans
        /\ pass'.attached = pass.attached /\ pass'.due = due \ {b}
    BY <2>1, <2>3, <2>4, NoHits DEF Passing
  <2>6. Typed'
    BY <2>2, <2>5 DEF Typed
  <2>7. Fleet'
    BY <1>1, <2>2, <2>3, <2>5 DEF Fleet, Seated, Walking
  <2>8. Booked'
    <3>1. ASSUME NEW l \in Leg PROVE Paid(l)'
      <4>1. Paid(l)
        BY DEF Booked
      <4>2. Reached(l)' = Reached(l)
        BY <1>2, <2>5 DEF Reached
      <4> QED
        BY <1>1, <2>5, <4>1, <4>2 DEF Paid
    <3>2. Clock(b)' = Clock(b)
      BY DEF Clock
    <3> QED
      BY <1>1, <2>3, <2>5, <3>1, <3>2 DEF Booked
  <2>9. Scanned'
    <3>1. ASSUME NEW o \in Order PROVE Fresh(o)'
      <4>1. Fresh(o)
        BY DEF Scanned
      <4>2. boats[b].born + Clock(b) = wall
        BY <2>3, <2>4 DEF Clock
      <4>3. o \in walked => orders[o].key = boats[b].key
        OBVIOUS
      <4> HIDE DEF walked
      <4> QED
        BY <1>1, <2>5, <4>1, <4>2, <4>3 DEF Fresh
    <3> QED
      BY <2>4, <2>5, <3>1 DEF Scanned
  <2>10. Known'
    BY <2>5 DEF Known
  <2> QED
    BY <2>6, <2>7, <2>8, <2>9, <2>10
<1> QED
  BY <1>3, <1>4

LEMMA StartReadingInv ==
  ASSUME IInv, StartReading
  PROVE  IInv'
<1>1. PICK due \in SUBSET ({schedule[k] : k \in Key} \ {NoBoat}) : NextBoat(due)
  BY DEF StartReading
<1>2. due \in SUBSET Placed
  BY ScheduledPlaced DEF IInv
<1> QED
  BY <1>1, <1>2, NextBoatInv DEF StartReading

LEMMA EndOfBoatInv ==
  ASSUME IInv, EndOfBoat
  PROVE  IInv'
<1>1. pass.due \in SUBSET Placed
  BY DEF IInv, Fleet
<1> QED
  BY <1>1, NextBoatInv DEF EndOfBoat

LEMMA BoatReplaced ==
  ASSUME NEW s \in Seq(Boat), NEW b \in 1..Len(s), NEW v \in Boat
  PROVE  /\ [s EXCEPT ![b] = v] \in Seq(Boat) /\ Len([s EXCEPT ![b] = v]) = Len(s)
         /\ [s EXCEPT ![b] = v][b] = v
         /\ \A c \in 1..Len(s) : c # b => [s EXCEPT ![b] = v][c] = s[c]
OBVIOUS

\* A reading that fails leaves the boat where it was.
LEMMA ReadFailed ==
  ASSUME IInv, pass.step = "reading", NextBoat(pass.due),
         boats' = [boats EXCEPT ![pass.boat].swept = FrontierAfter(pass.boat, FALSE)],
         UNCHANGED <<wall, legs, orders, settled>>
  PROVE  IInv'
<1>1. pass.boat \in Placed /\ pass.due \in SUBSET Placed
  BY DEF IInv, Fleet, Walking
<1>2. boats \in Seq(Boat) /\ boats[pass.boat] \in Boat
  BY <1>1, BoatPlaced DEF IInv, Typed
<1>3. [boats[pass.boat] EXCEPT !.swept = boats[pass.boat].swept] = boats[pass.boat]
  BY <1>2 DEF Boat
<1>4. boats' = [boats EXCEPT ![pass.boat] = boats[pass.boat]]
  BY <1>3 DEF FrontierAfter
<1>5. boats' = boats
  BY <1>1, <1>2, <1>4 DEF Placed
<1> QED
  BY <1>1, <1>5, NextBoatInv

LEMMA ReadDone ==
  ASSUME IInv, pass.step = "reading", NEW walked \in {{}, pass.walked}, NEW h \in Hits(walked),
         pass' = [pass EXCEPT !.step = "applying", !.walked = walked, !.hits = h,
                              !.todo = pass.attached],
         boats' = [boats EXCEPT ![pass.boat].swept = FrontierAfter(pass.boat, TRUE)],
         UNCHANGED <<wall, legs, orders, settled, schedule>>
  PROVE  IInv'
<1> USE DEF IInv
<1> DEFINE b == pass.boat
           read == [boats[b] EXCEPT !.swept = pass.to]
<1>1. /\ b \in Placed /\ b # NoBoat /\ boats[b] \in Boat /\ boats[b].swept \in Nat
      /\ pass.to \in Nat /\ pass.from \in Nat /\ pass.walked \subseteq Order
      /\ pass.from = boats[b].swept /\ pass.to <= Clock(b) /\ pass.from <= pass.to
      /\ boats[b].born \in Nat /\ wall \in Nat
  BY BoatPlaced DEF Fleet, Walking, Booked, Typed, Passing
<1>2. /\ read \in Boat /\ read.key = boats[b].key /\ read.born = boats[b].born
      /\ read.swept = pass.to
  BY <1>1 DEF Boat
<1>3. boats' = [boats EXCEPT ![b] = read]
  BY DEF FrontierAfter
<1> HIDE DEF read
<1>4. boats' \in Seq(Boat) /\ Placed' = Placed /\ Len(boats') = Len(boats)
  BY <1>1, <1>2, <1>3, BoatReplaced DEF Typed, Placed
<1>5. \A c \in Placed : /\ boats'[c].key = boats[c].key
                        /\ boats'[c].born = boats[c].born
                        /\ boats[c].swept \in Nat /\ boats'[c].swept \in Nat
                        /\ boats'[c].swept >= boats[c].swept
                        /\ c # b => boats'[c].swept = boats[c].swept
                        /\ c = b => boats'[c].swept = pass.to
  <2> SUFFICES ASSUME NEW c \in Placed
               PROVE  /\ boats'[c].key = boats[c].key
                      /\ boats'[c].born = boats[c].born
                      /\ boats[c].swept \in Nat /\ boats'[c].swept \in Nat
                      /\ boats'[c].swept >= boats[c].swept
                      /\ c # b => boats'[c].swept = boats[c].swept
                      /\ c = b => boats'[c].swept = pass.to
    OBVIOUS
  <2>1. boats'[c] = IF c = b THEN read ELSE boats[c]
    BY <1>1, <1>3 DEF Typed, Placed
  <2>2. boats[c].swept \in Nat
    BY BoatPlaced
  <2>3. CASE c = b
    BY <1>1, <1>2, <2>1, <2>2, <2>3
  <2>4. CASE c # b
    BY <2>1, <2>2, <2>4
  <2> QED
    BY <2>3, <2>4
<1>6. h \in [walked -> 0..pass.to] /\ walked \subseteq pass.walked
      /\ \A o \in walked : h[o] # 0 => o \in pass.scans /\ h[o] > orders[o].frontier
  BY DEF Hits
<1>7. h \in [walked -> Nat] /\ h \in Found
  <2>1. walked \in SUBSET Order
    BY <1>1, <1>6
  <2>2. h \in [walked -> Nat]
    BY <1>1, <1>6
  <2> QED
    BY <2>1, <2>2 DEF Found
<1>8. /\ pass' \in Passing /\ pass'.step = "applying" /\ pass'.walked = walked /\ pass'.hits = h
      /\ pass'.todo = pass.attached /\ pass'.attached = pass.attached /\ pass'.scans = pass.scans
      /\ pass'.boat = b /\ pass'.to = pass.to /\ pass'.from = pass.from /\ pass'.due = pass.due
  BY <1>1, <1>6, <1>7 DEF Typed, Passing
<1>9. Typed'
  BY <1>4, <1>8 DEF Typed
<1>10. \A l \in Leg : legs[l].boat # NoBoat => legs[l].boat \in Placed /\ KeyOf(l)' = KeyOf(l)
  BY <1>5 DEF Fleet, Seated, KeyOf
<1>11. Fleet'
  <2>1. \A c \in Placed : boats'[c].swept <= wall - boats'[c].born
    BY <1>1, <1>5 DEF Fleet, Clock
  <2>2. \A l \in Leg : Seated(l)'
    BY <1>4, <1>5, <1>10 DEF Fleet, Seated
  <2> QED
    <3>1. \A c, d \in Placed : c <= d => boats'[c].born <= boats'[d].born
      BY <1>5 DEF Fleet
    <3>2. \A c \in Placed : boats'[c].born <= wall
      BY <1>5 DEF Fleet
    <3>3. pass'.due \subseteq Placed /\ \A k \in Key : schedule[k] # NoBoat => schedule[k] \in Placed
      BY <1>8 DEF Fleet
    <3>4. wall' = wall /\ schedule' = schedule /\ Placed' = Placed /\ pass'.boat \in Placed
      BY <1>1, <1>4, <1>8
    <3> QED
      BY <2>1, <2>2, <3>1, <3>2, <3>3, <3>4 DEF Fleet
<1>12. Booked'
  <2>1. ASSUME NEW a \in Account, NEW c \in BoatNumber, NEW i \in 1..Horizon
        PROVE  /\ settled[<<a, c, i>>] <= 1
               /\ settled[<<a, c, i>>] > 0 => c \in Placed /\ i <= boats'[c].swept
    <3>1. /\ settled[<<a, c, i>>] <= 1
          /\ settled[<<a, c, i>>] > 0 => c \in Placed /\ i <= boats[c].swept
      BY DEF Booked
    <3>2. i \in Nat
      BY SweepAssumption
    <3>3. c \in Placed => /\ boats[c].swept \in Nat /\ boats'[c].swept \in Nat
                          /\ boats[c].swept <= boats'[c].swept
      BY <1>5
    <3>4. ASSUME settled[<<a, c, i>>] > 0
          PROVE  c \in Placed /\ i <= boats'[c].swept
      <4>1. c \in Placed /\ i <= boats[c].swept
        BY <3>1, <3>4
      <4> DEFINE before == boats[c].swept
                 after == boats'[c].swept
      <4>2. before \in Nat /\ after \in Nat /\ before <= after /\ i <= before
        BY <3>3, <4>1
      <4>3. i <= after
        <5> HIDE DEF before, after
        <5> QED
          BY <3>2, <4>2
      <4> QED
        BY <4>1, <4>3
    <3> QED
      BY <3>1, <3>4
  <2>2. \A a \in pass.attached, i \in 1..Horizon : i > pass.from => settled[<<a, b, i>>] = 0
    <3> SUFFICES ASSUME NEW a \in pass.attached, NEW i \in 1..Horizon, i > pass.from
                 PROVE  settled[<<a, b, i>>] = 0
      OBVIOUS
    <3>1. a \in Account /\ b \in BoatNumber
      BY <1>1, BoatPlaced DEF Typed, Passing
    <3>2. settled[<<a, b, i>>] \in Nat
      BY <3>1 DEF Typed
    <3> QED
      BY <1>1, <3>1, <3>2 DEF Booked
  <2>3. ASSUME NEW l \in Leg PROVE Paid(l)'
    <3>1. Paid(l) /\ Seated(l)
      BY DEF Booked, Fleet
    <3>2. ASSUME NEW i \in legs[l].owed, legs[l].met # "unseen", i <= Reached(l)'
          PROVE  settled[<<legs[l].account, legs[l].boat, i>>] = 1
      <4>1. legs[l].registered /\ legs[l].account \in pass.attached
        BY <3>1, <3>2 DEF Seated, Paid
      <4>2. legs[l].boat \in Placed
        BY <3>1, <4>1 DEF Seated
      <4>3. Reached(l) = boats[legs[l].boat].swept
        BY DEF Reached
      <4>4. Reached(l)' = boats[legs[l].boat].swept
        <5>1. CASE legs[l].boat = b
          BY <1>1, <1>8, <4>1, <5>1 DEF Reached
        <5>2. CASE legs[l].boat # b
          BY <1>5, <1>8, <4>2, <5>2 DEF Reached
        <5> QED
          BY <5>1, <5>2
      <4> QED
        BY <3>1, <3>2, <4>3, <4>4 DEF Paid
    <3>3. legs[l].owed # {} => KeyOf(l)' = KeyOf(l)
      BY <1>10, <3>1 DEF Seated, Placed, NoBoat
    <3> QED
      BY <1>8, <3>1, <3>2, <3>3 DEF Paid
  <2>4. boats'[b].swept = pass.to
    BY <1>1, <1>5
  <2> QED
    BY <1>1, <1>4, <1>8, <2>1, <2>2, <2>3, <2>4 DEF Booked
<1>13. Scanned'
  <2>1. ASSUME NEW o \in Order PROVE Fresh(o)'
    <3>1. Fresh(o)
      BY DEF Scanned
    <3>2. \A l \in Leg : legs[l].boat # NoBoat /\ KeyOf(l)' = orders[o].key
            => boats'[legs[l].boat].born = boats[legs[l].boat].born /\ KeyOf(l) = orders[o].key
      BY <1>5, <1>10
    <3> QED
      BY <1>1, <1>5, <1>6, <1>8, <3>1, <3>2 DEF Fresh, Walking
  <2> QED
    BY <1>6, <1>7, <1>8, <2>1 DEF Scanned
<1>14. Known'
  BY <1>8 DEF Known
<1> QED
  BY <1>9, <1>11, <1>12, <1>13, <1>14

LEMMA ReadInv ==
  ASSUME IInv, Read
  PROVE  IInv'
<1> PICK read \in BOOLEAN, walked \in {{}, pass.walked} :
       /\ boats' = [boats EXCEPT ![pass.boat].swept = FrontierAfter(pass.boat, read)]
       /\ IF read
            THEN \E h \in Hits(walked) :
                   pass' = [pass EXCEPT !.step = "applying", !.walked = walked, !.hits = h,
                                        !.todo = pass.attached]
                 /\ UNCHANGED schedule
            ELSE NextBoat(pass.due)
  BY DEF Read
<1>1. CASE read
  BY <1>1, ReadDone DEF Read
<1>2. CASE ~read
  BY <1>2, ReadFailed DEF Read
<1> QED
  BY <1>1, <1>2

LEMMA ApplyInv ==
  ASSUME IInv, NEW a \in Account, Apply(a)
  PROVE  IInv'
<1> USE DEF IInv
<1> DEFINE b == pass.boat
           filled(o) == IF o \notin Results(a) THEN orders[o]
                        ELSE IF pass.hits[o] # 0 THEN Done("filled")
                        ELSE [orders[o] EXCEPT !.frontier = pass.to]
<1>1. /\ pass.step = "applying" /\ a \in pass.todo
      /\ UNCHANGED <<wall, boats, legs, schedule>>
  BY DEF Apply
<1>2. /\ b \in Placed /\ b \in BoatNumber /\ b # NoBoat /\ boats[b].key \in Key
      /\ boats[b].born \in Nat /\ boats[b].swept \in Nat /\ pass.to \in Nat /\ pass.from \in Nat
      /\ boats[b].swept = pass.to /\ pass.from <= pass.to /\ wall \in Nat
  BY <1>1, BoatPlaced DEF Fleet, Walking, Booked, Typed, Passing
\* Only here, and only if the account has a seat, are the orders of the walk applied.
<1>3. /\ pass' \in Passing /\ pass'.step = "applying" /\ pass'.todo = pass.todo \ {a}
      /\ pass'.scans \subseteq pass.scans
      /\ (SweptHere(a) => pass'.scans = pass.scans \ Results(a))
      /\ (~SweptHere(a) => UNCHANGED <<orders, settled>>)
      /\ pass'.attached = pass.attached /\ pass'.walked = pass.walked /\ pass'.due = pass.due
      /\ pass'.boat = b /\ pass'.to = pass.to /\ pass'.from = pass.from /\ pass'.hits = pass.hits
  <2>1. CASE SweptHere(a)
    <3>1. pass' = [pass EXCEPT !.todo = @ \ {a}, !.scans = @ \ Results(a)]
      BY <2>1 DEF Apply
    <3> QED
      BY <1>1, <2>1, <3>1 DEF Typed, Passing
  <2>2. CASE ~SweptHere(a)
    <3>1. pass' = [pass EXCEPT !.todo = @ \ {a}] /\ UNCHANGED <<orders, settled>>
      BY <2>2 DEF Apply
    <3> QED
      BY <1>1, <2>2, <3>1 DEF Typed, Passing
  <2> QED
    BY <2>1, <2>2
<1>4. SweptHere(a) => orders' = [o \in Order |-> filled(o)]
  BY DEF Apply
<1>5. Placed' = Placed /\ \A l \in Leg : KeyOf(l)' = KeyOf(l)
  BY <1>1 DEF Placed, KeyOf
<1>6. \A o \in Results(a) : /\ o \in Order /\ o \in pass.walked /\ o \in pass.scans
                            /\ orders[o].state = "resting"
  BY DEF Results, Resters
<1>7. pass.hits \in [pass.walked -> Nat]
  BY <1>1 DEF Scanned
<1>8. ASSUME NEW o \in Order
      PROVE  /\ orders'[o] \in Resting /\ Fresh(o)'
             /\ orders[o].state # "unsent" => orders'[o].state # "unsent"
  <2>1. orders[o] \in Resting /\ Fresh(o)
    BY DEF Typed, Scanned
  <2>2. CASE orders'[o] = orders[o]
    BY <1>1, <1>3, <1>5, <2>1, <2>2 DEF Fresh, Walking
  <2>3. CASE SweptHere(a) /\ o \in Results(a) /\ pass.hits[o] # 0
    <3>1. orders'[o] = Done("filled")
      BY <1>4, <2>3
    <3> QED
      BY <3>1, DoneResting DEF Fresh
  <2>4. CASE SweptHere(a) /\ o \in Results(a) /\ pass.hits[o] = 0
    <3>1. orders'[o] = [orders[o] EXCEPT !.frontier = pass.to]
      BY <1>4, <2>4
    <3>2. /\ orders'[o] \in Resting /\ orders'[o].frontier = pass.to
          /\ orders'[o].state = "resting" /\ orders'[o].key = orders[o].key
          /\ orders'[o].since = orders[o].since /\ orders'[o].astray = orders[o].astray
      BY <1>2, <1>6, <2>1, <2>4, <3>1 DEF Resting
    <3>3. orders[o].key = boats[b].key
      BY <1>1, <1>6, <2>1, <2>4 DEF Fresh, Walking
    <3>4. ASSUME orders[o].astray = "no", NEW l \in Leg, legs[l].boat # NoBoat,
                 KeyOf(l) = orders[o].key
          PROVE  boats[legs[l].boat].born + pass.to >= orders[o].since
      <4>1. boats[b].born + pass.to >= orders[o].since
        BY <1>1, <1>6, <2>1, <2>4, <3>4 DEF Fresh, Walking
      <4>2. legs[l].boat \in Placed /\ b <= legs[l].boat
        BY <1>2, <3>3, <3>4 DEF Fleet, Seated
      <4>3. boats[b].born <= boats[legs[l].boat].born
        BY <1>2, <4>2 DEF Fleet
      <4>4. boats[legs[l].boat].born \in Nat /\ orders[o].since \in Nat
        BY <2>1, <4>2, BoatPlaced DEF Resting
      <4> QED
        BY <1>2, <4>1, <4>3, <4>4
    <3>5. o \notin pass'.scans
      BY <1>3, <2>4
    <3> QED
      BY <1>1, <1>3, <1>5, <1>6, <2>1, <2>4, <3>2, <3>3, <3>4, <3>5 DEF Fresh, Walking
  <2> QED
    BY <1>3, <1>4, <2>2, <2>3, <2>4
<1>9. orders' \in [Order -> Resting]
  <2>1. CASE SweptHere(a)
    <3> HIDE DEF filled
    <3> QED
      BY <1>4, <1>8, <2>1
  <2>2. CASE ~SweptHere(a)
    BY <1>3, <2>2 DEF Typed
  <2> QED
    BY <2>1, <2>2
<1>10. Scanned'
  <2>1. pass.scans \cup pass.walked \subseteq Order
    BY DEF Typed, Passing
  <2> QED
    BY <1>3, <1>7, <1>8, <2>1 DEF Scanned
\* What the pass crossed is booked to this account once.
<1>11. /\ settled' \in [Account \X BoatNumber \X (1..Horizon) -> Nat]
       /\ \A c \in Account, d \in BoatNumber, i \in 1..Horizon :
            settled'[<<c, d, i>>] = IF SweptHere(a) /\ c = a /\ d = b /\ i \in Crossed
                                      THEN settled[<<c, d, i>>] + 1 ELSE settled[<<c, d, i>>]
  <2>1. CASE SweptHere(a)
    <3>1. settled' = [x \in DOMAIN settled |->
                       IF x[1] = a /\ x[2] = b /\ x[3] \in Crossed
                         THEN settled[x] + 1 ELSE settled[x]]
      BY <2>1 DEF Apply
    <3> QED
      BY <2>1, <3>1 DEF Typed
  <2>2. CASE ~SweptHere(a)
    BY <1>3, <2>2 DEF Typed
  <2> QED
    BY <2>1, <2>2
<1>12. Typed'
  BY <1>1, <1>3, <1>9, <1>11 DEF Typed
<1>13. Fleet'
  BY <1>1, <1>3, <1>5 DEF Fleet, Seated, Walking
<1>14. \A i \in Crossed : i \in 1..Horizon /\ i > pass.from /\ i <= pass.to
  BY <1>2, SweepAssumption DEF Crossed
<1>15. \A c \in Account, d \in BoatNumber, i \in 1..Horizon : settled[<<c, d, i>>] \in Nat
  BY DEF Typed
<1>16. Booked'
  <2>1. ASSUME NEW c \in Account, NEW d \in BoatNumber, NEW i \in 1..Horizon
        PROVE  /\ settled'[<<c, d, i>>] <= 1
               /\ settled'[<<c, d, i>>] > 0 => d \in Placed /\ i <= boats[d].swept
    <3>1. CASE SweptHere(a) /\ c = a /\ d = b /\ i \in Crossed
      <4>1. settled[<<c, d, i>>] = 0
        BY <1>1, <1>14, <3>1 DEF Booked
      <4> QED
        BY <1>2, <1>11, <1>14, <3>1, <4>1
    <3>2. CASE ~(SweptHere(a) /\ c = a /\ d = b /\ i \in Crossed)
      BY <1>11, <3>2 DEF Booked
    <3> QED
      BY <3>1, <3>2
  <2>2. \A c \in pass'.todo, i \in 1..Horizon : i > pass.from => settled'[<<c, b, i>>] = 0
    <3>1. \A c \in pass'.todo : c \in Account /\ c # a /\ c \in pass.todo
      BY <1>3 DEF Typed, Passing
    <3> QED
      BY <1>1, <1>2, <1>11, <3>1 DEF Booked
  <2>3. ASSUME NEW l \in Leg PROVE Paid(l)'
    <3>1. Paid(l) /\ Seated(l)
      BY DEF Booked, Fleet
    <3>2. ASSUME NEW i \in legs[l].owed, legs[l].met # "unseen", i <= Reached(l)'
          PROVE  settled'[<<legs[l].account, legs[l].boat, i>>] = 1
      <4>1. /\ legs[l].registered /\ legs[l].account \in Account /\ legs[l].boat \in Placed
            /\ legs[l].boat \in BoatNumber /\ legs[l].boat # NoBoat /\ i \in 1..Horizon
            /\ i \in Calendar[KeyOf(l)] /\ boats[legs[l].boat].swept \in Nat
        BY <3>1, <3>2, BoatPlaced DEF Seated, Paid, Typed, Sitting
      <4>2. CASE legs[l].account = a /\ legs[l].boat = b
        <5>1. i <= pass.to
          BY <1>1, <1>2, <1>3, <3>2, <4>2 DEF Reached
        <5>2. SweptHere(a)
          BY <4>1, <4>2 DEF SweptHere, SeatedOn, Registered, KeyOf
        <5>3. CASE i > pass.from
          <6>1. i \in Crossed
            BY <4>1, <4>2, <5>1, <5>3 DEF Crossed, KeyOf
          <6>2. settled[<<a, b, i>>] = 0
            BY <1>1, <4>1, <5>3 DEF Booked
          <6> QED
            BY <1>2, <1>11, <4>1, <4>2, <5>2, <6>1, <6>2
        <5>4. CASE ~(i > pass.from)
          <6>1. Reached(l) = pass.from
            BY <1>1, <4>2 DEF Reached
          <6>2. settled[<<a, b, i>>] = 1
            BY <1>2, <3>1, <3>2, <4>1, <4>2, <5>4, <6>1 DEF Paid
          <6>3. i \notin Crossed
            BY <1>14, <5>4
          <6> QED
            BY <1>2, <1>11, <4>1, <4>2, <6>2, <6>3
        <5> QED
          BY <5>3, <5>4
      <4>3. CASE ~(legs[l].account = a /\ legs[l].boat = b)
        <5>1. Reached(l)' = Reached(l)
          BY <1>1, <1>3, <4>3 DEF Reached
        <5> QED
          BY <1>11, <3>1, <3>2, <4>1, <4>3, <5>1 DEF Paid
      <4> QED
        BY <4>2, <4>3
    <3> QED
      BY <1>1, <1>3, <1>5, <3>1, <3>2 DEF Paid
  <2> QED
    BY <1>1, <1>2, <1>3, <1>5, <2>1, <2>2, <2>3 DEF Booked
<1>17. Known'
  BY <1>3 DEF Known
<1> QED
  BY <1>10, <1>12, <1>13, <1>16, <1>17
-------------------------------------------------------------------------------

LEMMA InitInv == Init => IInv
<1> SUFFICES ASSUME Init PROVE IInv
  OBVIOUS
<1>1. Leg0 \in Sitting /\ Leg0.at = "ashore" /\ Leg0.boat = NoBoat /\ ~Leg0.registered
      /\ Leg0.owed = {}
  BY DEF Leg0, Sitting
<1>2. Order0 \in Resting /\ Order0.state = "unsent"
  BY DEF Order0, Resting
<1>3. boats = <<>> /\ boats \in Seq(Boat) /\ Len(boats) = 0 /\ Placed = {}
  BY DEF Init, Placed
<1>4. Asleep \in Passing /\ Asleep.step = "sleeping" /\ Asleep.scans = {} /\ Asleep.walked = {}
      /\ Asleep.due = {}
  BY AsleepPassing DEF Asleep
<1>5. Typed
  BY <1>1, <1>2, <1>3, <1>4, SweepAssumption DEF Init, Typed, NoBoat
<1>6. Fleet
  BY <1>1, <1>3, <1>4 DEF Init, Fleet, Seated, Walking
<1>7. Booked
  BY <1>1, <1>4 DEF Init, Booked, Paid
<1>8. Scanned
  BY <1>2, <1>4 DEF Init, Scanned, Fresh
<1>9. Known
  BY <1>4 DEF Init, Known
<1> QED
  BY <1>5, <1>6, <1>7, <1>8, <1>9 DEF IInv

LEMMA StillInv ==
  ASSUME IInv, UNCHANGED vars
  PROVE  IInv'
<1>1. Quiet /\ UNCHANGED <<legs, orders>>
  BY StillQuiet DEF IInv, vars
<1>2. \A m \in Leg : Eases(m)
  BY <1>1, StillEases DEF IInv
<1>3. \A o \in Order : Fresh(o)'
  BY <1>1, EasedOrder
<1>4. legs' \in [Leg -> Sitting] /\ orders' \in [Order -> Resting]
  BY <1>1 DEF IInv, Typed
<1> QED
  BY <1>1, <1>2, <1>3, <1>4, EasedInv

LEMMA NextInv == IInv /\ [Next]_vars => IInv'
<1> SUFFICES ASSUME IInv, [Next]_vars PROVE IInv'
  OBVIOUS
<1>1. CASE Tick
  BY <1>1, TickInv
<1>2. ASSUME NEW l \in Leg, NEW a \in Account, NEW k \in Key, Board(l, a, k) PROVE IInv'
  BY <1>2, BoardInv
<1>3. ASSUME NEW l \in Leg, NEW evicts \in BOOLEAN, Commit(l, evicts) PROVE IInv'
  BY <1>3, CommitInv
<1>4. ASSUME NEW l \in Leg, Resume(l) PROVE IInv'
  BY <1>4, ResumeInv
<1>5. ASSUME NEW l \in Leg, Leave(l) PROVE IInv'
  BY <1>5, LeaveInv
<1>6. ASSUME NEW l \in Leg, NEW o \in Order, Submit(l, o) PROVE IInv'
  BY <1>6, SubmitInv
<1>7. ASSUME NEW l \in Leg, NEW o \in Order, Amend(l, o) PROVE IInv'
  BY <1>7, AmendInv
<1>8. ASSUME NEW l \in Leg, NEW o \in Order, Cancel(l, o) PROVE IInv'
  BY <1>8, CancelInv
<1>9. CASE SampleAccounts
  BY <1>9, SampleAccountsInv
<1>10. CASE SampleBoats
  BY <1>10, SampleBoatsInv
<1>11. CASE StartReading
  BY <1>11, StartReadingInv
<1>12. CASE Read
  BY <1>12, ReadInv
<1>13. CASE EndOfBoat
  BY <1>13, EndOfBoatInv
<1>14. ASSUME NEW a \in Account, Gather(a) PROVE IInv'
  BY <1>14, GatherInv
<1>15. ASSUME NEW a \in Account, Apply(a) PROVE IInv'
  BY <1>15, ApplyInv
<1>16. CASE UNCHANGED vars
  BY <1>16, StillInv
<1> QED
  BY <1>1, <1>2, <1>3, <1>4, <1>5, <1>6, <1>7, <1>8, <1>9, <1>10, <1>11, <1>12, <1>13, <1>14,
     <1>15, <1>16 DEF Next

\* The invariant of the sweep beside everything that changes under it.
THEOREM SweepInv == Spec => []IInv
BY InitInv, NextInv, PTL DEF Spec

\* Every variable keeps its type, and no boat is swept ahead of its clock.
THEOREM SweepTypeCorrect == Spec => []TypeOK
<1>1. IInv => TypeOK
  <2> SUFFICES ASSUME IInv PROVE TypeOK
    OBVIOUS
  <2>1. \A b \in 1..Len(boats) : boats[b].swept <= wall - boats[b].born
    BY DEF IInv, Fleet, Placed
  <2> QED
    BY <2>1 DEF IInv, Typed, Passing, TypeOK
<1> QED
  BY <1>1, SweepInv, PTL

\* However often a reading fails and its span is swept again, and whoever joins,
\* leaves or is evicted meanwhile, each settlement of a boat is booked to an
\* account once, and to whoever sat through it (sweeper.rs:707-744).
THEOREM SettlementsBookedOnce == Spec => []SettledOnce
<1>1. IInv => SettledOnce
  <2> SUFFICES ASSUME IInv PROVE SettledOnce
    OBVIOUS
  <2>1. ASSUME NEW x \in DOMAIN settled PROVE settled[x] <= 1
    <3>1. x \in Account \X BoatNumber \X (1..Horizon)
      BY DEF IInv, Typed
    <3>2. PICK a \in Account, b \in BoatNumber, i \in 1..Horizon : x = <<a, b, i>>
      BY <3>1
    <3> QED
      BY <3>2 DEF IInv, Booked
  <2>2. ASSUME NEW l \in Leg, NEW i \in legs[l].owed, legs[l].met # "unseen",
               ~(pass.step = "applying" /\ legs[l].account \in pass.todo),
               i <= boats[legs[l].boat].swept
        PROVE  settled[<<legs[l].account, legs[l].boat, i>>] = 1
    <3>1. Reached(l) = boats[legs[l].boat].swept
      BY <2>2 DEF Reached
    <3> QED
      BY <2>2, <3>1 DEF IInv, Booked, Paid
  <2> QED
    BY <2>1, <2>2 DEF SettledOnce
<1> QED
  BY <1>1, SweepInv, PTL

\* Only an application of a pass fills an order, and the print it fills on is
\* one its boat showed after the order came to stand as it does, for any number
\* of boats, sockets and orders (orders.rs:1346-1391).
THEOREM FillsOnlyOnLaterPrints == Spec => FillsAfterAcceptance
<1> DEFINE Owed(o) == \/ PrintedAt(o) > orders[o].since \/ orders[o].astray # "no"
                      \/ ~Rides(orders[o].account, pass.boat)
<1>1. ASSUME IInv, [Next]_vars, NEW o \in Order, Fills(o)
      PROVE  Owed(o)
  <2> USE DEF IInv
  <2>1. PICK a \in Account : Apply(a)
    <3>1. orders[o].state = "resting" /\ orders'[o].state = "filled"
      BY <1>1 DEF Fills
    <3>2. \A l \in Leg, e \in BOOLEAN : ~Commit(l, e)
      <4> SUFFICES ASSUME NEW l \in Leg, NEW e \in BOOLEAN, Commit(l, e) PROVE FALSE
        OBVIOUS
      <4>1. orders'[o] = [orders[o] EXCEPT !.since = wall, !.astray = "away"]
            \/ orders'[o] = orders[o]
        BY DEF Commit
      <4> QED
        BY <1>1, <3>1, <4>1 DEF Typed, Resting
    <3>3. \A l \in Leg : ~Resume(l)
      <4> SUFFICES ASSUME NEW l \in Leg, Resume(l) PROVE FALSE
        OBVIOUS
      <4>1. \/ orders'[o] = Done("canceled") \/ orders'[o] = orders[o]
            \/ \E f, s : orders'[o] = [orders[o] EXCEPT !.frontier = f, !.astray = s]
        BY Zenon DEF Resume
      <4> QED
        BY <1>1, <3>1, <4>1, DoneResting DEF Typed, Resting
    <3>4. \A l \in Leg, p \in Order : ~Submit(l, p) /\ ~Amend(l, p) /\ ~Cancel(l, p)
      <4> SUFFICES ASSUME NEW l \in Leg, NEW p \in Order,
                          Submit(l, p) \/ Amend(l, p) \/ Cancel(l, p)
                   PROVE FALSE
        OBVIOUS
      <4>1. CASE Submit(l, p)
        BY <1>1, <3>1, <4>1 DEF Submit, Typed
      <4>2. CASE Amend(l, p)
        BY <1>1, <3>1, <4>2 DEF Amend, Typed, Resting
      <4>3. CASE Cancel(l, p)
        BY <1>1, <3>1, <4>3, DoneResting DEF Cancel, Typed
      <4> QED
        BY <4>1, <4>2, <4>3
    <3>5. \A a \in Account : ~Gather(a)
      BY <1>1, <3>1, DoneResting DEF Gather
    <3>6. orders' # orders
      BY <3>1
    <3> QED
      BY <1>1, <3>2, <3>3, <3>4, <3>5, <3>6
         DEF Next, vars, Tick, Board, Leave, SampleAccounts, SampleBoats, StartReading, Read,
             EndOfBoat
  <2>2. orders[o].state = "resting" /\ orders'[o].state = "filled"
    BY <1>1 DEF Fills
  <2>3. pass.step = "applying" /\ o \in Results(a) /\ pass.hits[o] # 0
    <3>1. orders[o] \in Resting
      BY <1>1 DEF Typed
    <3>2. pass.step = "applying" /\ orders' # orders
      BY <2>1, <2>2 DEF Apply
    <3>3. orders'[o] = IF o \notin Results(a) THEN orders[o]
                       ELSE IF pass.hits[o] # 0 THEN Done("filled")
                       ELSE [orders[o] EXCEPT !.frontier = pass.to]
      BY <2>1, <3>2 DEF Apply
    <3>4. [orders[o] EXCEPT !.frontier = pass.to].state = orders[o].state
      BY <3>1 DEF Resting
    <3> QED
      BY <2>2, <3>2, <3>3, <3>4
  <2>4. o \in pass.walked /\ o \in pass.scans
    BY <2>3 DEF Results
  <2>5. Fresh(o) /\ orders[o] \in Resting
    BY <1>1 DEF Scanned, Typed
  <2>6. /\ pass.boat \in Placed /\ pass.boat # NoBoat /\ boats[pass.boat].born \in Nat
    BY <1>1, <2>3, BoatPlaced DEF Fleet, Walking
  <2>7. pass.hits[o] \in Nat /\ pass.hits[o] > orders[o].frontier
    BY <1>1, <2>2, <2>3, <2>4, <2>5 DEF Scanned, Fresh
  <2>8. orders[o].key = boats[pass.boat].key
    BY <2>2, <2>3, <2>4, <2>5 DEF Fresh, Walking
  <2>9. ASSUME orders[o].astray = "no", Rides(orders[o].account, pass.boat)
        PROVE  PrintedAt(o) > orders[o].since
    <3>1. PICK l \in Leg : legs[l].boat = pass.boat
      BY <2>9 DEF Rides, Registered
    <3>2. boats[pass.boat].born + orders[o].frontier >= orders[o].since
      BY <2>2, <2>5, <2>6, <2>8, <2>9, <3>1 DEF Fresh, KeyOf
    <3>3. orders[o].frontier \in Nat /\ orders[o].since \in Nat
      BY <2>5 DEF Resting
    <3> QED
      BY <2>6, <2>7, <3>2, <3>3 DEF PrintedAt
  <2> QED
    BY <2>9
<1>2. IInv /\ [Next]_vars
        => [\A o \in Order : Fills(o) => \/ PrintedAt(o) > orders[o].since
                                         \/ orders[o].astray # "no"
                                         \/ ~Rides(orders[o].account, pass.boat)]_vars
  BY <1>1
<1> QED
  BY <1>2, SweepInv, PTL DEF Spec, FillsAfterAcceptance

\* What the gathering of a pass cancels as unreadable rests on a river that no
\* leg of its account was riding when the pass began (sweeper.rs:131-156).
THEOREM RiddenOrdersAlwaysKept == Spec => RiddenOrdersKept
<1>1. ASSUME IInv, NEW a \in Account, Gather(a), NEW o \in Order, NEW l \in Leg,
             orders[o].state = "resting", orders'[o].state = "canceled",
             l \in Registered(orders[o].account), KeyOf(l) = orders[o].key
      PROVE  legs[l].met # "between"
  <2> SUFFICES ASSUME legs[l].met = "between" PROVE FALSE
    OBVIOUS
  <2> DEFINE readable == {boats[b].key : b \in {c \in pass.placed : SeatedOn(a, boats[c].key)}}
  <2>1. o \in Resters(a) /\ orders[o].key \notin readable
    BY <1>1 DEF Gather
  <2>2. orders[o].account = a /\ legs[l].registered
    BY <1>1, <2>1 DEF Resters, Registered
  <2>3. pass.step = "gathering" /\ legs[l].boat \in pass.placed
    BY <1>1, <2>2 DEF Gather, IInv, Known
  <2>4. SeatedOn(a, boats[legs[l].boat].key)
    BY <1>1, <2>2 DEF SeatedOn, KeyOf
  <2>5. boats[legs[l].boat].key \in readable
    BY <2>3, <2>4
  <2> QED
    BY <1>1, <2>1, <2>5 DEF KeyOf
<1>2. IInv /\ [Next]_vars
        => [\A a \in Account : Gather(a) =>
             \A o \in Order, l \in Leg :
               /\ orders[o].state = "resting" /\ orders'[o].state = "canceled"
               /\ l \in Registered(orders[o].account) /\ KeyOf(l) = orders[o].key
               => legs[l].met # "between"]_vars
  BY <1>1
<1> QED
  BY <1>2, SweepInv, PTL DEF Spec, RiddenOrdersKept
===============================================================================
