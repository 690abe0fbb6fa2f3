------------------------------ MODULE Boatyard ------------------------------
(***************************************************************************)
(* The boatyard of the venue (mogwai-venue/src/boatyard.rs): paced tapes   *)
(* shared by the passengers who ask for the same river at the same speed.  *)
(* The first to ask for a key places its boat, later ones wait for that    *)
(* placement on its semaphore, and the last to leave winds the boat down.  *)
(*                                                                         *)
(* A placement, its semaphore and the boat that comes of it carry the name *)
(* of the socket that places.  The mutex is held for one action.           *)
(***************************************************************************)
EXTENDS Sockets

VARIABLES
  slots,     \* what the yard keeps under each key
  handed,    \* the placements whose semaphore is closed
  tickets,   \* the boat each passenger holds a ticket of
  afloat     \* the boats whose tape thread has not been told to stop

boatyardVars == <<slots, handed, tickets, afloat>>

Slot == [state : {"empty", "placing", "placed", "failed"},
         placer : Conn \cup {NoConn}, passengers : Nat]
NoSlot == [state |-> "empty", placer |-> NoConn, passengers |-> 0]

BoatyardTypeOK == /\ slots \in [Key -> Slot]
                  /\ handed \subseteq Conn
                  /\ tickets \in [Conn -> Conn \cup {NoConn}]
                  /\ afloat \subseteq Conn

BoatyardInit == /\ slots = [k \in Key |-> NoSlot]
                /\ handed = {}
                /\ tickets = [u \in Conn |-> NoConn]
                /\ afloat = {}
----------------------------------------------------------------------------
(* board                                                                   *)

\* Slip: a joiner of a placed boat is not counted.
JoinUncounted(u, k) ==
  /\ slots[k].state = "placed"
  /\ tickets' = [tickets EXCEPT ![u] = slots[k].placer]
  /\ UNCHANGED <<slots, handed, afloat>>

Join(u, k) ==
  /\ slots[k].state = "placed"
  /\ slots' = [slots EXCEPT ![k].passengers = @ + 1]
  /\ tickets' = [tickets EXCEPT ![u] = slots[k].placer]
  /\ UNCHANGED <<handed, afloat>>

StartPlacing(u, k) ==
  /\ slots[k].state = "empty"
  /\ slots' = [slots EXCEPT ![k] = [NoSlot EXCEPT !.state = "placing", !.placer = u]]
  /\ UNCHANGED <<handed, tickets, afloat>>

\* Slip: the boat is placed and nobody is told.
LaunchSilently(u, k) ==
  /\ slots[k].state = "placing" /\ slots[k].placer = u
  /\ slots' = [slots EXCEPT ![k] = [@ EXCEPT !.state = "placed", !.passengers = 1]]
  /\ tickets' = [tickets EXCEPT ![u] = u]
  /\ afloat' = afloat \cup {u}
  /\ UNCHANGED handed

\* The placement is back: its boat sails with the placer aboard and every
\* joiner is woken.
Launch(u, k) ==
  /\ slots[k].state = "placing" /\ slots[k].placer = u
  /\ slots' = [slots EXCEPT ![k] = [@ EXCEPT !.state = "placed", !.passengers = 1]]
  /\ handed' = handed \cup {u}
  /\ tickets' = [tickets EXCEPT ![u] = u]
  /\ afloat' = afloat \cup {u}

\* A placement that failed is kept, for its joiners and for the rest of the run.
PlacementFailed(u, k) ==
  /\ slots[k].state = "placing" /\ slots[k].placer = u
  /\ slots' = [slots EXCEPT ![k].state = "failed"]
  /\ handed' = handed \cup {u}
  /\ UNCHANGED <<tickets, afloat>>
----------------------------------------------------------------------------
(* Dropping a ticket.                                                      *)

\* The ticket gives up its place if the yard still keeps the boat it names
\* under the key, and the last one takes the boat off and stops its tape.
DropTicket(u, k) ==
  LET s == slots[k]
      mine == s.state = "placed" /\ s.placer = tickets[u]
      last == mine /\ s.passengers = 1
  IN  /\ tickets[u] # NoConn
      /\ slots' = IF ~mine THEN slots
                  ELSE [slots EXCEPT ![k] = IF last THEN NoSlot
                                            ELSE [s EXCEPT !.passengers = @ - 1]]
      /\ tickets' = [tickets EXCEPT ![u] = NoConn]
      /\ afloat' = IF last THEN afloat \ {tickets[u]} ELSE afloat
      /\ UNCHANGED handed
----------------------------------------------------------------------------
(* Safety of the yard whatever its callers do.                             *)

Passengers(b) == {u \in Conn : tickets[u] = b}

\* A boat is kept while somebody rides it and no longer: its slot counts the
\* tickets that name it, there is at least one, and exactly the boats kept in
\* a slot have a tape running, so no tape is paced for nobody and no
\* passenger reads a tape that was stopped.  That also makes the arm that
\* logs a stale ticket on a replacement boat unreachable (boatyard.rs:505-540).
BoatsSailForPassengers ==
  /\ \A k \in Key :
       slots[k].state = "placed" =>
         /\ slots[k].passengers = Cardinality(Passengers(slots[k].placer))
         /\ slots[k].passengers > 0
  /\ afloat = {slots[k].placer : k \in {l \in Key : slots[l].state = "placed"}}
  /\ \A u \in Conn : tickets[u] # NoConn => tickets[u] \in afloat
============================================================================
