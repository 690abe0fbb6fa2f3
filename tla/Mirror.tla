------------------------------- MODULE Mirror -------------------------------
(***************************************************************************)
(* What the adapter's execution client believes of each order              *)
(* (mogwai-adapter client/exec.rs, ExecState): one wire event, or one      *)
(* rejection made up for a command that never left, applied to one record. *)
(***************************************************************************)
EXTENDS Naturals, FiniteSets

CONSTANT Order        \* client order ids

Quantity == 2         \* every order's, filled a unit at a time

Open == {"submitted", "accepted", "triggered", "partiallyFilled"}
Closed == {"filled", "canceled", "rejected"}
Absent == "absent"

\* trades are the fills the record has counted.
Record == [status : Open \cup Closed \cup {Absent}, trades : SUBSET (1..Quantity)]
NoRecord == [status |-> Absent, trades |-> {}]
Announced == [status |-> "submitted", trades |-> {}]
IsClosed(r) == r.status \in Closed

\* A frame the venue sends about an order: filled is how much of the order had
\* executed when the venue sent it, this fill included.
Kinds == {"accepted", "triggered", "updated", "filled", "canceled", "rejected"}
Event == [kind : Kinds, order : Order, filled : 0..Quantity]
----------------------------------------------------------------------------
\* The statuses a rejection may close, by who says so: the venue, or the
\* adapter on finding that the frame never left.
RejectableBy(origin) == IF origin = "venue" THEN {"submitted", "accepted", "triggered"}
                        ELSE {"submitted"}

\* What a status says of an order of which this much has executed.
ByFills(filled) == IF filled = Quantity THEN "filled" ELSE "partiallyFilled"

\* The status an event leaves on an open record.
Advanced(r, e) ==
  CASE e.kind = "updated" ->
         IF e.filled > 0 THEN ByFills(e.filled)
         ELSE IF r.status = "triggered" THEN "triggered" ELSE "accepted"
    [] e.kind = "filled" -> IF e.filled \in r.trades THEN r.status ELSE ByFills(e.filled)
    [] e.kind = "rejected" -> IF r.status \in RejectableBy("venue") THEN "rejected" ELSE r.status
    [] OTHER -> e.kind

\* handle_exec_message: an event for an order the mirror does not know changes
\* nothing, a closed record keeps its status, and a fill is counted either way.
Applied(r, e) ==
  LET counted == IF e.kind = "filled" THEN [r EXCEPT !.trades = @ \cup {e.filled}] ELSE r
  IN IF r.status = Absent THEN r
     ELSE IF IsClosed(r) THEN counted
     ELSE [counted EXCEPT !.status = Advanced(r, e)]

\* The rejection made up for a submit that was not written.
RejectedHere(r) ==
  IF r.status \in RejectableBy("transport") THEN [r EXCEPT !.status = "rejected"] ELSE r

\* The events that end an order for the host. A refused rejection is not
\* passed on; every other event of a known order is.
Ends(r, e) ==
  /\ r.status # Absent
  /\ \/ e.kind = "canceled"
     \/ e.kind = "filled" /\ e.filled = Quantity
     \/ e.kind = "rejected" /\ r.status \in RejectableBy("venue")
=============================================================================
