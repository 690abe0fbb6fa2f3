----------------------------- MODULE ExecClient -----------------------------
(***************************************************************************)
(* The adapter's execution client between a nautilus host and the venue    *)
(* (mogwai-adapter client/exec.rs, lifecycle.rs, client/shared.rs): the    *)
(* mirror of module Mirror, one connection task per connect with its       *)
(* command queue, receipt book and redials, the inbound havoc filter and   *)
(* latency pump, and the generations that fence one connect from the next. *)
(*                                                                         *)
(* The venue is outside: it admits or refuses a submit, works an order,    *)
(* and says what it did on the socket seated last.                         *)
(***************************************************************************)
EXTENDS Mirror, Sequences, SequencesExt, FiniteSetsExt

CONSTANTS
  Conditional,    \* the orders that rest as limits behind a trigger
  Faults,         \* which of "drop", "duplicate", "reorder" the filter is armed with
  MaxGeneration,  \* bounds the host's connects
  MaxSpent        \* bounds the sockets lost, the frames the filter tampers
                  \* with and the host's cancels and modifies, together

ASSUME ExecClientAssumption ==
  /\ Conditional \subseteq Order
  /\ Faults \subseteq {"drop", "duplicate", "reorder"}
  /\ {MaxGeneration, MaxSpent} \subseteq Nat

VARIABLES
  mirror,      \* ExecState.orders
  told,        \* orders the host has had a terminal event for
  generation,  \* the live generation, 0 for none
  channel,     \* the task ws_cmd sends to, 0 when the client has none
  issued,      \* how many generations have been issued
  task,        \* per generation, its connection task, socket and pump
  venue,       \* the venue's orders
  spent,       \* how many drops, faults and changes there have been
  history      \* submits written, submits given up while they may be on the
               \* wire, orders some frame of which was lost

vars == <<mirror, told, generation, channel, issued, task, venue, spent, history>>

Generation == 1..MaxGeneration
Command == [verb : {"submit", "cancel", "modify"}, order : Order]

\* queue is the command channel, book the receipts of commands handed to the
\* writer, sending says that the first of them is on the wire already; up and
\* down are in flight on the socket; held and pump are the havoc filter's
\* reorder slot and the latency pump's queue, which waits for ready.
NoTask == [phase |-> "none", stopping |-> FALSE, queue |-> <<>>, book |-> <<>>,
           sending |-> FALSE, up |-> <<>>, down |-> <<>>, held |-> <<>>,
           pump |-> <<>>, ready |-> FALSE]
Working == {"dialing", "up"}
Task == [phase : Working \cup {"none", "ended"}, stopping : BOOLEAN,
         queue : Seq(Command), book : Seq(Command), sending : BOOLEAN,
         up : Seq(Command), down : Seq(Event), held : Seq(Event), pump : Seq(Event),
         ready : BOOLEAN]

TypeOK ==
  /\ mirror \in [Order -> Record]
  /\ told \subseteq Order
  /\ generation \in 0..issued /\ channel \in 0..issued /\ issued \in 0..MaxGeneration
  /\ task \in [Generation -> Task]
  /\ \A g \in Generation :
       /\ task[g].sending => task[g].phase = "up" /\ task[g].book # <<>>
       /\ task[g].book # <<>> => task[g].phase = "up"
       /\ task[g].queue # <<>> => task[g].phase \in Working
  /\ venue \in [Order -> [phase : {"unknown", "armed", "open", "closed"}, filled : 0..Quantity]]
  /\ spent \in 0..MaxSpent
  /\ history \in [written : SUBSET Order, guessed : SUBSET Order, lost : SUBSET Order]

Init ==
  /\ mirror = [o \in Order |-> NoRecord]
  /\ told = {}
  /\ generation = 0 /\ channel = 0 /\ issued = 0
  /\ task = [g \in Generation |-> NoTask]
  /\ venue = [o \in Order |-> [phase |-> "unknown", filled |-> 0]]
  /\ spent = 0
  /\ history = [written |-> {}, guessed |-> {}, lost |-> {}]

Orders(frames) == {frames[i].order : i \in DOMAIN frames}
Submits(cmds) == {cmds[i].order : i \in {j \in DOMAIN cmds : cmds[j].verb = "submit"}}
----------------------------------------------------------------------------
(* Telling the host.                                                       *)

\* A context speaks while the generation it was built for is the live one.
Speaks(epoch) == epoch = generation

\* report_undelivered_command: the submits among these commands are rejected
\* where the mirror knows nothing of them yet, through the context of the task
\* that owned them. Cancels and modifies leave the record alone.
Undelivered(cmds, epoch) ==
  LET refused == {o \in Submits(cmds) : mirror[o].status \in RejectableBy("transport")}
  IN /\ mirror' = [o \in Order |-> IF o \in refused THEN RejectedHere(mirror[o]) ELSE mirror[o]]
     /\ told' = IF Speaks(epoch) THEN told \cup refused ELSE told

\* Slip: only what the queue holds is reported, the receipts are dropped.
BookForgotten(t) == t.queue

\* What a task that ends owes a report of: its receipts, then its queue.
Owed(t) == t.book \o t.queue
----------------------------------------------------------------------------
(* The host.                                                               *)

\* connect() borrows the client until the delivery barrier opens or it fails.
Free == channel \in {0} \cup {g \in Generation : task[g].ready}

\* A command enters the channel while its task holds the receiving end.
Accepting == channel # 0 /\ task[channel].phase \in Working
Queue(c) == task' = [task EXCEPT ![channel].queue = Append(@, c)]

SubmitOrder(o) ==
  /\ Free /\ mirror[o].status = Absent
  /\ IF Accepting
     THEN /\ mirror' = [mirror EXCEPT ![o] = Announced]
          /\ Queue([verb |-> "submit", order |-> o]) /\ UNCHANGED told
     ELSE /\ mirror' = [mirror EXCEPT ![o] = RejectedHere(Announced)]
          /\ told' = told \cup {o} /\ UNCHANGED task
  /\ UNCHANGED <<generation, channel, issued, venue, spent, history>>

ChangeOrder(verb, o) ==
  /\ Free /\ Accepting /\ mirror[o].status \in Open /\ spent < MaxSpent
  /\ Queue([verb |-> verb, order |-> o])
  /\ spent' = spent + 1
  /\ UNCHANGED <<mirror, told, generation, channel, issued, venue, history>>

Aborted == [g \in Generation |-> [task[g] EXCEPT !.stopping = task[g].phase # "none"]]

Stop ==
  /\ Free /\ generation # 0
  /\ channel' = 0 /\ generation' = 0 /\ task' = Aborted
  /\ UNCHANGED <<mirror, told, issued, venue, spent, history>>

Connect ==
  /\ Free /\ issued < MaxGeneration
  /\ issued' = issued + 1 /\ generation' = issued' /\ channel' = issued'
  /\ task' = [Aborted EXCEPT ![issued'] = [NoTask EXCEPT !.phase = "dialing"]]
  /\ UNCHANGED <<mirror, told, venue, spent, history>>

ConnectDone ==
  /\ ~Free /\ task[channel].phase = "up"
  /\ task' = [task EXCEPT ![channel].ready = TRUE]
  /\ UNCHANGED <<mirror, told, generation, channel, issued, venue, spent, history>>

ConnectFails ==
  /\ ~Free
  /\ task' = Aborted /\ channel' = 0
  /\ UNCHANGED <<mirror, told, generation, issued, venue, spent, history>>
----------------------------------------------------------------------------
(* The connection task of generation g. One told to stop goes on until the *)
(* abort lands (Die).                                                      *)

Dial(g) ==
  /\ task[g].phase = "dialing"
  /\ task' = [task EXCEPT ![g].phase = "up", ![g].up = <<>>]
  /\ UNCHANGED <<mirror, told, generation, channel, issued, venue, spent, history>>

TakeCommand(g) ==
  /\ task[g].phase = "up" /\ task[g].queue # <<>>
  /\ task' = [task EXCEPT ![g].book = Append(@, Head(task[g].queue)), ![g].queue = Tail(@)]
  /\ UNCHANGED <<mirror, told, generation, channel, issued, venue, spent, history>>

WriteFrame(g) ==
  /\ task[g].phase = "up" /\ task[g].book # <<>> /\ ~task[g].sending
  /\ task' = [task EXCEPT ![g].up = Append(@, Head(task[g].book)), ![g].sending = TRUE]
  /\ history' = [history EXCEPT !.written = @ \cup Submits(<<Head(task[g].book)>>)]
  /\ UNCHANGED <<mirror, told, generation, channel, issued, venue, spent>>

\* Slip: the newest receipt is taken for the one that was written.
RetireNewest(g) ==
  /\ task[g].sending
  /\ task' = [task EXCEPT ![g].book = Front(@), ![g].sending = FALSE]
  /\ UNCHANGED <<mirror, told, generation, channel, issued, venue, spent, history>>

Retire(g) ==
  /\ task[g].sending
  /\ task' = [task EXCEPT ![g].book = Tail(@), ![g].sending = FALSE]
  /\ UNCHANGED <<mirror, told, generation, channel, issued, venue, spent, history>>

\* The receipts of the writer's that may be on the wire when the task reports
\* them: the one it was sending.
MidWrite(t) == IF t.sending THEN <<Head(t.book)>> ELSE <<>>

\* The connection is over: writer and reader are joined, the receipts reported
\* and the reorder slot flushed.
Torn(t, phase) ==
  [t EXCEPT !.phase = phase, !.book = <<>>, !.sending = FALSE, !.down = <<>>,
            !.held = <<>>, !.pump = @ \o t.held]
Lost(t, more, guesses) ==
  history' = [history EXCEPT !.lost = @ \cup Orders(t.up) \cup Orders(t.down) \cup Orders(more),
                             !.guessed = @ \cup Submits(guesses)]

Disconnect(g) ==
  LET t == task[g]
  IN /\ t.phase = "up" /\ spent < MaxSpent
     /\ spent' = spent + 1
     /\ Undelivered(t.book, g)
     /\ Lost(t, <<>>, MidWrite(t))
     /\ task' = [task EXCEPT ![g] = Torn(t, "dialing")]
     /\ UNCHANGED <<generation, channel, issued, venue>>

\* Redials are exhausted, or the venue has said that the run is complete or the
\* client evicted: what the queue still holds is reported too, and the pump
\* delivers what it has.
GiveUp(g) ==
  LET t == task[g]
  IN /\ t.phase \in Working
     /\ Undelivered(Owed(t), g)
     /\ Lost(t, <<>>, MidWrite(t))
     /\ task' = [task EXCEPT ![g] = [Torn(t, "ended") EXCEPT !.queue = <<>>]]
     /\ UNCHANGED <<generation, channel, issued, venue, spent>>

\* An abort drops the task wherever it stands, and its drop guard reports. The
\* writer is told to stop and not awaited: it may put the first k of the
\* receipts on the wire all the same. The filter and the pump are discarded.
Die(g) ==
  LET t == task[g]
  IN /\ t.stopping
     /\ Undelivered(Owed(t), g)
     /\ \E k \in Len(MidWrite(t))..Len(t.book) :
          /\ Lost(t, t.held \o t.pump, SubSeq(t.book, 1, k))
          /\ task' = [task EXCEPT ![g] = [NoTask EXCEPT !.phase = "ended", !.ready = t.ready,
                        !.up = t.up \o SubSeq(t.book, Len(MidWrite(t)) + 1, k)]]
     /\ UNCHANGED <<generation, channel, issued, venue, spent>>
----------------------------------------------------------------------------
(* The havoc filter and the latency pump.                                  *)

\* What the filter makes of the frames it lets through, one fault at most.
Tampered(frames) ==
  {<<frames, 0, {}>>}
  \cup {<<RemoveAt(frames, i), 1, {frames[i].order}>> : i \in {j \in DOMAIN frames : "drop" \in Faults}}
  \cup {<<InsertAt(frames, i, frames[i]), 1, {}>> :
          i \in {j \in DOMAIN frames : "duplicate" \in Faults}}

\* A frame behind a held one releases it, after itself.
Receive(g) ==
  LET t == task[g]
      passing == <<Head(t.down)>> \o t.held
  IN /\ t.phase = "up" /\ t.down # <<>>
     /\ \E out \in Tampered(passing) :
          /\ spent' = spent + out[2] /\ spent' <= MaxSpent
          /\ history' = [history EXCEPT !.lost = @ \cup out[3]]
          /\ task' = [task EXCEPT ![g].down = Tail(@), ![g].held = <<>>,
                                  ![g].pump = @ \o out[1]]
     /\ UNCHANGED <<mirror, told, generation, channel, issued, venue>>

Hold(g) ==
  /\ task[g].phase = "up" /\ task[g].down # <<>> /\ task[g].held = <<>>
  /\ "reorder" \in Faults /\ spent < MaxSpent
  /\ spent' = spent + 1
  /\ task' = [task EXCEPT ![g].down = Tail(@), ![g].held = <<Head(task[g].down)>>]
  /\ UNCHANGED <<mirror, told, generation, channel, issued, venue, history>>

\* Slip: only a following frame releases a hold.
FlushBehind(g) ==
  /\ task[g].held # <<>> /\ task[g].down # <<>>
  /\ task' = [task EXCEPT ![g].pump = @ \o task[g].held, ![g].held = <<>>]
  /\ UNCHANGED <<mirror, told, generation, channel, issued, venue, spent, history>>

\* A hold has a deadline.
FlushHeld(g) ==
  /\ task[g].held # <<>>
  /\ task' = [task EXCEPT ![g].pump = @ \o task[g].held, ![g].held = <<>>]
  /\ UNCHANGED <<mirror, told, generation, channel, issued, venue, spent, history>>

Deliver(g) ==
  LET e == Head(task[g].pump)
  IN /\ task[g].pump # <<>> /\ task[g].ready
     /\ task' = [task EXCEPT ![g].pump = Tail(@)]
     /\ mirror' = [mirror EXCEPT ![e.order] = Applied(@, e)]
     /\ told' = IF Speaks(g) /\ Ends(mirror[e.order], e) THEN told \cup {e.order} ELSE told
     /\ UNCHANGED <<generation, channel, issued, venue, spent, history>>
----------------------------------------------------------------------------
(* The venue.                                                              *)

\* It speaks on the socket seated last; with none up, what it says of an order
\* reaches nobody.
Seats == {g \in Generation : task[g].phase = "up"}
Says(tasks, kind, o, filled) ==
  IF Seats = {}
  THEN task' = tasks /\ history' = [history EXCEPT !.lost = @ \cup {o}]
  ELSE /\ task' = [tasks EXCEPT ![Max(Seats)].down =
                      Append(@, [kind |-> kind, order |-> o, filled |-> filled])]
       /\ UNCHANGED history

Live(o) == venue[o].phase \in {"armed", "open"}

VenueHandle(g) ==
  LET c == Head(task[g].up)
      o == c.order
      read == [task EXCEPT ![g].up = Tail(@)]
  IN /\ task[g].up # <<>>
     /\ \/ /\ c.verb = "submit" /\ venue[o].phase = "unknown"
           /\ \/ /\ venue' = [venue EXCEPT ![o].phase = IF o \in Conditional THEN "armed" ELSE "open"]
                 /\ Says(read, "accepted", o, 0)
              \/ /\ venue' = [venue EXCEPT ![o].phase = "closed"]
                 /\ Says(read, "rejected", o, 0)
        \/ /\ c.verb = "cancel" /\ Live(o)
           /\ venue' = [venue EXCEPT ![o].phase = "closed"]
           /\ Says(read, "canceled", o, venue[o].filled)
        \/ /\ c.verb = "modify" /\ Live(o)
           /\ Says(read, "updated", o, venue[o].filled) /\ UNCHANGED venue
        \/ /\ c.verb # "submit" /\ ~Live(o)
           /\ task' = read /\ UNCHANGED <<venue, history>>
     /\ UNCHANGED <<mirror, told, generation, channel, issued, spent>>

VenueTriggers(o) ==
  /\ venue[o].phase = "armed"
  /\ venue' = [venue EXCEPT ![o].phase = "open"]
  /\ Says(task, "triggered", o, 0)
  /\ UNCHANGED <<mirror, told, generation, channel, issued, spent>>

VenueFill(o) ==
  LET filled == venue[o].filled + 1
  IN /\ venue[o].phase = "open"
     /\ venue' = [venue EXCEPT ![o] = [filled |-> filled,
                     phase |-> IF filled = Quantity THEN "closed" ELSE "open"]]
     /\ Says(task, "filled", o, filled)
     /\ UNCHANGED <<mirror, told, generation, channel, issued, spent>>
----------------------------------------------------------------------------
Host ==
  \/ \E o \in Order : SubmitOrder(o)
  \/ \E o \in Order, verb \in {"cancel", "modify"} : ChangeOrder(verb, o)
  \/ Stop \/ Connect \/ ConnectDone \/ ConnectFails

Connection(g) ==
  Dial(g) \/ TakeCommand(g) \/ WriteFrame(g) \/ Retire(g) \/ Disconnect(g) \/ GiveUp(g) \/ Die(g)

Inbound(g) == Receive(g) \/ Hold(g) \/ FlushHeld(g) \/ Deliver(g)

Venue == \E o \in Order : VenueTriggers(o) \/ VenueFill(o)

Next == \/ Host \/ Venue
        \/ \E g \in Generation : Connection(g) \/ Inbound(g) \/ VenueHandle(g)

\* The tasks of a generation run, a venue that is there answers what it reads,
\* and a connect ends: each of these groups takes some step while it can, which
\* is less than the runtime gives every task of it. The host owes nothing.
Progress(g) ==
  Dial(g) \/ TakeCommand(g) \/ WriteFrame(g) \/ Retire(g) \/ Die(g)
  \/ Receive(g) \/ FlushHeld(g) \/ Deliver(g) \/ VenueHandle(g)

Fairness ==
  /\ WF_vars(ConnectDone \/ ConnectFails)
  /\ \A g \in Generation : WF_vars(Progress(g))

Spec == Init /\ [][Next]_vars /\ Fairness
----------------------------------------------------------------------------
(* Properties.                                                             *)

\* An order the mirror has as submitted was written to the venue, or is still
\* a command some task owes a write or a report of: no disconnect, exhausted
\* redial, stop or second connect makes a submit vanish (lifecycle.rs 431-448).
NothingVanishes ==
  \A o \in Order : mirror[o].status = "submitted" =>
    \/ o \in history.written
    \/ \E g \in Generation : o \in Submits(Owed(task[g]))

\* An order the mirror has as closed is closed at the venue, but for a submit
\* that was reported undelivered while its frame may have been on the wire, and
\* one that never got there (exec.rs RejectOrigin); the host was told so, unless
\* a stop or a second connect withdrew the generation that would have; and no
\* late, duplicated or reordered frame reopens it or closes it a second way.
Honest(o) == \/ venue[o].phase = "closed"
             \/ o \in history.guessed
             \/ venue[o].phase = "unknown" /\ o \notin history.written
HostTold(o) == o \in told \/ generation = 0 \/ issued > 1
EndsHold ==
  [][\A o \in Order :
       /\ IsClosed(mirror'[o]) => Honest(o)' /\ HostTold(o)'
       /\ IsClosed(mirror[o]) => mirror'[o].status = mirror[o].status]_vars

\* An order does not stay submitted unless a frame about it was lost: every
\* submit is answered by the venue or reported undelivered.
Answered ==
  \A o \in Order : mirror[o].status = "submitted" ~>
                   (mirror[o].status # "submitted" \/ o \in history.lost)

=============================================================================
