------------------------------ MODULE Outbound ------------------------------
(***************************************************************************)
(* One connection's commands and what it is told (mogwai-venue ws.rs       *)
(* handle_socket and its tasks, admission.rs).  The read loop queues       *)
(* commands, the dispatcher decides them one at a time and publishes to    *)
(* the held lane, the sweeper publishes beside it; the pump moves the held *)
(* lane into a bounded channel the heartbeat and the closing read loop     *)
(* also send on; the writer prefers the priority lane.  Nothing but the    *)
(* bounded channel and the peer makes anybody wait: what cannot be         *)
(* reserved is refused.                                                    *)
(*                                                                         *)
(* A held frame costs one unit of the byte budget.  Ack delays, withheld   *)
(* frames and the market frames of the writer (Feed) are left out; the     *)
(* synthesis slots of history pages are granted or not (http.rs).          *)
(***************************************************************************)
EXTENDS Integers, SequencesExt

CONSTANTS
  MaxCommands, \* bound on the frames the peer sends
  MaxInputs,   \* bound on those frames and the sweeper's batches together
  Slots,       \* GLOBAL_PENDING_COMMAND_SLOTS; other connections' use of them is
               \* in Read's choice to turn a command away
  QueueRoom,   \* pending_command_acts
  Budget,      \* held_budget_bytes, in frames
  Worst,       \* the frames a command or a batch is reserved for
  Lane,        \* lane_frames
  Room         \* the capacity of the out channel

ASSUME OutboundAssumption ==
  /\ MaxCommands \in Nat /\ MaxInputs \in Nat /\ Slots \in Nat
  /\ QueueRoom \in Nat \ {0} /\ Budget \in Nat /\ Worst \in Nat \ {0}
  /\ Lane \in Nat /\ Room \in Nat \ {0}

VARIABLES
  fate,     \* what became of each command
  heard,    \* the commands whose outcome was written
  queue,    \* the commands the dispatcher has yet to take
  slots,    \* the free command slots
  worker,   \* the dispatcher
  page,     \* the history page in flight
  walked,   \* the pages to be sent
  sweep,    \* the sweeper's delivery to this connection
  sweeps,   \* batches delivered
  bytes,    \* the free byte budget
  tickets,  \* the free slots of the priority lane
  held, pump, out, prio, writer,   \* the lanes and who empties them
  loop,     \* the read loop
  notified, \* whether it was told that the connection is displaced
  peer

commands == <<fate, queue, slots, worker, page, walked>>
delivery == <<sweep, sweeps>>
lanes == <<held, pump, out, prio, writer>>
vars == <<commands, delivery, lanes, heard, bytes, tickets, loop, notified, peer>>

Commands == 1..MaxCommands
Fates == {"unread", "queued", "deciding", "acted", "refused", "turned",
          "dropped", "paging", "paged"}

Frame == [kind : {"answer", "swept", "refusal", "page", "beat", "final", "close"},
          cmd : 0..MaxCommands]
NoFrame == [kind |-> "none", cmd |-> 0]
Plain(kind) == [kind |-> kind, cmd |-> 0]

Worker == [step : {"idle", "deciding", "publishing", "ended"},
           cmd : 0..MaxCommands, reserved : 0..Worst, frames : 0..Worst]
Free == [step |-> "idle", cmd |-> 0, reserved |-> 0, frames |-> 0]
Page == [step : {"none", "waiting", "walking"}, cmd : 0..MaxCommands]
NoPage == [step |-> "none", cmd |-> 0]
Carrier == [step : {"idle", "carrying", "ended"}, frame : Frame \cup {NoFrame}]
Empty == [step |-> "idle", frame |-> NoFrame]
Ended == [step |-> "ended", frame |-> NoFrame]

TypeOK == /\ fate \in [Commands -> Fates] /\ heard \subseteq Commands
          /\ walked \subseteq Commands
          /\ queue \in Seq(Commands) /\ Len(queue) <= QueueRoom
          /\ worker \in Worker /\ page \in Page
          /\ sweep \in [reserved : 0..Worst, frames : 0..Worst]
          /\ bytes \in 0..Budget /\ tickets \in 0..Lane /\ slots \in 0..Slots
          /\ held \in Seq(Frame) /\ prio \in Seq(Frame)
          /\ out \in Seq(Frame) /\ Len(out) <= Room
          /\ pump \in Carrier /\ writer \in Carrier
          /\ loop \in {"reading", "announcing", "closing", "leaving", "gone"}
          /\ notified \in BOOLEAN /\ peer \in {"reading", "stopped", "gone"}
          /\ sweeps \in 0..MaxInputs

Init == /\ fate = [c \in Commands |-> "unread"] /\ heard = {}
        /\ queue = <<>> /\ slots = Slots /\ worker = Free
        /\ page = NoPage /\ walked = {}
        /\ sweep = [reserved |-> 0, frames |-> 0] /\ sweeps = 0
        /\ bytes = Budget /\ tickets = Lane
        /\ held = <<>> /\ out = <<>> /\ prio = <<>>
        /\ pump = Empty /\ writer = Empty
        /\ loop = "reading" /\ notified = FALSE /\ peer = "reading"
----------------------------------------------------------------------------
(* Permits.  A frame carries its charge and its ticket, and gives them     *)
(* back where it is dropped.                                               *)

Charged == {"answer", "swept"}
Ticketed == {"refusal", "page"}
Count(frames, kinds) == Cardinality({i \in DOMAIN frames : frames[i].kind \in kinds})
Charges(frames) == Count(frames, Charged)
Tickets(frames) == Count(frames, Ticketed)

Listening == writer.step # "ended"

\* Slip: one place is kept free.
HasSpare == Len(out) + 1 < Room

HasRoom == Len(out) < Room

\* emit_admission and emit_history: the ticket is dropped with a frame nobody
\* listens for.
Emit(frame) == IF Listening
               THEN prio' = Append(prio, frame) /\ tickets' = tickets - 1
               ELSE UNCHANGED <<prio, tickets>>

\* send_admission as its callers use it: without a ticket its result, a close,
\* is dropped.
Turn(c) == /\ fate' = [fate EXCEPT ![c] = "turned"]
           /\ IF tickets > 0 THEN Emit([kind |-> "refusal", cmd |-> c])
              ELSE UNCHANGED <<prio, tickets>>

\* Slip: the rest of the reservation is kept.
SubmitWhole(frame, reserved, frames) ==
  /\ held' = IF pump.step = "ended" THEN held ELSE held \o [i \in 1..frames |-> frame]
  /\ bytes' = bytes

\* Slip: the newest batch first.
SubmitAhead(frame, reserved, frames) ==
  IF pump.step = "ended"
  THEN held' = held /\ bytes' = bytes + reserved
  ELSE /\ held' = [i \in 1..frames |-> frame] \o held
       /\ bytes' = bytes + reserved - frames

\* submit_produced: a frame per event on the held lane, the rest of the
\* reservation given back; all of it when the pump is gone.
Submit(frame, reserved, frames) ==
  IF pump.step = "ended"
  THEN held' = held /\ bytes' = bytes + reserved
  ELSE /\ held' = held \o [i \in 1..frames |-> frame]
       /\ bytes' = bytes + reserved - frames
----------------------------------------------------------------------------
(* The read loop.                                                          *)

More == sweeps + Cardinality({c \in Commands : fate[c] # "unread"}) < MaxInputs

\* Of the commands in the order the peer sends them, the first not read.
NextUnread(c) == fate[c] = "unread" /\ More /\ \A d \in 1..(c - 1) : fate[d] # "unread"

\* A command that finds no slot or no place in the queue, or a frame that is no
\* command.
TurnUnread(c) == Turn(c) /\ UNCHANGED <<queue, slots>>

Enqueue(c) == /\ slots > 0 /\ Len(queue) < QueueRoom
              /\ queue' = Append(queue, c) /\ slots' = slots - 1
              /\ fate' = [fate EXCEPT ![c] = "queued"]
              /\ UNCHANGED <<prio, tickets>>

Read(c) == /\ loop = "reading" /\ peer # "gone" /\ NextUnread(c)
           /\ Enqueue(c) \/ TurnUnread(c)
           /\ UNCHANGED <<worker, page, walked, delivery, held, pump, out, writer,
                          heard, bytes, loop, notified, peer>>

\* The passenger's duration or the run is over: two sends, each waiting for room
\* unless nobody listens, and the loop is not polled between them.
Timer == /\ loop = "reading" /\ loop' = "announcing"
         /\ UNCHANGED <<commands, delivery, lanes, heard, bytes, tickets, notified, peer>>

Send(frame, next) == /\ \/ Listening /\ HasRoom /\ out' = Append(out, frame)
                        \/ ~Listening /\ out' = out
                     /\ loop' = next
                     /\ UNCHANGED <<commands, delivery, held, pump, prio, writer, heard,
                                    bytes, tickets, notified, peer>>
Announce == loop = "announcing" /\ Send(Plain("final"), "closing")
Close == loop = "closing" /\ Send(Plain("close"), "leaving")

\* Another admission displaces the connection: send_close queues the close,
\* which needs no ticket, and stores the notification.
Evict == /\ loop # "gone" /\ ~notified /\ notified' = TRUE
         /\ prio' = IF Listening THEN Append(prio, Plain("close")) ELSE prio
         /\ UNCHANGED <<commands, delivery, held, pump, out, writer, heard, bytes, tickets,
                        loop, peer>>

Leave == /\ loop = "reading" /\ (notified \/ peer = "gone") /\ loop' = "leaving"
         /\ UNCHANGED <<commands, delivery, lanes, heard, bytes, tickets, notified, peer>>

\* What is in the writer's hand and in its lanes is dropped with it.
DropLanes(more) ==
  LET dropped == prio \o out \o <<writer.frame>> \o more
  IN /\ writer' = Ended /\ prio' = <<>> /\ out' = <<>>
     /\ bytes' = bytes + Charges(dropped) /\ tickets' = tickets + Tickets(dropped)

\* Slip: whoever leaves waits for its writer.
Flushed == writer.step = "ended"

\* CLOSE_GRACE.
Grace == TRUE
Depart == /\ loop = "leaving" /\ Grace /\ loop' = "gone"
          /\ IF Listening THEN DropLanes(<<>>)
             ELSE UNCHANGED <<writer, prio, out, bytes, tickets>>
          /\ UNCHANGED <<commands, delivery, held, pump, heard, notified, peer>>

\* The peer stops reading, or hangs up.
Stop == /\ peer = "reading" /\ peer' = "stopped"
        /\ UNCHANGED <<commands, delivery, lanes, heard, bytes, tickets, loop, notified>>
HangUp == /\ peer # "gone" /\ peer' = "gone"
          /\ UNCHANGED <<commands, delivery, lanes, heard, bytes, tickets, loop, notified>>
----------------------------------------------------------------------------
(* The dispatcher.                                                         *)

Take == /\ worker.step = "idle" /\ queue # <<>>
        /\ worker' = [Free EXCEPT !.step = "deciding", !.cmd = Head(queue)]
        /\ queue' = Tail(queue)
        /\ fate' = [fate EXCEPT ![Head(queue)] = "deciding"]
        /\ UNCHANGED <<slots, page, walked, delivery, lanes, heard, bytes, tickets,
                       loop, notified, peer>>

\* A history request goes to a task of its own, unless one is in flight.
Spawn == /\ worker.step = "deciding"
         /\ IF page.step = "none"
            THEN /\ page' = [step |-> "waiting", cmd |-> worker.cmd]
                 /\ fate' = [fate EXCEPT ![worker.cmd] = "paging"]
                 /\ UNCHANGED <<prio, tickets>>
            ELSE Turn(worker.cmd) /\ page' = page
         /\ worker' = Free /\ slots' = slots + 1
         /\ UNCHANGED <<queue, walked, delivery, held, pump, out, writer, heard,
                        bytes, loop, notified, peer>>

\* A diagnostic, or a reservation that is not granted.
Decline == /\ worker.step = "deciding" /\ Turn(worker.cmd)
           /\ worker' = Free /\ slots' = slots + 1
           /\ UNCHANGED <<queue, page, walked, delivery, held, pump, out, writer,
                          heard, bytes, loop, notified, peer>>

\* The boundary refuses the command on the held lane, or the engine acts on it,
\* once its worst case is reserved.
Reserve(fateOf, n, frames) ==
  /\ worker.step = "deciding" /\ bytes >= n
  /\ bytes' = bytes - n
  /\ fate' = [fate EXCEPT ![worker.cmd] = fateOf]
  /\ worker' = [worker EXCEPT !.step = "publishing", !.reserved = n, !.frames = frames]
  /\ UNCHANGED <<queue, slots, page, walked, delivery, lanes, heard, tickets, loop,
                 notified, peer>>
Refuse == Reserve("refused", 1, 1)
Act == \E frames \in 1..Worst : Reserve("acted", Worst, frames)

\* Slip: the dispatcher waits for the out channel.
PublishInTurn == HasRoom

CanPublish == TRUE
Publish == /\ worker.step = "publishing" /\ CanPublish
           /\ Submit([kind |-> "answer", cmd |-> worker.cmd], worker.reserved, worker.frames)
           /\ worker' = Free /\ slots' = slots + 1
           /\ UNCHANGED <<fate, queue, page, walked, delivery, pump, out, prio,
                          writer, heard, tickets, loop, notified, peer>>

\* Aborted, at an await: between decision and publication there is none.
AbortWorker ==
  LET dropped == ToSet(queue) \cup (IF worker.step = "deciding" THEN {worker.cmd} ELSE {})
  IN /\ loop \in {"leaving", "gone"} /\ worker.step \in {"idle", "deciding"}
     /\ worker' = [Free EXCEPT !.step = "ended"] /\ queue' = <<>>
     /\ slots' = slots + Cardinality(dropped)
     /\ fate' = [c \in Commands |-> IF c \in dropped THEN "dropped" ELSE fate[c]]
     /\ UNCHANGED <<page, walked, delivery, lanes, heard, bytes, tickets, loop,
                    notified, peer>>
----------------------------------------------------------------------------
(* History pages.  The task outlives the connection.                       *)

\* A synthesis slot is granted, or the wait for one expires.
Slot == /\ page.step = "waiting"
        /\ \/ /\ page' = [page EXCEPT !.step = "walking"]
              /\ UNCHANGED <<fate, prio, tickets>>
           \/ page' = NoPage /\ Turn(page.cmd)
        /\ UNCHANGED <<queue, slots, worker, walked, delivery, held, pump, out,
                       writer, heard, bytes, loop, notified, peer>>

\* The connection's permit ends with the walk, before its page is sent.
Walk == /\ page.step = "walking" /\ page' = NoPage
        /\ walked' = walked \cup {page.cmd}
        /\ UNCHANGED <<fate, queue, slots, worker, delivery, lanes, heard, bytes,
                       tickets, loop, notified, peer>>

Finish(c) == /\ c \in walked /\ walked' = walked \ {c}
             /\ \/ Turn(c)
                \/ /\ tickets > 0 /\ fate' = [fate EXCEPT ![c] = "paged"]
                   /\ Emit([kind |-> "page", cmd |-> c])
             /\ UNCHANGED <<queue, slots, worker, page, delivery, held, pump, out,
                            writer, heard, bytes, loop, notified, peer>>
----------------------------------------------------------------------------
(* The sweeper, the pump, the heartbeat and the writer.                    *)

\* A batch is reserved for while the connection is on record, and refused
\* without a word when there is no ticket either.
Sweep == /\ More /\ sweep.reserved = 0 /\ loop \notin {"leaving", "gone"}
         /\ IF bytes >= Worst
            THEN /\ bytes' = bytes - Worst
                 /\ \E n \in 1..Worst : sweep' = [reserved |-> Worst, frames |-> n]
                 /\ UNCHANGED <<prio, tickets>>
            ELSE /\ IF tickets > 0 THEN Emit(Plain("refusal")) ELSE UNCHANGED <<prio, tickets>>
                 /\ UNCHANGED <<bytes, sweep>>
         /\ sweeps' = sweeps + 1
         /\ UNCHANGED <<commands, held, pump, out, writer, heard, loop, notified, peer>>

Deliver == /\ sweep.reserved > 0
           /\ Submit(Plain("swept"), sweep.reserved, sweep.frames)
           /\ sweep' = [reserved |-> 0, frames |-> 0]
           /\ UNCHANGED <<commands, sweeps, pump, out, prio, writer, heard, tickets, loop,
                          notified, peer>>

PumpTake == /\ pump.step = "idle" /\ held # <<>>
            /\ pump' = [step |-> "carrying", frame |-> Head(held)] /\ held' = Tail(held)
            /\ UNCHANGED <<commands, delivery, out, prio, writer, heard, bytes, tickets,
                           loop, notified, peer>>

PumpSend == /\ pump.step = "carrying" /\ Listening /\ HasRoom
            /\ out' = Append(out, pump.frame) /\ pump' = Empty
            /\ UNCHANGED <<commands, delivery, held, prio, writer, heard, bytes, tickets,
                           loop, notified, peer>>

\* Nobody listens, or it is aborted: what it holds is dropped.
PumpEnd == /\ \/ pump.step = "carrying" /\ ~Listening
              \/ pump.step # "ended" /\ loop \in {"leaving", "gone"}
           /\ pump' = Ended /\ held' = <<>>
           /\ bytes' = bytes + Charges(Append(held, pump.frame))
           /\ UNCHANGED <<commands, delivery, out, prio, writer, heard, tickets, loop,
                          notified, peer>>

Beat == /\ loop \notin {"leaving", "gone"} /\ Listening /\ HasRoom
        /\ out' = Append(out, Plain("beat"))
        /\ UNCHANGED <<commands, delivery, held, pump, prio, writer, heard, bytes, tickets,
                       loop, notified, peer>>

\* The priority lane first.
WriterTake == /\ writer.step = "idle"
              /\ \/ /\ prio # <<>>
                    /\ writer' = [step |-> "carrying", frame |-> Head(prio)]
                    /\ prio' = Tail(prio) /\ out' = out
                 \/ /\ prio = <<>> /\ out # <<>>
                    /\ writer' = [step |-> "carrying", frame |-> Head(out)]
                    /\ out' = Tail(out) /\ prio' = prio
              /\ UNCHANGED <<commands, delivery, held, pump, heard, bytes, tickets, loop,
                             notified, peer>>

\* A close it has written is its last frame.
Write ==
  LET f == writer.frame
  IN /\ writer.step = "carrying" /\ peer = "reading"
     /\ heard' = heard \cup {c \in {f.cmd} : f.kind = "answer"}
     /\ IF f.kind = "close" THEN DropLanes(<<>>)
        ELSE /\ writer' = Empty /\ UNCHANGED <<prio, out>>
             /\ bytes' = bytes + Charges(<<f>>) /\ tickets' = tickets + Tickets(<<f>>)
     /\ UNCHANGED <<commands, delivery, held, pump, loop, notified, peer>>

\* The sink is gone, or every sender is.
WriterEnd == /\ \/ writer.step = "carrying" /\ peer = "gone"
                \/ /\ writer.step = "idle" /\ prio = <<>> /\ out = <<>>
                   /\ loop = "leaving" /\ worker.step = "ended" /\ pump.step = "ended"
                   /\ sweep.reserved = 0 /\ page.step = "none" /\ walked = {}
             /\ DropLanes(<<>>)
             /\ UNCHANGED <<commands, delivery, held, pump, heard, loop, notified, peer>>
----------------------------------------------------------------------------
Dispatcher == Take \/ Spawn \/ Decline \/ Refuse \/ Act \/ Publish \/ AbortWorker
Pages == Slot \/ Walk \/ \E c \in Commands : Finish(c)
Pump == PumpTake \/ PumpSend \/ PumpEnd
Writer == WriterTake \/ Write \/ WriterEnd
Loop == Announce \/ Close \/ Leave \/ Depart

Next == \/ \E c \in Commands : Read(c)
        \/ Timer \/ Evict \/ Stop \/ HangUp \/ Sweep \/ Deliver \/ Beat
        \/ Dispatcher \/ Pages \/ Pump \/ Writer \/ Loop

\* Every task of the venue that can go on does.  Those that wait for room are
\* served in the order they came (tokio's channel), hence the strong fairness.
Fairness == /\ WF_vars(Dispatcher) /\ WF_vars(Pages) /\ WF_vars(Writer)
            /\ SF_vars(Pump) /\ SF_vars(Loop) /\ WF_vars(Deliver)

Spec == Init /\ [][Next]_vars /\ Fairness
----------------------------------------------------------------------------
(* Properties.                                                             *)

\* The way to the writer, and the places of the answers on it.
Way == <<writer.frame>> \o out \o <<pump.frame>> \o held
InFlight == {i \in DOMAIN Way : Way[i].kind = "answer"}

\* No path of a frame, a reservation or a queued command, teardown and aborts
\* included, loses a permit or returns one twice (admission.rs:166-306,
\* ws.rs:673-680).
PermitsConserved ==
  /\ bytes + worker.reserved + sweep.reserved
       + Charges(held \o out \o <<pump.frame, writer.frame>>) = Budget
  /\ tickets + Tickets(prio \o <<writer.frame>>) = Lane
  /\ slots + Len(queue)
       + (IF worker.step \in {"deciding", "publishing"} THEN 1 ELSE 0) = Slots

\* What the held lane says of the peer's commands it says in the order they were
\* sent, so that a cancel never overtakes the submit it cancels; a refusal that
\* may be retried is of a command nothing was done about; and what the engine did
\* is on its way or heard, unless the connection is over (ws.rs:706-716,
\* admission.rs:20-22, http.rs:807-820).
InOrder == /\ \A i, j \in InFlight : i < j => Way[i].cmd <= Way[j].cmd
           /\ \A i \in InFlight : \A c \in heard : c <= Way[i].cmd
RetryIsSafe == \A f \in ToSet(prio) \cup {writer.frame} :
  f.kind = "refusal" /\ f.cmd # 0 => fate[f.cmd] = "turned"
ActedIsAnswered == \A c \in Commands :
  fate[c] = "acted" /\ Listening /\ loop \notin {"leaving", "gone"} =>
    \/ c \in heard \/ worker.cmd = c
    \/ \E i \in InFlight : Way[i].cmd = c
AnswersSound == InOrder /\ RetryIsSafe /\ ActedIsAnswered

\* Commands that were read are decided and their dispatcher is free again,
\* whatever their peer reads: nobody who decides waits for a lane
\* (admission.rs:20-24).  Commands are bounded, so that "again and again none is
\* pending" says this of each.
Pending(c) == fate[c] \in {"queued", "deciding"} \/ worker.cmd = c
CommandsDecided == []<>(\A c \in Commands : ~Pending(c))

\* A connection that is displaced, or whose ride is over, is freed whatever its
\* peer does, unless it is announcing its own end to a peer that stopped reading
\* (admission.rs:113-118, 427-441, ws.rs:1610-1660).
Departs == notified \/ loop \notin {"reading", "gone"}
             ~> loop = "gone" \/ (peer = "stopped" /\ loop \in {"announcing", "closing"})

\* Answers are heard, unless their peer or the connection goes.
Awaited == {c \in Commands : fate[c] \in {"acted", "refused"}} \ heard
AnswersArrive == Awaited # {} ~> Awaited = {} \/ peer # "reading" \/ loop # "reading"
=============================================================================
