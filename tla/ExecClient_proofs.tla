-------------------------- MODULE ExecClient_proofs --------------------------
(* No submit vanishes and no end is made up, for any orders, faults,        *)
(* generations and losses.                                                  *)
EXTENDS ExecClient, SequenceTheorems, TLAPS

(* The inductive invariant.                                                *)

\* Command i of these submits o; command i of those task g owes a write or a
\* report of does.
IsSubmit(cmds, i, o) == i \in DOMAIN cmds /\ cmds[i].verb = "submit" /\ cmds[i].order = o
Owes(g, i, o) == IsSubmit(Owed(task[g]), i, o)
Sent == history.written \cup history.guessed

\* A submit is owed once.
Sole == \A g, h \in Generation, i, j \in Nat, o \in Order :
          Owes(g, i, o) /\ Owes(h, j, o) => g = h /\ i = j

\* One that is owed is on the wire, or its order is new to everybody.
Waits == \A g \in Generation, i \in Nat, o \in Order : Owes(g, i, o) =>
           IF task[g].sending /\ i = 1 THEN o \in history.written
           ELSE mirror[o].status = "submitted" /\ o \notin Sent

\* The venue knows the orders that may have been written to it, and the host
\* announced them.
Wired == \A g \in Generation : Submits(task[g].up) \subseteq Sent
Known == \A o \in Order : /\ o \in Sent => mirror[o].status # Absent
                          /\ venue[o].phase # "unknown" => o \in Sent
                          /\ venue[o].phase # "closed" => venue[o].filled < Quantity

\* A frame says what happened at the venue.
Founded(e) ==
  /\ venue[e.order].phase # "unknown"
  /\ (e.kind \in {"canceled", "rejected"} \/ e.filled = Quantity) => venue[e.order].phase = "closed"
  /\ e.kind = "filled" => e.filled > 0
  /\ e.kind = "updated" => e.filled < Quantity
AllFounded(frames) == \A i \in DOMAIN frames : Founded(frames[i])
Frames == \A g \in Generation :
            AllFounded(task[g].down) /\ AllFounded(task[g].held) /\ AllFounded(task[g].pump)

\* A generation that was not issued has no task.
Unissued == \A g \in Generation : g > issued =>
              /\ task[g].phase = "none" /\ ~task[g].stopping /\ ~task[g].sending
              /\ task[g].queue = <<>> /\ task[g].book = <<>>
              /\ task[g].held = <<>> /\ task[g].pump = <<>>

\* Closed orders are closed for a reason the host was told or cannot be.
Withdrawn == issued > 1 \/ (issued = 1 /\ generation = 0)
Ended == \A o \in Order : IsClosed(mirror[o]) => Honest(o) /\ (o \in told \/ Withdrawn)

CInv == /\ TypeOK /\ Sole /\ Waits /\ Wired /\ Known /\ Frames /\ Unissued /\ Ended
        /\ NothingVanishes
----------------------------------------------------------------------------
(* What each step makes of the tasks.                                      *)

\* A task's lanes.
LEMMA Lanes ==
  ASSUME TypeOK, NEW g \in Generation
  PROVE  /\ task[g] \in Task
         /\ task[g].queue \in Seq(Command) /\ task[g].book \in Seq(Command)
         /\ task[g].up \in Seq(Command) /\ task[g].down \in Seq(Event)
         /\ task[g].held \in Seq(Event) /\ task[g].pump \in Seq(Event)
         /\ task[g].sending \in BOOLEAN
BY DEF TypeOK, Task

\* A task put in another's place.
Becomes(g, s) == /\ task' \in [Generation -> Task] /\ task'[g] = s
                 /\ \A h \in Generation \ {g} : task'[h] = task[h]

LEMMA Placed ==
  ASSUME TypeOK, NEW g \in Generation, NEW s \in Task, task' = [task EXCEPT ![g] = s]
  PROVE  Becomes(g, s)
BY DEF TypeOK, Becomes

LEMMA NoTaskIsTask == NoTask \in Task
BY EmptySeq DEF NoTask, Task, Working

\* A sequence and what is cut out of it or put into it.
LEMMA CutSeq ==
  ASSUME NEW S, NEW s \in Seq(S), NEW m \in Int, NEW n \in Int, 1 <= m, n <= Len(s)
  PROVE  SubSeq(s, m, n) \in Seq(S)
<1>1. \A i \in m..n : i \in 1..Len(s)
  OBVIOUS
<1>2. \A i \in m..n : s[i] \in S
  BY <1>1, ElementOfSeq
<1> QED
  BY <1>2, SubSeqProperties

LEMMA OneSeq == ASSUME NEW S, NEW e \in S PROVE <<e>> \in Seq(S)
OBVIOUS

LEMMA TamperedSeq ==
  ASSUME NEW S, NEW s \in Seq(S), NEW out \in Tampered(s)
  PROVE  out[1] \in Seq(S)
<1>1. DOMAIN s = 1..Len(s) /\ Len(s) \in Nat
  BY LenProperties
<1>2. CASE out = <<s, 0, {}>>
  BY <1>2
<1>3. CASE \E i \in DOMAIN s : out = <<RemoveAt(s, i), 1, {s[i].order}>>
  <2>1. PICK i \in 1..Len(s) : out[1] = RemoveAt(s, i)
    BY <1>1, <1>3
  <2>2. SubSeq(s, 1, i-1) \in Seq(S) /\ SubSeq(s, i+1, Len(s)) \in Seq(S)
    BY <1>1, CutSeq
  <2> QED
    BY <2>1, <2>2, ConcatProperties DEF RemoveAt
<1>4. CASE \E i \in DOMAIN s : out = <<InsertAt(s, i, s[i]), 1, {}>>
  <2>1. PICK i \in 1..Len(s) : out[1] = InsertAt(s, i, s[i])
    BY <1>1, <1>4
  <2>2. SubSeq(s, 1, i-1) \in Seq(S) /\ SubSeq(s, i, Len(s)) \in Seq(S) /\ <<s[i]>> \in Seq(S)
    BY <1>1, CutSeq, ElementOfSeq, OneSeq
  <2>3. SubSeq(s, 1, i-1) \o <<s[i]>> \in Seq(S)
    BY <2>2, ConcatProperties
  <2> QED
    BY <2>1, <2>2, <2>3, ConcatProperties DEF InsertAt
<1> QED
  BY <1>2, <1>3, <1>4 DEF Tampered

LEMMA QueueFields ==
  ASSUME TypeOK, channel \in Generation, NEW c \in Command, Queue(c)
  PROVE  Becomes(channel, [task[channel] EXCEPT !.queue = Append(@, c)])
<1> DEFINE s == [task[channel] EXCEPT !.queue = Append(@, c)]
<1>1. Append(task[channel].queue, c) \in Seq(Command)
  BY Lanes, AppendProperties
<1>2. s \in Task
  BY <1>1, Lanes DEF Task
<1>3. task' = [task EXCEPT ![channel] = s]
  BY DEF Queue, TypeOK
<1> QED
  BY <1>2, <1>3, Placed

LEMMA AbortedFields ==
  ASSUME TypeOK
  PROVE  /\ Aborted \in [Generation -> Task]
         /\ \A g \in Generation : /\ Aborted[g] = [task[g] EXCEPT !.stopping = (task[g].phase # "none")]
                                  /\ Aborted[g] \in Task
BY Lanes DEF Aborted, Task

LEMMA DialFields ==
  ASSUME TypeOK, NEW g \in Generation, Dial(g)
  PROVE  Becomes(g, [task[g] EXCEPT !.phase = "up", !.up = <<>>])
<1>1. task[g] \in Task
  BY DEF TypeOK
<1>2. [task[g] EXCEPT !.phase = "up", !.up = <<>>] \in Task
  BY <1>1, EmptySeq DEF Task, Working
<1>3. task' = [task EXCEPT ![g] = [task[g] EXCEPT !.phase = "up", !.up = <<>>]]
  BY <1>1 DEF Dial, TypeOK
<1> QED
  BY <1>2, <1>3, Placed

LEMMA TakeFields ==
  ASSUME TypeOK, NEW g \in Generation, TakeCommand(g)
  PROVE  Becomes(g, [task[g] EXCEPT !.book = Append(@, Head(task[g].queue)), !.queue = Tail(@)])
<1> DEFINE s == [task[g] EXCEPT !.book = Append(@, Head(task[g].queue)), !.queue = Tail(@)]
<1>1. task[g] \in Task /\ task[g].queue \in Seq(Command) /\ task[g].book \in Seq(Command)
  BY Lanes
<1>2. task[g].queue # <<>>
  BY DEF TakeCommand
<1>3. Append(task[g].book, Head(task[g].queue)) \in Seq(Command) /\ Tail(task[g].queue) \in Seq(Command)
  BY <1>1, <1>2, HeadTailProperties, AppendProperties
<1>4. s \in Task
  BY <1>1, <1>3 DEF Task
<1>5. task' = [task EXCEPT ![g] = s]
  BY <1>1 DEF TakeCommand, TypeOK
<1> QED
  BY <1>4, <1>5, Placed

LEMMA WriteFields ==
  ASSUME TypeOK, NEW g \in Generation, WriteFrame(g)
  PROVE  Becomes(g, [task[g] EXCEPT !.up = Append(@, Head(task[g].book)), !.sending = TRUE])
<1> DEFINE s == [task[g] EXCEPT !.up = Append(@, Head(task[g].book)), !.sending = TRUE]
<1>1. /\ task[g] \in Task /\ task[g].up \in Seq(Command) /\ task[g].book \in Seq(Command)
      /\ task[g].book # <<>>
  BY Lanes DEF WriteFrame
<1>2. Append(task[g].up, Head(task[g].book)) \in Seq(Command)
  BY <1>1, HeadTailProperties, AppendProperties
<1>3. s \in Task
  BY <1>1, <1>2 DEF Task
<1>4. task' = [task EXCEPT ![g] = s]
  BY <1>1 DEF WriteFrame, TypeOK
<1> QED
  BY <1>3, <1>4, Placed

LEMMA RetireFields ==
  ASSUME TypeOK, NEW g \in Generation, Retire(g)
  PROVE  Becomes(g, [task[g] EXCEPT !.book = Tail(@), !.sending = FALSE])
<1> DEFINE s == [task[g] EXCEPT !.book = Tail(@), !.sending = FALSE]
<1>1. task[g] \in Task /\ task[g].book \in Seq(Command) /\ task[g].book # <<>>
  BY Lanes DEF Retire, TypeOK
<1>2. Tail(task[g].book) \in Seq(Command)
  BY <1>1, HeadTailProperties
<1>3. s \in Task
  BY <1>1, <1>2 DEF Task
<1>4. task' = [task EXCEPT ![g] = s]
  BY <1>1 DEF Retire, TypeOK
<1> QED
  BY <1>3, <1>4, Placed

LEMMA TornFields ==
  ASSUME TypeOK, NEW g \in Generation, NEW phase \in {"dialing", "ended"}
  PROVE  /\ Torn(task[g], phase) \in Task
         /\ Torn(task[g], phase).pump = task[g].pump \o task[g].held
         /\ [Torn(task[g], phase) EXCEPT !.queue = <<>>] \in Task
<1>1. task[g] \in Task /\ task[g].pump \in Seq(Event) /\ task[g].held \in Seq(Event)
  BY Lanes
<1>2. task[g].pump \o task[g].held \in Seq(Event)
  BY <1>1, ConcatProperties
<1> QED
  BY <1>1, <1>2, EmptySeq DEF Torn, Task, Working

LEMMA DisconnectFields ==
  ASSUME TypeOK, NEW g \in Generation, Disconnect(g)
  PROVE  Becomes(g, Torn(task[g], "dialing"))
BY TornFields, Placed DEF Disconnect

LEMMA GiveUpFields ==
  ASSUME TypeOK, NEW g \in Generation, GiveUp(g)
  PROVE  Becomes(g, [Torn(task[g], "ended") EXCEPT !.queue = <<>>])
BY TornFields, Placed DEF GiveUp

\* How many of the receipts an aborted writer may yet write.
MidLen(g) == IF task[g].sending THEN 1 ELSE 0

LEMMA MidWriteSeq ==
  ASSUME TypeOK, NEW g \in Generation
  PROVE  /\ Len(MidWrite(task[g])) = MidLen(g)
         /\ MidLen(g) <= Len(task[g].book) /\ Len(task[g].book) \in Nat
<1>1. task[g].book \in Seq(Command) /\ (task[g].sending => task[g].book # <<>>)
  BY Lanes DEF TypeOK
<1> QED
  BY <1>1, EmptySeq DEF MidWrite, MidLen

LEMMA DieFields ==
  ASSUME TypeOK, NEW g \in Generation, NEW k \in MidLen(g)..Len(task[g].book)
  PROVE  [NoTask EXCEPT !.phase = "ended", !.ready = task[g].ready,
            !.up = task[g].up \o SubSeq(task[g].book, MidLen(g) + 1, k)] \in Task
<1>1. /\ task[g] \in Task /\ task[g].up \in Seq(Command) /\ task[g].book \in Seq(Command)
      /\ task[g].ready \in BOOLEAN
  BY Lanes DEF Task
<1>2. SubSeq(task[g].book, MidLen(g) + 1, k) \in Seq(Command)
  BY <1>1, MidWriteSeq, CutSeq DEF MidLen
<1>3. task[g].up \o SubSeq(task[g].book, MidLen(g) + 1, k) \in Seq(Command)
  BY <1>1, <1>2, ConcatProperties
<1> QED
  BY <1>1, <1>3, NoTaskIsTask, EmptySeq DEF NoTask, Task, Working

LEMMA ReceiveFields ==
  ASSUME TypeOK, NEW g \in Generation, task[g].down # <<>>,
         NEW out \in Tampered(<<Head(task[g].down)>> \o task[g].held)
  PROVE  [task[g] EXCEPT !.down = Tail(@), !.held = <<>>, !.pump = @ \o out[1]] \in Task
<1>1. /\ task[g] \in Task /\ task[g].down \in Seq(Event) /\ task[g].held \in Seq(Event)
      /\ task[g].pump \in Seq(Event)
  BY Lanes
<1>2. <<Head(task[g].down)>> \in Seq(Event) /\ Tail(task[g].down) \in Seq(Event)
  BY <1>1, HeadTailProperties, OneSeq
<1>3. <<Head(task[g].down)>> \o task[g].held \in Seq(Event)
  BY <1>1, <1>2, ConcatProperties
<1>4. out[1] \in Seq(Event)
  BY <1>3, TamperedSeq
<1>5. task[g].pump \o out[1] \in Seq(Event)
  BY <1>1, <1>4, ConcatProperties
<1> QED
  BY <1>1, <1>2, <1>5, EmptySeq DEF Task

LEMMA HoldFields ==
  ASSUME TypeOK, NEW g \in Generation, Hold(g)
  PROVE  Becomes(g, [task[g] EXCEPT !.down = Tail(@), !.held = <<Head(task[g].down)>>])
<1> DEFINE s == [task[g] EXCEPT !.down = Tail(@), !.held = <<Head(task[g].down)>>]
<1>1. task[g] \in Task /\ task[g].down \in Seq(Event) /\ task[g].down # <<>>
  BY Lanes DEF Hold
<1>2. <<Head(task[g].down)>> \in Seq(Event) /\ Tail(task[g].down) \in Seq(Event)
  BY <1>1, HeadTailProperties, OneSeq
<1>3. s \in Task
  BY <1>1, <1>2 DEF Task
<1>4. task' = [task EXCEPT ![g] = s]
  BY <1>1 DEF Hold, TypeOK
<1> QED
  BY <1>3, <1>4, Placed

LEMMA FlushFields ==
  ASSUME TypeOK, NEW g \in Generation, FlushHeld(g)
  PROVE  Becomes(g, [task[g] EXCEPT !.pump = @ \o task[g].held, !.held = <<>>])
<1> DEFINE s == [task[g] EXCEPT !.pump = @ \o task[g].held, !.held = <<>>]
<1>1. task[g] \in Task /\ task[g].pump \in Seq(Event) /\ task[g].held \in Seq(Event)
  BY Lanes
<1>2. task[g].pump \o task[g].held \in Seq(Event)
  BY <1>1, ConcatProperties
<1>3. s \in Task
  BY <1>1, <1>2, EmptySeq DEF Task
<1>4. task' = [task EXCEPT ![g] = s]
  BY <1>1 DEF FlushHeld, TypeOK
<1> QED
  BY <1>3, <1>4, Placed

LEMMA DeliverFields ==
  ASSUME TypeOK, NEW g \in Generation, Deliver(g)
  PROVE  Becomes(g, [task[g] EXCEPT !.pump = Tail(@)])
<1> DEFINE s == [task[g] EXCEPT !.pump = Tail(@)]
<1>1. task[g] \in Task /\ task[g].pump \in Seq(Event) /\ task[g].pump # <<>>
  BY Lanes DEF Deliver
<1>2. Tail(task[g].pump) \in Seq(Event)
  BY <1>1, HeadTailProperties
<1>3. s \in Task
  BY <1>1, <1>2 DEF Task
<1>4. task' = [task EXCEPT ![g] = s]
  BY <1>1 DEF Deliver, TypeOK
<1> QED
  BY <1>3, <1>4, Placed

LEMMA ReadyFields ==
  ASSUME TypeOK, channel \in Generation, ConnectDone
  PROVE  Becomes(channel, [task[channel] EXCEPT !.ready = TRUE])
<1> DEFINE s == [task[channel] EXCEPT !.ready = TRUE]
<1>1. s \in Task
  BY Lanes DEF Task
<1>2. task' = [task EXCEPT ![channel] = s]
  BY DEF ConnectDone, TypeOK
<1> QED
  BY <1>1, <1>2, Placed

\* A task that has heard e, and the tasks once g has read a command.
Heard(t, e) == [t EXCEPT !.down = Append(@, e)]
Reading(g, h) == IF h = g THEN [task[h] EXCEPT !.up = Tail(@)] ELSE task[h]

LEMMA SaysFields ==
  ASSUME NEW tasks \in [Generation -> Task], NEW kind \in Kinds, NEW o \in Order,
         NEW filled \in 0..Quantity, Says(tasks, kind, o, filled), TypeOK
  PROVE  /\ task' \in [Generation -> Task]
         /\ \A h \in Generation :
              \/ task'[h] = tasks[h]
              \/ task'[h] = Heard(tasks[h], [kind |-> kind, order |-> o, filled |-> filled])
         /\ history' \in [written : SUBSET Order, guessed : SUBSET Order, lost : SUBSET Order]
         /\ history'.written = history.written /\ history'.guessed = history.guessed
<1> DEFINE e == [kind |-> kind, order |-> o, filled |-> filled]
           s(h) == [tasks[h] EXCEPT !.down = Append(@, e)]
<1>1. history \in [written : SUBSET Order, guessed : SUBSET Order, lost : SUBSET Order]
  BY DEF TypeOK
<1>2. CASE Seats = {}
  BY <1>1, <1>2 DEF Says
<1>3. CASE Seats # {}
  <2>1. e \in Event
    BY DEF Event
  <2>2. \A h \in Generation : s(h) \in Task
    <3>1. TAKE h \in Generation
    <3>2. tasks[h] \in Task /\ tasks[h].down \in Seq(Event)
      BY DEF Task
    <3>3. Append(tasks[h].down, e) \in Seq(Event)
      BY <2>1, <3>2, AppendProperties
    <3> QED
      BY <3>2, <3>3 DEF Task
  <2>3. PICK m : m = Max(Seats)
    OBVIOUS
  <2>4. task' = [tasks EXCEPT ![m].down = Append(@, e)] /\ history' = history
    BY <1>3, <2>3 DEF Says
  <2>5. \A h \in Generation : task'[h] = IF h = m THEN s(h) ELSE tasks[h]
    BY <2>4 DEF Task
  <2>6. task' = [h \in Generation |-> IF h = m THEN s(h) ELSE tasks[h]]
    BY <2>4 DEF Task
  <2>7. task' \in [Generation -> Task]
    BY <2>2, <2>6
  <2> HIDE DEF s
  <2>8. \A h \in Generation : task'[h] = tasks[h] \/ task'[h] = s(h)
    BY <2>5
  <2> QED
    BY <1>1, <2>4, <2>7, <2>8 DEF s, Heard
<1> QED
  BY <1>2, <1>3

\* A command read off the socket of g.
LEMMA ReadFields ==
  ASSUME TypeOK, NEW g \in Generation, task[g].up # <<>>
  PROVE  /\ [task EXCEPT ![g].up = Tail(@)] \in [Generation -> Task]
         /\ [task EXCEPT ![g].up = Tail(@)][g] = [task[g] EXCEPT !.up = Tail(@)]
         /\ \A h \in Generation \ {g} : [task EXCEPT ![g].up = Tail(@)][h] = task[h]
         /\ Head(task[g].up) \in Command /\ Tail(task[g].up) \in Seq(Command)
<1>1. task[g] \in Task /\ task[g].up \in Seq(Command)
  BY Lanes
<1>2. Head(task[g].up) \in Command /\ Tail(task[g].up) \in Seq(Command)
  BY <1>1, HeadTailProperties
<1>3. [task[g] EXCEPT !.up = Tail(@)] \in Task
  BY <1>1, <1>2 DEF Task
<1>4. task \in [Generation -> Task]
  BY DEF TypeOK
<1> QED
  BY <1>1, <1>2, <1>3, <1>4

LEMMA HandleFields ==
  ASSUME TypeOK, NEW g \in Generation, VenueHandle(g), Known
  PROVE  /\ task' \in [Generation -> Task]
         /\ venue' \in [Order -> [phase : {"unknown", "armed", "open", "closed"}, filled : 0..Quantity]]
         /\ history' \in [written : SUBSET Order, guessed : SUBSET Order, lost : SUBSET Order]
         /\ history'.written = history.written /\ history'.guessed = history.guessed
         /\ task[g].up # <<>> /\ Tail(task[g].up) \in Seq(Command) /\ Head(task[g].up) \in Command
         /\ \A o \in Order :
              \/ venue'[o] = venue[o]
              \/ /\ o = Head(task[g].up).order
                 /\ \/ Head(task[g].up).verb = "submit" /\ venue[o].phase = "unknown"
                    \/ Live(o) /\ venue'[o].phase = "closed"
                 /\ venue'[o].phase # "unknown" /\ venue'[o].filled = venue[o].filled
         /\ \E e \in Event :
              /\ \A h \in Generation :
                   task'[h] = Reading(g, h) \/ task'[h] = Heard(Reading(g, h), e)
              /\ \/ /\ venue'[e.order].phase # "unknown"
                    /\ e.kind = "updated" => e.filled < Quantity
                    /\ e.kind # "filled"
                    /\ (e.kind \in {"canceled", "rejected"} \/ e.filled = Quantity) =>
                          venue'[e.order].phase = "closed"
                 \/ \A h \in Generation : task'[h] = Reading(g, h)
<1>1. PICK c : c = Head(task[g].up)
  OBVIOUS
<1>2. task[g].up # <<>> /\ c \in Command /\ c.order \in Order /\ c.verb \in {"submit", "cancel", "modify"}
  BY <1>1, ReadFields DEF VenueHandle, Command
<1>3. PICK read : read = [task EXCEPT ![g].up = Tail(@)]
  OBVIOUS
<1>4. /\ read \in [Generation -> Task] /\ Tail(task[g].up) \in Seq(Command)
      /\ \A h \in Generation : read[h] = Reading(g, h)
  BY <1>2, <1>3, ReadFields DEF Reading
<1>5. PICK o : o = c.order
  OBVIOUS
<1>6. /\ o \in Order
      /\ venue \in [Order -> [phase : {"unknown", "armed", "open", "closed"}, filled : 0..Quantity]]
      /\ history \in [written : SUBSET Order, guessed : SUBSET Order, lost : SUBSET Order]
  BY <1>2, <1>5 DEF TypeOK
<1>7. venue[o].filled \in 0..Quantity
  BY <1>6
<1> DEFINE Told(kind, filled) ==
             /\ kind \in Kinds /\ filled \in 0..Quantity /\ Says(read, kind, o, filled)
             /\ venue'[o].phase # "unknown"
             /\ kind = "updated" => filled < Quantity
             /\ kind # "filled"
             /\ (kind \in {"canceled", "rejected"} \/ filled = Quantity) => venue'[o].phase = "closed"
<1>8. \/ /\ task' = read /\ UNCHANGED <<venue, history>>
      \/ /\ \E kind \in Kinds, filled \in 0..Quantity : Told(kind, filled)
         /\ \/ venue' = venue
            \/ /\ c.verb = "submit" /\ venue[o].phase = "unknown"
               /\ venue'[o].phase # "unknown"
               /\ \E p \in {"armed", "open", "closed"} : venue' = [venue EXCEPT ![o].phase = p]
            \/ /\ Live(o) /\ venue'[o].phase = "closed" /\ venue' = [venue EXCEPT ![o].phase = "closed"]
  <2>1. CASE /\ c.verb = "submit" /\ venue[o].phase = "unknown"
             /\ venue' = [venue EXCEPT ![o].phase = IF o \in Conditional THEN "armed" ELSE "open"]
             /\ Says(read, "accepted", o, 0)
    <3>1. Told("accepted", 0)
      BY <2>1, <1>6 DEF Kinds, Quantity
    <3> QED
      BY <2>1, <1>6, <3>1 DEF Kinds, Quantity
  <2>2. CASE /\ c.verb = "submit" /\ venue[o].phase = "unknown"
             /\ venue' = [venue EXCEPT ![o].phase = "closed"]
             /\ Says(read, "rejected", o, 0)
    <3>1. Told("rejected", 0)
      BY <2>2, <1>6 DEF Kinds, Quantity
    <3> QED
      BY <2>2, <1>6, <3>1 DEF Kinds, Quantity
  <2>3. CASE /\ c.verb = "cancel" /\ Live(o)
             /\ venue' = [venue EXCEPT ![o].phase = "closed"]
             /\ Says(read, "canceled", o, venue[o].filled)
    <3>1. Told("canceled", venue[o].filled)
      BY <2>3, <1>6 DEF Kinds
    <3> QED
      BY <2>3, <1>6, <1>7, <3>1 DEF Kinds
  <2>4. CASE /\ c.verb = "modify" /\ Live(o) /\ Says(read, "updated", o, venue[o].filled)
             /\ UNCHANGED venue
    <3>1. venue[o].filled < Quantity /\ venue[o].phase # "unknown"
      BY <2>4, <1>6 DEF Known, Live
    <3>2. Told("updated", venue[o].filled)
      BY <2>4, <1>6, <1>7, <3>1 DEF Kinds, Quantity
    <3> QED
      BY <2>4, <1>6, <1>7, <3>2 DEF Kinds
  <2>5. CASE /\ c.verb # "submit" /\ ~Live(o) /\ task' = read /\ UNCHANGED <<venue, history>>
    BY <2>5
  <2> QED
    BY <1>1, <1>3, <1>5, <2>1, <2>2, <2>3, <2>4, <2>5 DEF VenueHandle
<1>9. CASE task' = read /\ UNCHANGED <<venue, history>>
  <2>0. PICK e : e = [kind |-> "accepted", order |-> o, filled |-> 0]
    OBVIOUS
  <2>1. e \in Event
    BY <1>6, <2>0 DEF Event, Kinds, Quantity
  <2>2. \A h \in Generation : task'[h] = Reading(g, h)
    BY <1>4, <1>9
  <2>3. \A p \in Order : venue'[p] = venue[p]
    BY <1>9
  <2>4. /\ task' \in [Generation -> Task] /\ venue' = venue /\ history' = history
    BY <1>4, <1>9
  <2>5. /\ venue \in [Order -> [phase : {"unknown", "armed", "open", "closed"}, filled : 0..Quantity]]
        /\ history \in [written : SUBSET Order, guessed : SUBSET Order, lost : SUBSET Order]
    BY <1>6
  <2> QED
    BY <1>1, <1>2, <1>4, <2>1, <2>2, <2>3, <2>4, <2>5
<1>10. CASE /\ \E kind \in Kinds, filled \in 0..Quantity : Told(kind, filled)
            /\ \/ venue' = venue
               \/ /\ c.verb = "submit" /\ venue[o].phase = "unknown"
                  /\ venue'[o].phase # "unknown"
                  /\ \E p \in {"armed", "open", "closed"} : venue' = [venue EXCEPT ![o].phase = p]
               \/ /\ Live(o) /\ venue'[o].phase = "closed" /\ venue' = [venue EXCEPT ![o].phase = "closed"]
  <2>1. PICK kind \in Kinds, filled \in 0..Quantity : Told(kind, filled)
    BY <1>10
  <2>2. PICK e : e = [kind |-> kind, order |-> o, filled |-> filled]
    OBVIOUS
  <2>3. e \in Event /\ e.kind = kind /\ e.order = o /\ e.filled = filled
    BY <1>6, <2>2 DEF Event
  <2>4. /\ task' \in [Generation -> Task]
        /\ \A h \in Generation : task'[h] = read[h] \/ task'[h] = Heard(read[h], e)
        /\ history' \in [written : SUBSET Order, guessed : SUBSET Order, lost : SUBSET Order]
        /\ history'.written = history.written /\ history'.guessed = history.guessed
    <3>1. Says(read, kind, o, filled)
      BY <2>1
    <3> HIDE DEF Told
    <3>2. /\ task' \in [Generation -> Task]
          /\ \A h \in Generation :
               \/ task'[h] = read[h]
               \/ task'[h] = Heard(read[h], [kind |-> kind, order |-> o, filled |-> filled])
          /\ history' \in [written : SUBSET Order, guessed : SUBSET Order, lost : SUBSET Order]
          /\ history'.written = history.written /\ history'.guessed = history.guessed
      BY <1>4, <1>6, <3>1, SaysFields
    <3> QED
      BY <2>2, <3>2
  <2>5. \A h \in Generation :
          task'[h] = Reading(g, h) \/ task'[h] = Heard(Reading(g, h), e)
    BY <1>4, <2>4
  <2>6. venue' \in [Order -> [phase : {"unknown", "armed", "open", "closed"}, filled : 0..Quantity]]
    BY <1>6, <1>10
  <2>7. \A p \in Order :
          \/ venue'[p] = venue[p]
          \/ /\ p = o
             /\ \/ c.verb = "submit" /\ venue[p].phase = "unknown"
                \/ Live(p) /\ venue'[p].phase = "closed"
             /\ venue'[p].phase # "unknown" /\ venue'[p].filled = venue[p].filled
    BY <1>6, <1>10
  <2>8. /\ venue'[e.order].phase # "unknown"
        /\ e.kind = "updated" => e.filled < Quantity
        /\ e.kind # "filled"
        /\ (e.kind \in {"canceled", "rejected"} \/ e.filled = Quantity) => venue'[e.order].phase = "closed"
    BY <2>1, <2>3
  <2> HIDE DEF Told
  <2> QED
    BY <1>1, <1>2, <1>4, <1>5, <2>3, <2>4, <2>5, <2>6, <2>7, <2>8
<1> QED
  BY <1>8, <1>9, <1>10

\* A step of the venue of its own accord.
LEMMA SpeaksFields ==
  ASSUME TypeOK, Known, NEW o \in Order, VenueTriggers(o) \/ VenueFill(o)
  PROVE  /\ task' \in [Generation -> Task]
         /\ venue' \in [Order -> [phase : {"unknown", "armed", "open", "closed"}, filled : 0..Quantity]]
         /\ history' \in [written : SUBSET Order, guessed : SUBSET Order, lost : SUBSET Order]
         /\ history'.written = history.written /\ history'.guessed = history.guessed
         /\ \A p \in Order : \/ venue'[p] = venue[p]
                             \/ /\ Live(p) /\ venue'[p].phase # "unknown"
                                /\ venue'[p].filled < Quantity \/ venue'[p].phase = "closed"
         /\ \E e \in Event :
              /\ \A h \in Generation : task'[h] = task[h] \/ task'[h] = Heard(task[h], e)
              /\ venue'[e.order].phase # "unknown"
              /\ e.kind \notin {"updated", "canceled", "rejected"}
              /\ e.kind = "filled" => e.filled > 0
              /\ e.filled = Quantity => venue'[e.order].phase = "closed"
<1>1. /\ task \in [Generation -> Task]
      /\ venue \in [Order -> [phase : {"unknown", "armed", "open", "closed"}, filled : 0..Quantity]]
  BY DEF TypeOK
<1>2. CASE VenueTriggers(o)
  <2>1. Says(task, "triggered", o, 0) /\ venue[o].phase = "armed"
    BY <1>2 DEF VenueTriggers
  <2>2. venue' = [venue EXCEPT ![o].phase = "open"]
    BY <1>2 DEF VenueTriggers
  <2>3. PICK e : e = [kind |-> "triggered", order |-> o, filled |-> 0]
    OBVIOUS
  <2>4. e \in Event /\ e.order = o /\ e.kind = "triggered" /\ e.filled = 0
    BY <2>3 DEF Event, Kinds, Quantity
  <2>5. PICK ts : ts = task
    OBVIOUS
  <2>6. Says(ts, "triggered", o, 0) /\ ts \in [Generation -> Task]
    BY <1>1, <2>1, <2>5
  <2>7. "triggered" \in Kinds /\ 0 \in 0..Quantity
    BY DEF Kinds, Quantity
  <2>8. /\ task' \in [Generation -> Task]
        /\ \A h \in Generation :
             task'[h] = ts[h] \/ task'[h] = Heard(ts[h], [kind |-> "triggered", order |-> o, filled |-> 0])
        /\ history' \in [written : SUBSET Order, guessed : SUBSET Order, lost : SUBSET Order]
        /\ history'.written = history.written /\ history'.guessed = history.guessed
    BY <2>6, <2>7, SaysFields
  <2>9. \A h \in Generation : task'[h] = task[h] \/ task'[h] = Heard(task[h], e)
    BY <2>3, <2>5, <2>8
  <2>10. \A p \in Order : \/ venue'[p] = venue[p]
                          \/ /\ p = o /\ venue'[p].phase = "open" /\ venue'[p].filled = venue[p].filled
    BY <1>1, <2>2
  <2>11. Live(o) /\ venue[o].filled < Quantity
    BY <2>1 DEF Live, Known
  <2>12. venue' \in [Order -> [phase : {"unknown", "armed", "open", "closed"}, filled : 0..Quantity]]
    BY <1>1, <2>2
  <2>13. venue'[o].phase = "open"
    BY <1>1, <2>2
  <2> QED
    BY <2>4, <2>8, <2>9, <2>10, <2>11, <2>12, <2>13 DEF Quantity
<1>3. CASE VenueFill(o)
  <2>1. PICK f : f = venue[o].filled + 1
    OBVIOUS
  <2>2. /\ Says(task, "filled", o, f) /\ venue[o].phase = "open"
        /\ venue' = [venue EXCEPT ![o] = [filled |-> f, phase |-> IF f = Quantity THEN "closed" ELSE "open"]]
    BY <1>3, <2>1 DEF VenueFill
  <2>3. Live(o) /\ venue[o].filled < Quantity /\ venue[o].filled \in 0..Quantity
    BY <1>1, <2>2 DEF Live, Known
  <2>4. f \in 0..Quantity /\ f > 0
    BY <2>1, <2>3 DEF Quantity
  <2>5. PICK e : e = [kind |-> "filled", order |-> o, filled |-> f]
    OBVIOUS
  <2>6. e \in Event /\ e.order = o /\ e.kind = "filled" /\ e.filled = f
    BY <2>4, <2>5 DEF Event, Kinds
  <2>7. PICK ts : ts = task
    OBVIOUS
  <2>8. Says(ts, "filled", o, f) /\ ts \in [Generation -> Task] /\ "filled" \in Kinds
    BY <1>1, <2>2, <2>7 DEF Kinds
  <2>9. /\ task' \in [Generation -> Task]
        /\ \A h \in Generation :
             task'[h] = ts[h] \/ task'[h] = Heard(ts[h], [kind |-> "filled", order |-> o, filled |-> f])
        /\ history' \in [written : SUBSET Order, guessed : SUBSET Order, lost : SUBSET Order]
        /\ history'.written = history.written /\ history'.guessed = history.guessed
    BY <2>4, <2>8, SaysFields
  <2>10. \A h \in Generation : task'[h] = task[h] \/ task'[h] = Heard(task[h], e)
    BY <2>5, <2>7, <2>9
  <2>11. /\ venue'[o].phase # "unknown" /\ venue'[o].filled = f
         /\ f = Quantity => venue'[o].phase = "closed"
    BY <1>1, <2>2
  <2>12. \A p \in Order : p # o => venue'[p] = venue[p]
    BY <1>1, <2>2
  <2>13. venue' \in [Order -> [phase : {"unknown", "armed", "open", "closed"}, filled : 0..Quantity]]
    BY <1>1, <2>2, <2>4
  <2>14. f < Quantity \/ f = Quantity
    BY <2>4 DEF Quantity
  <2>15. /\ e.kind \notin {"updated", "canceled", "rejected"}
         /\ e.kind = "filled" => e.filled > 0
         /\ e.filled = Quantity => venue'[e.order].phase = "closed"
         /\ venue'[e.order].phase # "unknown"
    BY <2>4, <2>6, <2>11
  <2>16. \A p \in Order : \/ venue'[p] = venue[p]
                          \/ /\ Live(p) /\ venue'[p].phase # "unknown"
                             /\ venue'[p].filled < Quantity \/ venue'[p].phase = "closed"
    BY <2>3, <2>11, <2>12, <2>14
  <2> QED
    BY <2>6, <2>9, <2>10, <2>13, <2>15, <2>16
<1> QED
  BY <1>2, <1>3
----------------------------------------------------------------------------
(* The mirror, one event or one report at a time.                          *)

LEMMA AdvancedStatus ==
  ASSUME NEW r \in Record, NEW e \in Event, r.status \in Open, e.kind = "filled" => e.filled > 0
  PROVE  /\ Applied(r, e) \in Record
         /\ Applied(r, e).status = "submitted" => r.status = "submitted"
         /\ IsClosed(Applied(r, e)) =>
              e.kind \in {"canceled", "rejected"} \/ e.filled = Quantity
         /\ IsClosed(Applied(r, e)) => Ends(r, e) \/ e.kind = "updated"
<1>1. r.status # Absent /\ ~IsClosed(r)
  BY DEF Open, Closed, Absent, IsClosed
<1>2. /\ e.kind \in Kinds /\ e.filled \in 0..Quantity
      /\ r.trades \in SUBSET (1..Quantity) /\ r.status \in Open
  BY DEF Event, Record
<1>3. PICK c : c = IF e.kind = "filled" THEN [r EXCEPT !.trades = @ \cup {e.filled}] ELSE r
  OBVIOUS
<1>4. c \in Record
  <2>1. e.kind = "filled" => r.trades \cup {e.filled} \in SUBSET (1..Quantity)
    BY <1>2 DEF Quantity
  <2> QED
    BY <1>3, <2>1 DEF Record
<1>5. Applied(r, e) = [c EXCEPT !.status = Advanced(r, e)]
  BY <1>1, <1>3 DEF Applied
<1>6. /\ Advanced(r, e) \in Open \cup Closed
      /\ Advanced(r, e) = "submitted" => r.status = "submitted"
      /\ Advanced(r, e) \in Closed =>
           /\ e.kind \in {"canceled", "rejected"} \/ e.filled = Quantity
           /\ Ends(r, e) \/ e.kind = "updated"
  <2>1. ByFills(e.filled) \in {"filled", "partiallyFilled"}
        /\ (ByFills(e.filled) = "filled" => e.filled = Quantity)
    BY DEF ByFills
  <2>2. CASE e.kind = "updated"
    <3>1. Advanced(r, e) \in {ByFills(e.filled), "triggered", "accepted"}
      BY <2>2 DEF Advanced
    <3> QED
      BY <2>1, <2>2, <3>1 DEF Open, Closed
  <2>3. CASE e.kind = "filled"
    <3>1. Advanced(r, e) \in {ByFills(e.filled), r.status}
      BY <2>3 DEF Advanced
    <3> QED
      BY <1>1, <1>2, <2>1, <2>3, <3>1 DEF Open, Closed, Ends
  <2>4. CASE e.kind = "rejected"
    <3>1. Advanced(r, e) = IF r.status \in RejectableBy("venue") THEN "rejected" ELSE r.status
      BY <2>4 DEF Advanced
    <3> QED
      BY <1>1, <1>2, <2>4, <3>1 DEF Open, Closed, Ends
  <2>5. CASE e.kind \in {"accepted", "triggered", "canceled"}
    <3>1. Advanced(r, e) = e.kind
      BY <2>5 DEF Advanced
    <3> QED
      BY <1>1, <1>2, <2>5, <3>1 DEF Open, Closed, Ends
  <2> QED
    BY <1>2, <2>2, <2>3, <2>4, <2>5 DEF Kinds
<1>7. /\ Applied(r, e).status = Advanced(r, e)
      /\ Applied(r, e) \in Record
  BY <1>4, <1>5, <1>6 DEF Record
<1> QED
  BY <1>6, <1>7 DEF IsClosed

LEMMA AppliedStatus ==
  ASSUME NEW r \in Record, NEW e \in Event, e.kind = "filled" => e.filled > 0
  PROVE  /\ Applied(r, e) \in Record
         /\ Applied(r, e).status = "submitted" => r.status = "submitted"
         /\ IsClosed(r) => Applied(r, e).status = r.status
         /\ r.status = Absent <=> Applied(r, e).status = Absent
         /\ IsClosed(Applied(r, e)) /\ ~IsClosed(r) =>
              /\ e.kind \in {"canceled", "rejected"} \/ e.filled = Quantity
              /\ Ends(r, e) \/ e.kind = "updated"
<1>1. CASE r.status = Absent
  BY <1>1 DEF Applied, IsClosed, Closed, Absent
<1>2. CASE IsClosed(r)
  <2>1. r.trades \cup {e.filled} \in SUBSET (1..Quantity) \/ e.kind # "filled"
    BY DEF Record, Event, Quantity
  <2>2. Applied(r, e) = IF e.kind = "filled" THEN [r EXCEPT !.trades = @ \cup {e.filled}] ELSE r
    BY <1>2 DEF Applied, IsClosed, Closed, Absent
  <2>3. Applied(r, e) \in Record /\ Applied(r, e).status = r.status
    BY <2>1, <2>2 DEF Record
  <2> QED
    BY <1>2, <2>3 DEF IsClosed, Closed, Absent
<1>3. CASE r.status \in Open
  <2>1. /\ Applied(r, e) \in Record
        /\ Applied(r, e).status = "submitted" => r.status = "submitted"
        /\ IsClosed(Applied(r, e)) =>
              e.kind \in {"canceled", "rejected"} \/ e.filled = Quantity
        /\ IsClosed(Applied(r, e)) => Ends(r, e) \/ e.kind = "updated"
    BY <1>3, AdvancedStatus
  <2>2. Applied(r, e).status # Absent
    <3>1. CASE IsClosed(Applied(r, e))
      BY <3>1 DEF IsClosed, Closed, Absent
    <3>2. r.status # Absent /\ ~IsClosed(r) /\ e.kind \in Kinds
      BY <1>3 DEF Open, Closed, Absent, IsClosed, Event
    <3>3. Advanced(r, e) # Absent
      BY <1>3, <3>2 DEF Advanced, ByFills, Absent, Kinds, Open
    <3>4. Applied(r, e).status = Advanced(r, e)
      BY <3>2 DEF Applied, Record
    <3> QED
      BY <3>3, <3>4
  <2> QED
    BY <1>3, <2>1, <2>2 DEF Open, Closed, Absent, IsClosed
<1> QED
  BY <1>1, <1>2, <1>3 DEF Record, IsClosed

LEMMA SubmitsAreOrders ==
  ASSUME NEW cmds \in Seq(Command)
  PROVE  Submits(cmds) \subseteq Order
<1>1. \A i \in DOMAIN cmds : cmds[i] \in Command
  BY ElementOfSeq, LenProperties
<1> QED
  BY <1>1 DEF Submits, Command

\* What a report of these commands does to the mirror.
LEMMA UndeliveredFields ==
  ASSUME TypeOK, NEW cmds \in Seq(Command), NEW g, Undelivered(cmds, g)
  PROVE  /\ mirror' \in [Order -> Record] /\ told' \subseteq Order
         /\ told \subseteq told'
         /\ \A o \in Order :
              IF o \in Submits(cmds) /\ mirror[o].status = "submitted"
              THEN /\ mirror'[o].status = "rejected"
                   /\ g = generation => o \in told'
              ELSE mirror'[o] = mirror[o]
<1>1. PICK refused : refused = {o \in Submits(cmds) : mirror[o].status \in RejectableBy("transport")}
  OBVIOUS
<1>2. \A o : o \in refused <=> o \in Submits(cmds) /\ mirror[o].status = "submitted"
  BY <1>1 DEF RejectableBy
<1>3. refused \subseteq Order
  BY <1>2, SubmitsAreOrders
<1>4. /\ mirror' = [o \in Order |-> IF o \in refused THEN RejectedHere(mirror[o]) ELSE mirror[o]]
      /\ told' = IF g = generation THEN told \cup refused ELSE told
  BY <1>1 DEF Undelivered, Speaks
<1>5. mirror \in [Order -> Record] /\ told \subseteq Order
  BY DEF TypeOK
<1>6. \A o \in refused : RejectedHere(mirror[o]) \in Record /\ RejectedHere(mirror[o]).status = "rejected"
  BY <1>2, <1>3, <1>5 DEF RejectedHere, RejectableBy, Record, Closed
<1> QED
  BY <1>2, <1>3, <1>4, <1>5, <1>6
----------------------------------------------------------------------------
(* Types.                                                                  *)

LEMMA Constants == MaxGeneration \in Nat /\ MaxSpent \in Nat
BY ExecClientAssumption

\* The parts of the type invariant.
Plain == /\ mirror \in [Order -> Record] /\ told \subseteq Order
         /\ generation \in 0..issued /\ channel \in 0..issued /\ issued \in 0..MaxGeneration
         /\ venue \in [Order -> [phase : {"unknown", "armed", "open", "closed"}, filled : 0..Quantity]]
         /\ spent \in 0..MaxSpent
         /\ history \in [written : SUBSET Order, guessed : SUBSET Order, lost : SUBSET Order]
Orderly(t) == /\ t.sending => t.phase = "up" /\ t.book # <<>>
              /\ t.book # <<>> => t.phase = "up"
              /\ t.queue # <<>> => t.phase \in Working

LEMMA TypeParts ==
  TypeOK <=> Plain /\ task \in [Generation -> Task] /\ \A g \in Generation : Orderly(task[g])
BY DEF TypeOK, Plain, Orderly

LEMMA OrderlyPlaced ==
  ASSUME TypeOK, NEW g \in Generation, NEW s, Becomes(g, s), Orderly(s)
  PROVE  task' \in [Generation -> Task] /\ \A h \in Generation : Orderly(task'[h])
<1>1. \A h \in Generation : Orderly(task[h])
  BY TypeParts
<1> QED
  BY <1>1 DEF Becomes

LEMMA AbortedOrderly ==
  ASSUME TypeOK
  PROVE  \A g \in Generation : Orderly(Aborted[g])
<1>1. TAKE g \in Generation
<1>2. Orderly(task[g]) /\ task[g] \in Task
  BY TypeParts, Lanes
<1>3. Aborted[g] = [task[g] EXCEPT !.stopping = (task[g].phase # "none")]
  BY AbortedFields
<1> QED
  BY <1>2, <1>3 DEF Orderly, Task

LEMMA Joined ==
  ASSUME NEW S, NEW b \in Seq(S), NEW q \in Seq(S), NEW w, w = b \o q
  PROVE  /\ w \in Seq(S) /\ Len(w) = Len(b) + Len(q)
         /\ \A i \in 1..Len(b) : i \in 1..Len(w) /\ w[i] = b[i]
         /\ \A i \in 1..Len(w) : i > Len(b) => i - Len(b) \in 1..Len(q) /\ w[i] = q[i - Len(b)]
<1>1. Len(b) \in Nat /\ Len(q) \in Nat
  BY LenProperties
<1>2. /\ w \in Seq(S) /\ Len(w) = Len(b) + Len(q)
      /\ \A i \in 1..(Len(b) + Len(q)) : w[i] = IF i <= Len(b) THEN b[i] ELSE q[i - Len(b)]
  BY ConcatProperties
<1> QED
  BY <1>1, <1>2

LEMMA OwedSeq ==
  ASSUME TypeOK, NEW g \in Generation
  PROVE  /\ Owed(task[g]) \in Seq(Command)
         /\ Len(Owed(task[g])) = Len(task[g].book) + Len(task[g].queue)
         /\ \A i \in 1..Len(task[g].book) : /\ i \in 1..Len(Owed(task[g]))
                                             /\ Owed(task[g])[i] = task[g].book[i]
         /\ \A i \in 1..Len(Owed(task[g])) : i > Len(task[g].book) =>
               /\ i - Len(task[g].book) \in 1..Len(task[g].queue)
               /\ Owed(task[g])[i] = task[g].queue[i - Len(task[g].book)]
<1>1. task[g].book \in Seq(Command) /\ task[g].queue \in Seq(Command)
  BY Lanes
<1>2. PICK b, q, w : b = task[g].book /\ q = task[g].queue /\ w = Owed(task[g])
  OBVIOUS
<1>3. b \in Seq(Command) /\ q \in Seq(Command) /\ w = b \o q
  BY <1>1, <1>2 DEF Owed
<1>4. /\ w \in Seq(Command) /\ Len(w) = Len(b) + Len(q)
      /\ \A i \in 1..Len(b) : i \in 1..Len(w) /\ w[i] = b[i]
      /\ \A i \in 1..Len(w) : i > Len(b) => i - Len(b) \in 1..Len(q) /\ w[i] = q[i - Len(b)]
  BY <1>3, Joined
<1> QED
  BY <1>2, <1>4, Zenon

LEMMA MidWriteIn ==
  ASSUME TypeOK, NEW g \in Generation
  PROVE  MidWrite(task[g]) \in Seq(Command)
<1>1. task[g].sending => Head(task[g].book) \in Command
  BY Lanes, HeadTailProperties DEF TypeOK
<1> QED
  BY <1>1, OneSeq, EmptySeq DEF MidWrite

LEMMA OrdersOf ==
  /\ \A s \in Seq(Event) : Orders(s) \subseteq Order
  /\ \A s \in Seq(Command) : Orders(s) \subseteq Order
<1>1. ASSUME NEW s \in Seq(Event) PROVE Orders(s) \subseteq Order
  <2>1. \A i \in DOMAIN s : s[i] \in Event
    BY ElementOfSeq, LenProperties
  <2> QED
    BY <2>1 DEF Orders, Event
<1>2. ASSUME NEW s \in Seq(Command) PROVE Orders(s) \subseteq Order
  <2>1. \A i \in DOMAIN s : s[i] \in Command
    BY ElementOfSeq, LenProperties
  <2> QED
    BY <2>1 DEF Orders, Command
<1> QED
  BY <1>1, <1>2

LEMMA LostFields ==
  ASSUME TypeOK, NEW g \in Generation, NEW more \in Seq(Event), NEW guesses \in Seq(Command),
         Lost(task[g], more, guesses)
  PROVE  /\ history' \in [written : SUBSET Order, guessed : SUBSET Order, lost : SUBSET Order]
         /\ history'.written = history.written
         /\ history'.guessed = history.guessed \cup Submits(guesses)
<1>1. history \in [written : SUBSET Order, guessed : SUBSET Order, lost : SUBSET Order]
  BY DEF TypeOK
<1>2. PICK gone : gone = history.lost \cup Orders(task[g].up) \cup Orders(task[g].down) \cup Orders(more)
  OBVIOUS
<1>3. gone \subseteq Order
  BY <1>1, <1>2, Lanes, OrdersOf
<1>4. Submits(guesses) \subseteq Order
  BY SubmitsAreOrders
<1>5. history' = [history EXCEPT !.lost = gone, !.guessed = @ \cup Submits(guesses)]
  BY <1>2 DEF Lost
<1> QED
  BY <1>1, <1>3, <1>4, <1>5

LEMMA TamperedRest ==
  ASSUME NEW s \in Seq(Event), NEW out \in Tampered(s)
  PROVE  out[2] \in {0, 1} /\ out[3] \subseteq Order
<1>1. \A i \in DOMAIN s : s[i] \in Event
  BY ElementOfSeq, LenProperties
<1>2. \A i \in DOMAIN s : s[i].order \in Order
  BY <1>1 DEF Event
<1> QED
  BY <1>2 DEF Tampered

LEMMA PumpHead ==
  ASSUME TypeOK, Frames, NEW g \in Generation, task[g].pump # <<>>
  PROVE  Head(task[g].pump) \in Event /\ Founded(Head(task[g].pump))
<1>1. task[g].pump \in Seq(Event)
  BY Lanes
<1>2. Head(task[g].pump) \in Event /\ 1 \in DOMAIN task[g].pump /\ Head(task[g].pump) = task[g].pump[1]
  BY <1>1, HeadTailProperties, LenProperties, EmptySeq
<1> QED
  BY <1>2 DEF Frames, AllFounded

LEMMA HeardOrderly ==
  ASSUME NEW t \in Task, NEW e \in Event, Orderly(t)
  PROVE  Orderly(Heard(t, e))
BY DEF Orderly, Heard, Task

LEMMA ReadingOrderly ==
  ASSUME TypeOK, NEW g \in Generation, NEW h \in Generation, NEW e \in Event, Orderly(task[h])
  PROVE  Orderly(Reading(g, h)) /\ Orderly(Heard(Reading(g, h), e))
<1>1. task[h] \in Task
  BY Lanes
<1> QED
  BY <1>1 DEF Orderly, Reading, Heard, Task

LEMMA ChannelIsGeneration ==
  ASSUME TypeOK, channel # 0
  PROVE  channel \in Generation /\ channel <= issued
BY Constants DEF TypeOK, Generation

LEMMA ConnectFields ==
  ASSUME TypeOK, Connect
  PROVE  /\ issued' \in Generation /\ issued' = issued + 1
         /\ [NoTask EXCEPT !.phase = "dialing"] \in Task
         /\ task' \in [Generation -> Task]
         /\ task'[issued'] = [NoTask EXCEPT !.phase = "dialing"]
         /\ \A h \in Generation \ {issued'} : task'[h] = Aborted[h]
<1>1. issued \in 0..MaxGeneration /\ issued < MaxGeneration /\ issued' = issued + 1
  BY DEF Connect, TypeOK
<1>2. issued' \in Generation
  BY <1>1, Constants DEF Generation
<1>3. [NoTask EXCEPT !.phase = "dialing"] \in Task
  BY NoTaskIsTask DEF Task, Working
<1>4. Aborted \in [Generation -> Task]
  BY AbortedFields
<1>5. task' = [Aborted EXCEPT ![issued'] = [NoTask EXCEPT !.phase = "dialing"]]
  BY DEF Connect
<1> QED
  BY <1>1, <1>2, <1>3, <1>4, <1>5

LEMMA TypeNext ==
  ASSUME TypeOK, Known, Frames, Next
  PROVE  TypeOK'
<1>1. Plain /\ \A g \in Generation : task[g] \in Task /\ Orderly(task[g])
  BY TypeParts, Lanes
<1> SUFFICES Plain' /\ task' \in [Generation -> Task] /\ \A g \in Generation : Orderly(task'[g])
  BY DEF TypeOK, Plain, Orderly, Generation
<1>2. CASE \E o \in Order : SubmitOrder(o)
  <2>1. PICK o \in Order : SubmitOrder(o)
    BY <1>2
  <2>2. RejectedHere(Announced) \in Record /\ Announced \in Record
    BY DEF RejectedHere, Announced, RejectableBy, Record, Open, Closed
  <2>3. Plain'
    BY <1>1, <2>1, <2>2 DEF SubmitOrder, Plain
  <2>4. CASE Accepting
    <3>1. channel \in Generation /\ task[channel].phase \in Working
      BY <2>4, ChannelIsGeneration DEF Accepting
    <3>2. [verb |-> "submit", order |-> o] \in Command
      BY DEF Command
    <3>3. Queue([verb |-> "submit", order |-> o])
      BY <2>1, <2>4 DEF SubmitOrder
    <3>4. PICK s : s = [task[channel] EXCEPT !.queue = Append(@, [verb |-> "submit", order |-> o])]
      OBVIOUS
    <3>5. Becomes(channel, s) /\ Orderly(s)
      BY <1>1, <3>1, <3>2, <3>3, <3>4, QueueFields DEF Orderly, Task
    <3> QED
      BY <2>3, <3>1, <3>5, OrderlyPlaced
  <2>5. CASE ~Accepting
    <3>1. task' = task
      BY <2>1, <2>5 DEF SubmitOrder
    <3> QED
      BY <1>1, <2>3, <3>1, TypeParts
  <2> QED
    BY <2>4, <2>5
<1>3. CASE \E o \in Order, verb \in {"cancel", "modify"} : ChangeOrder(verb, o)
  <2>1. PICK o \in Order, verb \in {"cancel", "modify"} : ChangeOrder(verb, o)
    BY <1>3
  <2>2. Plain'
    BY <1>1, <2>1, Constants DEF ChangeOrder, Plain
  <2>3. channel \in Generation /\ task[channel].phase \in Working
    BY <2>1, ChannelIsGeneration DEF ChangeOrder, Accepting
  <2>4. [verb |-> verb, order |-> o] \in Command
    BY DEF Command
  <2>5. Queue([verb |-> verb, order |-> o])
    BY <2>1 DEF ChangeOrder
  <2>6. PICK s : s = [task[channel] EXCEPT !.queue = Append(@, [verb |-> verb, order |-> o])]
    OBVIOUS
  <2>7. Becomes(channel, s) /\ Orderly(s)
    BY <1>1, <2>3, <2>4, <2>5, <2>6, QueueFields DEF Orderly, Task
  <2> QED
    BY <2>2, <2>3, <2>7, OrderlyPlaced
<1>4. CASE Stop \/ ConnectFails
  <2>1. Plain' /\ task' = Aborted
    BY <1>1, <1>4 DEF Stop, ConnectFails, Plain
  <2>2. \A g \in Generation : Orderly(Aborted[g])
    BY AbortedOrderly
  <2> QED
    BY <2>1, <2>2, AbortedFields
<1>5. CASE Connect
  <2>1. Plain'
    BY <1>1, <1>5, Constants DEF Connect, Plain
  <2>2. \A g \in Generation : Orderly(Aborted[g])
    BY AbortedOrderly
  <2>3. Orderly([NoTask EXCEPT !.phase = "dialing"])
    BY DEF Orderly, NoTask
  <2>4. \A g \in Generation : g = issued' \/ g \in Generation \ {issued'}
    OBVIOUS
  <2> QED
    BY <1>5, <2>1, <2>2, <2>3, <2>4, ConnectFields
<1>6. CASE ConnectDone
  <2>1. channel \in Generation
    BY <1>6, ChannelIsGeneration DEF ConnectDone, Free
  <2>2. PICK s : s = [task[channel] EXCEPT !.ready = TRUE]
    OBVIOUS
  <2>3. Becomes(channel, s) /\ Orderly(s)
    BY <1>1, <1>6, <2>1, <2>2, ReadyFields DEF Orderly, Task
  <2>4. Plain'
    BY <1>1, <1>6 DEF ConnectDone, Plain
  <2> QED
    BY <2>1, <2>3, <2>4, OrderlyPlaced
<1>7. ASSUME NEW g \in Generation, Dial(g)
      PROVE  Plain' /\ task' \in [Generation -> Task] /\ \A h \in Generation : Orderly(task'[h])
  <2>1. PICK s : s = [task[g] EXCEPT !.phase = "up", !.up = <<>>]
    OBVIOUS
  <2>2. Becomes(g, s) /\ Orderly(s)
    BY <1>1, <1>7, <2>1, DialFields DEF Orderly, Task, Working
  <2>3. Plain'
    BY <1>1, <1>7 DEF Dial, Plain
  <2> QED
    BY <2>2, <2>3, OrderlyPlaced
<1>8. ASSUME NEW g \in Generation, TakeCommand(g)
      PROVE  Plain' /\ task' \in [Generation -> Task] /\ \A h \in Generation : Orderly(task'[h])
  <2>1. PICK s : s = [task[g] EXCEPT !.book = Append(@, Head(task[g].queue)), !.queue = Tail(@)]
    OBVIOUS
  <2>2. Becomes(g, s)
    BY <1>8, <2>1, TakeFields
  <2>3. s.phase = "up" /\ s.sending = task[g].sending /\ s.book = Append(task[g].book, Head(task[g].queue))
    BY <1>1, <1>8, <2>1 DEF TakeCommand, Task
  <2>4. s.book # <<>>
    <3>1. Head(task[g].queue) \in Command /\ task[g].book \in Seq(Command)
      BY <1>8, Lanes, HeadTailProperties DEF TakeCommand
    <3> QED
      BY <2>3, <3>1, AppendProperties
  <2>5. Orderly(s)
    BY <2>3, <2>4 DEF Orderly, Working
  <2>6. Plain'
    BY <1>1, <1>8 DEF TakeCommand, Plain
  <2> QED
    BY <2>2, <2>5, <2>6, OrderlyPlaced
<1>9. ASSUME NEW g \in Generation, WriteFrame(g)
      PROVE  Plain' /\ task' \in [Generation -> Task] /\ \A h \in Generation : Orderly(task'[h])
  <2>1. PICK s : s = [task[g] EXCEPT !.up = Append(@, Head(task[g].book)), !.sending = TRUE]
    OBVIOUS
  <2>2. Becomes(g, s) /\ Orderly(s)
    BY <1>1, <1>9, <2>1, WriteFields DEF Orderly, Task, WriteFrame
  <2>3. <<Head(task[g].book)>> \in Seq(Command)
    BY <1>9, Lanes, HeadTailProperties, OneSeq DEF WriteFrame
  <2>4. Submits(<<Head(task[g].book)>>) \subseteq Order
    BY <2>3, SubmitsAreOrders
  <2>5. Plain'
    BY <1>1, <1>9, <2>4 DEF WriteFrame, Plain
  <2> QED
    BY <2>2, <2>5, OrderlyPlaced
<1>10. ASSUME NEW g \in Generation, Retire(g)
      PROVE  Plain' /\ task' \in [Generation -> Task] /\ \A h \in Generation : Orderly(task'[h])
  <2>1. PICK s : s = [task[g] EXCEPT !.book = Tail(@), !.sending = FALSE]
    OBVIOUS
  <2>2. Becomes(g, s) /\ Orderly(s)
    BY <1>1, <1>10, <2>1, RetireFields DEF Orderly, Task, Retire
  <2>3. Plain'
    BY <1>1, <1>10 DEF Retire, Plain
  <2> QED
    BY <2>2, <2>3, OrderlyPlaced
<1>11. ASSUME NEW g \in Generation, Disconnect(g)
      PROVE  Plain' /\ task' \in [Generation -> Task] /\ \A h \in Generation : Orderly(task'[h])
  <2>1. PICK s : s = Torn(task[g], "dialing")
    OBVIOUS
  <2>2. Becomes(g, s) /\ Orderly(s)
    BY <1>1, <1>11, <2>1, DisconnectFields DEF Orderly, Task, Torn, Working
  <2>3. mirror' \in [Order -> Record] /\ told' \subseteq Order
    BY <1>11, Lanes, UndeliveredFields DEF Disconnect
  <2>4. history' \in [written : SUBSET Order, guessed : SUBSET Order, lost : SUBSET Order]
    BY <1>1, <1>11, MidWriteIn, LostFields, EmptySeq DEF Disconnect
  <2>5. Plain'
    BY <1>1, <1>11, <2>3, <2>4, Constants DEF Disconnect, Plain
  <2> QED
    BY <2>2, <2>5, OrderlyPlaced
<1>12. ASSUME NEW g \in Generation, GiveUp(g)
      PROVE  Plain' /\ task' \in [Generation -> Task] /\ \A h \in Generation : Orderly(task'[h])
  <2>1. PICK s : s = [Torn(task[g], "ended") EXCEPT !.queue = <<>>]
    OBVIOUS
  <2>2. Becomes(g, s) /\ Orderly(s)
    BY <1>1, <1>12, <2>1, GiveUpFields DEF Orderly, Task, Torn, Working
  <2>3. mirror' \in [Order -> Record] /\ told' \subseteq Order
    BY <1>12, OwedSeq, UndeliveredFields DEF GiveUp
  <2>4. history' \in [written : SUBSET Order, guessed : SUBSET Order, lost : SUBSET Order]
    BY <1>1, <1>12, MidWriteIn, LostFields, EmptySeq DEF GiveUp
  <2>5. Plain'
    BY <1>1, <1>12, <2>3, <2>4 DEF GiveUp, Plain
  <2> QED
    BY <2>2, <2>5, OrderlyPlaced
<1>13. ASSUME NEW g \in Generation, Die(g)
      PROVE  Plain' /\ task' \in [Generation -> Task] /\ \A h \in Generation : Orderly(task'[h])
  <2>1. PICK k \in MidLen(g)..Len(task[g].book) :
          /\ Lost(task[g], task[g].held \o task[g].pump, SubSeq(task[g].book, 1, k))
          /\ task' = [task EXCEPT ![g] = [NoTask EXCEPT !.phase = "ended", !.ready = task[g].ready,
                        !.up = task[g].up \o SubSeq(task[g].book, MidLen(g) + 1, k)]]
    BY <1>13, MidWriteSeq DEF Die
  <2>2. PICK s : s = [NoTask EXCEPT !.phase = "ended", !.ready = task[g].ready,
                        !.up = task[g].up \o SubSeq(task[g].book, MidLen(g) + 1, k)]
    OBVIOUS
  <2>3. Becomes(g, s) /\ Orderly(s)
    <3>1. s \in Task
      BY <2>2, DieFields
    <3>2. Orderly(s)
      BY <2>2 DEF Orderly, NoTask
    <3> QED
      BY <2>1, <2>2, <3>1, <3>2, Placed
  <2>4. mirror' \in [Order -> Record] /\ told' \subseteq Order
    BY <1>13, OwedSeq, UndeliveredFields DEF Die
  <2>5. history' \in [written : SUBSET Order, guessed : SUBSET Order, lost : SUBSET Order]
    <3>1. task[g].held \o task[g].pump \in Seq(Event)
      BY Lanes, ConcatProperties
    <3>2. SubSeq(task[g].book, 1, k) \in Seq(Command)
      BY Lanes, CutSeq, MidWriteSeq DEF MidLen
    <3> QED
      BY <2>1, <3>1, <3>2, LostFields
  <2>6. Plain'
    BY <1>1, <1>13, <2>4, <2>5 DEF Die, Plain
  <2> QED
    BY <2>3, <2>6, OrderlyPlaced
<1>14. ASSUME NEW g \in Generation, Receive(g)
      PROVE  Plain' /\ task' \in [Generation -> Task] /\ \A h \in Generation : Orderly(task'[h])
  <2>1. PICK out \in Tampered(<<Head(task[g].down)>> \o task[g].held) :
          /\ spent' = spent + out[2] /\ spent' <= MaxSpent
          /\ history' = [history EXCEPT !.lost = @ \cup out[3]]
          /\ task' = [task EXCEPT ![g].down = Tail(@), ![g].held = <<>>, ![g].pump = @ \o out[1]]
    BY <1>14 DEF Receive
  <2>2. PICK s : s = [task[g] EXCEPT !.down = Tail(@), !.held = <<>>, !.pump = @ \o out[1]]
    OBVIOUS
  <2>3. task[g].down # <<>>
    BY <1>14 DEF Receive
  <2>4. s \in Task /\ task' = [task EXCEPT ![g] = s]
    BY <1>1, <2>1, <2>2, <2>3, ReceiveFields DEF TypeOK
  <2>5. Orderly(s)
    BY <1>1, <2>2 DEF Orderly, Task
  <2>6. <<Head(task[g].down)>> \o task[g].held \in Seq(Event)
    BY <2>3, Lanes, HeadTailProperties, OneSeq, ConcatProperties
  <2>7. out[2] \in {0, 1} /\ out[3] \subseteq Order
    BY <2>6, TamperedRest
  <2>8. spent' \in 0..MaxSpent
    BY <1>1, <2>1, <2>7, Constants DEF Plain
  <2>9. history' \in [written : SUBSET Order, guessed : SUBSET Order, lost : SUBSET Order]
    BY <1>1, <2>1, <2>7 DEF Plain
  <2>10. Plain'
    BY <1>1, <1>14, <2>8, <2>9 DEF Receive, Plain
  <2> QED
    BY <2>4, <2>5, <2>10, OrderlyPlaced, Placed
<1>15. ASSUME NEW g \in Generation, Hold(g)
      PROVE  Plain' /\ task' \in [Generation -> Task] /\ \A h \in Generation : Orderly(task'[h])
  <2>1. PICK s : s = [task[g] EXCEPT !.down = Tail(@), !.held = <<Head(task[g].down)>>]
    OBVIOUS
  <2>2. Becomes(g, s) /\ Orderly(s)
    BY <1>1, <1>15, <2>1, HoldFields DEF Orderly, Task
  <2>3. Plain'
    BY <1>1, <1>15, Constants DEF Hold, Plain
  <2> QED
    BY <2>2, <2>3, OrderlyPlaced
<1>16. ASSUME NEW g \in Generation, FlushHeld(g)
      PROVE  Plain' /\ task' \in [Generation -> Task] /\ \A h \in Generation : Orderly(task'[h])
  <2>1. PICK s : s = [task[g] EXCEPT !.pump = @ \o task[g].held, !.held = <<>>]
    OBVIOUS
  <2>2. Becomes(g, s) /\ Orderly(s)
    BY <1>1, <1>16, <2>1, FlushFields DEF Orderly, Task
  <2>3. Plain'
    BY <1>1, <1>16 DEF FlushHeld, Plain
  <2> QED
    BY <2>2, <2>3, OrderlyPlaced
<1>17. ASSUME NEW g \in Generation, Deliver(g)
      PROVE  Plain' /\ task' \in [Generation -> Task] /\ \A h \in Generation : Orderly(task'[h])
  <2>1. PICK s : s = [task[g] EXCEPT !.pump = Tail(@)]
    OBVIOUS
  <2>2. Becomes(g, s) /\ Orderly(s)
    BY <1>1, <1>17, <2>1, DeliverFields DEF Orderly, Task
  <2>3. PICK e : e = Head(task[g].pump)
    OBVIOUS
  <2>4. e \in Event /\ Founded(e)
    BY <1>17, <2>3, PumpHead DEF Deliver
  <2>5. e.order \in Order /\ mirror[e.order] \in Record
    BY <1>1, <2>4 DEF Event, Plain
  <2>6. Applied(mirror[e.order], e) \in Record
    BY <2>4, <2>5, AppliedStatus DEF Founded
  <2>7. mirror' = [mirror EXCEPT ![e.order] = Applied(mirror[e.order], e)]
    BY <1>17, <2>3 DEF Deliver
  <2>8. told' \subseteq Order
    BY <1>1, <1>17, <2>3, <2>5 DEF Deliver, Plain
  <2>9. Plain'
    BY <1>1, <1>17, <2>5, <2>6, <2>7, <2>8 DEF Deliver, Plain
  <2> QED
    BY <2>2, <2>9, OrderlyPlaced
<1>18. ASSUME NEW g \in Generation, VenueHandle(g)
      PROVE  Plain' /\ task' \in [Generation -> Task] /\ \A h \in Generation : Orderly(task'[h])
  <2>1. /\ task' \in [Generation -> Task]
        /\ venue' \in [Order -> [phase : {"unknown", "armed", "open", "closed"}, filled : 0..Quantity]]
        /\ history' \in [written : SUBSET Order, guessed : SUBSET Order, lost : SUBSET Order]
        /\ \E e \in Event : \A h \in Generation :
             task'[h] = Reading(g, h) \/ task'[h] = Heard(Reading(g, h), e)
    BY <1>18, HandleFields
  <2>2. \A h \in Generation : Orderly(task'[h])
    BY <1>1, <2>1, ReadingOrderly
  <2>3. Plain'
    BY <1>1, <1>18, <2>1 DEF VenueHandle, Plain
  <2> QED
    BY <2>1, <2>2, <2>3
<1>19. ASSUME NEW o \in Order, VenueTriggers(o) \/ VenueFill(o)
      PROVE  Plain' /\ task' \in [Generation -> Task] /\ \A h \in Generation : Orderly(task'[h])
  <2>1. /\ task' \in [Generation -> Task]
        /\ venue' \in [Order -> [phase : {"unknown", "armed", "open", "closed"}, filled : 0..Quantity]]
        /\ history' \in [written : SUBSET Order, guessed : SUBSET Order, lost : SUBSET Order]
        /\ \E e \in Event : \A h \in Generation : task'[h] = task[h] \/ task'[h] = Heard(task[h], e)
    BY <1>19, SpeaksFields
  <2>2. \A h \in Generation : Orderly(task'[h])
    BY <1>1, <2>1, HeardOrderly
  <2>3. Plain'
    BY <1>1, <1>19, <2>1 DEF VenueTriggers, VenueFill, Plain
  <2> QED
    BY <2>1, <2>2, <2>3
<1> QED
  BY <1>2, <1>3, <1>4, <1>5, <1>6, <1>7, <1>8, <1>9, <1>10, <1>11, <1>12, <1>13, <1>14, <1>15,
     <1>16, <1>17, <1>18, <1>19 DEF Next, Host, Venue, Connection, Inbound
----------------------------------------------------------------------------
(* What the tasks owe.                                                     *)

LEMMA SubmitsPlaces ==
  ASSUME NEW cmds, NEW o
  PROVE  o \in Submits(cmds) <=> \E i \in DOMAIN cmds : IsSubmit(cmds, i, o)
BY DEF Submits, IsSubmit

LEMMA MovedUp ==
  ASSUME NEW S, NEW b \in Seq(S), NEW q \in Seq(S), q # <<>>
  PROVE  Append(b, Head(q)) \o Tail(q) = b \o q
<1>1. /\ Len(b) \in Nat /\ Len(q) \in Nat /\ Len(q) > 0
      /\ Head(q) \in S /\ Tail(q) \in Seq(S) /\ Len(Tail(q)) = Len(q) - 1
      /\ \A i \in 1..Len(Tail(q)) : Tail(q)[i] = q[i+1]
      /\ Head(q) = q[1]
  BY LenProperties, HeadTailProperties, EmptySeq
<1>2. PICK a : a = Append(b, Head(q))
  OBVIOUS
<1>3. PICK t : t = Tail(q)
  OBVIOUS
<1>4. /\ a \in Seq(S) /\ Len(a) = Len(b) + 1 /\ a[Len(b) + 1] = q[1]
      /\ \A i \in 1..Len(b) : a[i] = b[i]
  BY <1>1, <1>2, AppendProperties
<1>5. PICK u, v : u = a \o t /\ v = b \o q
  OBVIOUS
<1> a \in Seq(S) /\ t \in Seq(S)
  BY <1>1, <1>3, <1>4
<1>6. /\ u \in Seq(S) /\ Len(u) = Len(a) + Len(t)
      /\ \A i \in 1..Len(a) : i \in 1..Len(u) /\ u[i] = a[i]
      /\ \A i \in 1..Len(u) : i > Len(a) => i - Len(a) \in 1..Len(t) /\ u[i] = t[i - Len(a)]
  BY <1>5, Joined
<1>7. /\ v \in Seq(S) /\ Len(v) = Len(b) + Len(q)
      /\ \A i \in 1..Len(b) : i \in 1..Len(v) /\ v[i] = b[i]
      /\ \A i \in 1..Len(v) : i > Len(b) => i - Len(b) \in 1..Len(q) /\ v[i] = q[i - Len(b)]
  BY <1>5, Joined
<1>8. Len(u) = Len(v)
  BY <1>1, <1>3, <1>4, <1>6, <1>7
<1>9. \A i \in 1..Len(u) : u[i] = v[i]
  <2>1. TAKE i \in 1..Len(u)
  <2>2. CASE i <= Len(b)
    BY <1>1, <1>4, <1>6, <1>7, <2>2
  <2>3. CASE i = Len(b) + 1
    BY <1>1, <1>4, <1>6, <1>7, <1>8, <2>3
  <2>4. CASE i > Len(b) + 1
    <3>1. u[i] = t[i - (Len(b) + 1)] /\ i - (Len(b) + 1) \in 1..Len(t)
      BY <1>1, <1>4, <1>6, <2>4
    <3>2. t[i - (Len(b) + 1)] = q[i - (Len(b) + 1) + 1]
      BY <1>1, <1>3, <3>1
    <3>3. v[i] = q[i - Len(b)]
      BY <1>1, <1>7, <1>8, <2>4
    <3>4. i - (Len(b) + 1) + 1 = i - Len(b)
      BY <1>1
    <3> QED
      BY <3>1, <3>2, <3>3, <3>4
  <2> QED
    BY <1>1, <2>2, <2>3, <2>4
<1>10. u = v
  BY <1>6, <1>7, <1>8, <1>9, SeqEqual
<1> QED
  BY <1>2, <1>3, <1>5, <1>10

\* What b \o q submits, part by part.
LEMMA JoinedSubmits ==
  ASSUME NEW b \in Seq(Command), NEW q \in Seq(Command), NEW w, w = b \o q
  PROVE  /\ Len(b) \in Nat /\ Len(q) \in Nat
         /\ \A i \in Nat : \A o : IsSubmit(w, i, o) <=>
              \/ IsSubmit(b, i, o)
              \/ i > Len(b) /\ IsSubmit(q, i - Len(b), o)
<1>1. /\ Len(b) \in Nat /\ Len(q) \in Nat /\ DOMAIN b = 1..Len(b) /\ DOMAIN q = 1..Len(q)
  BY LenProperties
<1>2. /\ w \in Seq(Command) /\ Len(w) = Len(b) + Len(q)
      /\ \A i \in 1..Len(b) : i \in 1..Len(w) /\ w[i] = b[i]
      /\ \A i \in 1..Len(w) : i > Len(b) => i - Len(b) \in 1..Len(q) /\ w[i] = q[i - Len(b)]
  BY Joined
<1>3. DOMAIN w = 1..Len(w)
  BY <1>2, LenProperties
<1>4. ASSUME NEW i \in Nat, NEW o
      PROVE  IsSubmit(w, i, o) <=> \/ IsSubmit(b, i, o)
                                   \/ i > Len(b) /\ IsSubmit(q, i - Len(b), o)
  <2>1. CASE i \in 1..Len(b)
    BY <1>1, <1>2, <1>3, <2>1 DEF IsSubmit
  <2>2. CASE i > Len(b) /\ i <= Len(w)
    BY <1>1, <1>2, <1>3, <2>2 DEF IsSubmit
  <2>3. CASE i = 0 \/ i > Len(w)
    BY <1>1, <1>2, <1>3, <2>3 DEF IsSubmit
  <2> QED
    BY <1>1, <1>2, <2>1, <2>2, <2>3
<1> QED
  BY <1>1, <1>4

LEMMA AppendedSubmits ==
  ASSUME NEW q \in Seq(Command), NEW c \in Command
  PROVE  \A i \in Nat : \A o : IsSubmit(Append(q, c), i, o) <=>
           \/ IsSubmit(q, i, o)
           \/ i = Len(q) + 1 /\ c.verb = "submit" /\ c.order = o
<1>1. Len(q) \in Nat /\ DOMAIN q = 1..Len(q)
  BY LenProperties
<1>2. PICK a : a = Append(q, c)
  OBVIOUS
<1>3. /\ a \in Seq(Command) /\ Len(a) = Len(q) + 1
      /\ \A i \in 1..Len(q) : a[i] = q[i]
      /\ a[Len(q) + 1] = c
  BY <1>2, AppendProperties
<1>4. DOMAIN a = 1..(Len(q) + 1)
  BY <1>3, LenProperties
<1>5. \A i \in Nat : \A o : IsSubmit(a, i, o) <=>
        \/ IsSubmit(q, i, o)
        \/ i = Len(q) + 1 /\ c.verb = "submit" /\ c.order = o
  BY <1>1, <1>3, <1>4 DEF IsSubmit
<1> QED
  BY <1>2, <1>5

LEMMA TailSubmits ==
  ASSUME NEW b \in Seq(Command), b # <<>>
  PROVE  /\ Len(Tail(b)) = Len(b) - 1 /\ Len(b) \in Nat \ {0} /\ Tail(b) \in Seq(Command)
         /\ \A i \in Nat : \A o : IsSubmit(Tail(b), i, o) <=> i > 0 /\ IsSubmit(b, i + 1, o)
<1>1. Len(b) \in Nat \ {0} /\ DOMAIN b = 1..Len(b)
  BY LenProperties, EmptySeq
<1>2. PICK t : t = Tail(b)
  OBVIOUS
<1>3. /\ t \in Seq(Command) /\ Len(t) = Len(b) - 1
      /\ \A i \in 1..Len(t) : t[i] = b[i+1]
  BY <1>2, HeadTailProperties
<1>4. DOMAIN t = 1..(Len(b) - 1)
  BY <1>3, LenProperties
<1>5. \A i \in Nat : \A o : IsSubmit(t, i, o) <=> i > 0 /\ IsSubmit(b, i + 1, o)
  BY <1>1, <1>3, <1>4 DEF IsSubmit
<1> QED
  BY <1>1, <1>2, <1>3, <1>5

\* Owed commands, part by part.
LEMMA OwesParts ==
  ASSUME NEW t \in Task
  PROVE  /\ t.book \in Seq(Command) /\ t.queue \in Seq(Command)
         /\ Len(t.book) \in Nat /\ Len(t.queue) \in Nat
         /\ \A i \in Nat : \A o : IsSubmit(Owed(t), i, o) <=>
              \/ IsSubmit(t.book, i, o)
              \/ i > Len(t.book) /\ IsSubmit(t.queue, i - Len(t.book), o)
<1>1. t.book \in Seq(Command) /\ t.queue \in Seq(Command)
  BY DEF Task
<1>2. PICK b, q, w : b = t.book /\ q = t.queue /\ w = Owed(t)
  OBVIOUS
<1>3. b \in Seq(Command) /\ q \in Seq(Command) /\ w = b \o q
  BY <1>1, <1>2 DEF Owed
<1>4. /\ Len(b) \in Nat /\ Len(q) \in Nat
      /\ \A i \in Nat : \A o : IsSubmit(w, i, o) <=>
           IsSubmit(b, i, o) \/ (i > Len(b) /\ IsSubmit(q, i - Len(b), o))
  BY <1>3, JoinedSubmits
<1> QED
  BY <1>1, <1>2, <1>4, Zenon

LEMMA NothingSubmits == \A i, o : ~IsSubmit(<<>>, i, o)
BY DEF IsSubmit

\* What the tasks owe, stated by place.
Owing == \A o \in Order : mirror[o].status = "submitted" =>
           o \in history.written \/ \E g \in Generation, i \in Nat : Owes(g, i, o)
Debts == Owing /\ Sole /\ Waits

LEMMA OwingIsNothingVanishes ==
  ASSUME TypeOK
  PROVE  Owing <=> NothingVanishes
<1>1. \A g \in Generation : DOMAIN Owed(task[g]) \subseteq Nat
  <2>1. TAKE g \in Generation
  <2>2. Owed(task[g]) \in Seq(Command)
    BY OwedSeq
  <2> QED
    BY <2>2, LenProperties
<1>2. \A g \in Generation, o \in Order :
        o \in Submits(Owed(task[g])) <=> \E i \in Nat : Owes(g, i, o)
  BY <1>1, SubmitsPlaces DEF Owes, IsSubmit
<1> QED
  BY <1>2 DEF Owing, NothingVanishes

\* An order keeps its status, or leaves the ones nobody waits with.
Settles(o) == \/ mirror'[o].status = mirror[o].status
              \/ /\ mirror'[o].status # "submitted"
                 /\ o \in Sent \/ mirror[o].status # "submitted"

LEMMA SoleUse ==
  ASSUME Debts, NEW g \in Generation, NEW h \in Generation, NEW i \in Nat, NEW j \in Nat,
         NEW o \in Order, Owes(g, i, o), Owes(h, j, o)
  PROVE  g = h /\ i = j
BY DEF Debts, Sole

LEMMA WaitsUse ==
  ASSUME Debts, NEW g \in Generation, NEW i \in Nat, NEW o \in Order, Owes(g, i, o)
  PROVE  IF task[g].sending /\ i = 1 THEN o \in history.written
         ELSE mirror[o].status = "submitted" /\ o \notin Sent
BY DEF Debts, Waits

\* Nobody takes on, passes on or writes off a command.
LEMMA DebtsStand ==
  ASSUME Debts, \A o \in Order : Settles(o),
         \A h \in Generation, i \in Nat, o \in Order : Owes(h, i, o)' <=> Owes(h, i, o),
         \A h \in Generation : task'[h].sending = task[h].sending,
         history'.written = history.written, history'.guessed = history.guessed
  PROVE  Debts'
<1>1. Owing'
  <2>1. \A o \in Order : mirror'[o].status = "submitted" => mirror[o].status = "submitted"
    BY DEF Settles
  <2>2. ASSUME NEW o \in Order, mirror'[o].status = "submitted"
        PROVE  o \in history'.written \/ \E g \in Generation, i \in Nat : Owes(g, i, o)'
    BY <2>1, <2>2 DEF Debts, Owing
  <2> QED
    BY <2>2 DEF Owing, Generation
<1>2. Sole'
  BY DEF Debts, Sole, Generation
<1>3. Waits'
  <2>1. ASSUME NEW g \in Generation, NEW i \in Nat, NEW o \in Order, Owes(g, i, o)'
        PROVE  IF task'[g].sending /\ i = 1 THEN o \in history'.written
               ELSE mirror'[o].status = "submitted" /\ o \notin Sent'
    <3>1. IF task[g].sending /\ i = 1 THEN o \in history.written
          ELSE mirror[o].status = "submitted" /\ o \notin Sent
      BY <2>1 DEF Debts, Waits
    <3>2. Sent' = Sent
      BY DEF Sent
    <3> QED
      BY <3>1, <3>2 DEF Settles
  <2> QED
    BY <2>1 DEF Waits, Generation
<1> QED
  BY <1>1, <1>2, <1>3 DEF Debts

\* A submit of an order nobody knew.
LEMMA DebtTaken ==
  ASSUME Debts, Known, NEW c \in Generation, NEW p \in Order, NEW n \in Nat,
         mirror[p].status = Absent, mirror'[p].status = "submitted",
         \A o \in Order \ {p} : mirror'[o] = mirror[o],
         \A h \in Generation, i \in Nat, o \in Order :
           Owes(h, i, o)' <=> Owes(h, i, o) \/ (h = c /\ i = n + 1 /\ o = p),
         \A h \in Generation : task'[h].sending = task[h].sending,
         task[c].sending => n > 0,
         history' = history
  PROVE  Debts'
<1>1. Absent # "submitted"
  BY DEF Absent
<1>2. p \notin Sent
  BY <1>1 DEF Known
<1>3. \A h \in Generation, i \in Nat : ~Owes(h, i, p)
  BY <1>1, <1>2 DEF Debts, Waits, Sent
<1>4. Owing'
  <2>1. ASSUME NEW o \in Order, mirror'[o].status = "submitted"
        PROVE  o \in history'.written \/ \E g \in Generation, i \in Nat : Owes(g, i, o)'
    <3>1. CASE o = p
      <4>1. Owes(c, n + 1, o)' /\ n + 1 \in Nat
        BY <3>1
      <4> QED
        BY <4>1
    <3>2. CASE o # p
      BY <2>1, <3>2 DEF Debts, Owing
    <3> QED
      BY <3>1, <3>2
  <2> QED
    BY <2>1 DEF Owing, Generation
<1>5. Sole'
  <2>1. ASSUME NEW g \in Generation, NEW h \in Generation, NEW i \in Nat, NEW j \in Nat,
               NEW o \in Order, Owes(g, i, o)', Owes(h, j, o)'
        PROVE  g = h /\ i = j
    BY <1>3, <2>1 DEF Debts, Sole
  <2> QED
    BY <2>1 DEF Sole, Generation
<1>6. Waits'
  <2>1. ASSUME NEW g \in Generation, NEW i \in Nat, NEW o \in Order, Owes(g, i, o)'
        PROVE  IF task'[g].sending /\ i = 1 THEN o \in history'.written
               ELSE mirror'[o].status = "submitted" /\ o \notin Sent'
    <3>1. Sent' = Sent
      BY DEF Sent
    <3>2. CASE o = p
      BY <1>2, <1>3, <2>1, <3>1, <3>2
    <3>3. CASE o # p
      BY <2>1, <3>1, <3>3 DEF Debts, Waits
    <3> QED
      BY <3>2, <3>3
  <2> QED
    BY <2>1 DEF Waits, Generation
<1> QED
  BY <1>4, <1>5, <1>6 DEF Debts

\* The first command of g goes on the wire.
LEMMA DebtWritten ==
  ASSUME Debts, NEW g \in Generation, mirror' = mirror,
         \A h \in Generation, i \in Nat, o \in Order : Owes(h, i, o)' <=> Owes(h, i, o),
         task'[g].sending,
         \A h \in Generation \ {g} : task'[h].sending = task[h].sending,
         \A o \in Order : o \in history'.written <=> o \in history.written \/ Owes(g, 1, o),
         history'.guessed = history.guessed
  PROVE  Debts'
<1>1. Owing'
  <2>1. ASSUME NEW o \in Order, mirror'[o].status = "submitted"
        PROVE  o \in history'.written \/ \E h \in Generation, i \in Nat : Owes(h, i, o)'
    BY <2>1 DEF Debts, Owing
  <2> QED
    BY <2>1 DEF Owing, Generation
<1>2. Sole'
  BY DEF Debts, Sole, Generation
<1>3. Waits'
  <2>1. ASSUME NEW h \in Generation, NEW i \in Nat, NEW o \in Order, Owes(h, i, o)'
        PROVE  IF task'[h].sending /\ i = 1 THEN o \in history'.written
               ELSE mirror'[o].status = "submitted" /\ o \notin Sent'
    <3>1. Owes(h, i, o) /\ 1 \in Nat
      BY <2>1
    <3>2. CASE h = g /\ i = 1
      BY <3>1, <3>2
    <3>3. CASE ~(h = g /\ i = 1)
      <4>1. ~Owes(g, 1, o)
        BY <3>1, <3>3 DEF Debts, Sole
      <4>2. o \in Sent' <=> o \in Sent
        BY <4>1 DEF Sent
      <4>3. IF task[h].sending /\ i = 1 THEN o \in history.written
            ELSE mirror[o].status = "submitted" /\ o \notin Sent
        BY <3>1 DEF Debts, Waits
      <4> QED
        BY <3>3, <4>2, <4>3
    <3> QED
      BY <3>2, <3>3
  <2> QED
    BY <2>1 DEF Waits, Generation
<1> QED
  BY <1>1, <1>2, <1>3 DEF Debts

\* What g has written is off its hands.
LEMMA DebtRetired ==
  ASSUME Debts, NEW g \in Generation, mirror' = mirror, history' = history,
         task[g].sending,
         \A h \in Generation \ {g}, i \in Nat, o \in Order : Owes(h, i, o)' <=> Owes(h, i, o),
         \A i \in Nat, o \in Order : Owes(g, i, o)' <=> i > 0 /\ Owes(g, i + 1, o),
         \A i \in Nat, o \in Order : Owes(g, i, o) => i > 0,
         ~task'[g].sending,
         \A h \in Generation \ {g} : task'[h].sending = task[h].sending
  PROVE  Debts'
<1> Sent' = Sent
  BY DEF Sent
<1>1. Owing'
  <2>1. ASSUME NEW o \in Order, mirror'[o].status = "submitted"
        PROVE  o \in history'.written \/ \E h \in Generation, i \in Nat : Owes(h, i, o)'
    <3>1. o \in history.written \/ \E h \in Generation, i \in Nat : Owes(h, i, o)
      BY <2>1 DEF Debts, Owing
    <3>2. ASSUME NEW h \in Generation, NEW i \in Nat, Owes(h, i, o), o \notin history.written
          PROVE  \E k \in Generation, j \in Nat : Owes(k, j, o)'
      <4>1. CASE h # g
        BY <3>2, <4>1
      <4>2. CASE h = g
        <5>1. i # 1 /\ i > 0
          BY <3>2, <4>2 DEF Debts, Waits
        <5>2. i - 1 \in Nat /\ i - 1 > 0 /\ (i - 1) + 1 = i
          BY <5>1
        <5>3. Owes(g, i - 1, o)'
          BY <3>2, <4>2, <5>2
        <5> QED
          BY <5>2, <5>3
      <4> QED
        BY <4>1, <4>2
    <3> QED
      BY <3>1, <3>2
  <2> QED
    BY <2>1 DEF Owing, Generation
<1>2. Sole'
  <2>1. ASSUME NEW k \in Generation, NEW h \in Generation, NEW i \in Nat, NEW j \in Nat,
               NEW o \in Order, Owes(k, i, o)', Owes(h, j, o)'
        PROVE  k = h /\ i = j
    <3>1. Owes(k, IF k = g THEN i + 1 ELSE i, o) /\ Owes(h, IF h = g THEN j + 1 ELSE j, o)
      BY <2>1
    <3> QED
      BY <3>1 DEF Debts, Sole
  <2> QED
    BY <2>1 DEF Sole, Generation
<1>3. Waits'
  <2>1. ASSUME NEW h \in Generation, NEW i \in Nat, NEW o \in Order, Owes(h, i, o)'
        PROVE  IF task'[h].sending /\ i = 1 THEN o \in history'.written
               ELSE mirror'[o].status = "submitted" /\ o \notin Sent'
    <3>1. CASE h # g
      BY <2>1, <3>1 DEF Debts, Waits
    <3>2. CASE h = g
      <4>1. Owes(g, i + 1, o) /\ i + 1 # 1 /\ i + 1 \in Nat
        BY <2>1, <3>2
      <4> QED
        BY <3>2, <4>1 DEF Debts, Waits
    <3> QED
      BY <3>1, <3>2
  <2> QED
    BY <2>1 DEF Waits, Generation
<1> QED
  BY <1>1, <1>2, <1>3 DEF Debts

\* The first n commands of g are reported, and these guesses are part of them.
LEMMA DebtReported ==
  ASSUME Debts, NEW g \in Generation, NEW n \in Nat, NEW guesses,
         \A h \in Generation \ {g}, i \in Nat, o \in Order : Owes(h, i, o)' <=> Owes(h, i, o),
         \A i \in Nat, o \in Order : Owes(g, i, o)' <=> i > 0 /\ Owes(g, i + n, o),
         \A i \in Nat, o \in Order : Owes(g, i, o) => i > 0,
         ~task'[g].sending,
         \A h \in Generation \ {g} : task'[h].sending = task[h].sending,
         task[g].sending => n > 0,
         history'.written = history.written,
         \A o \in Order : o \in history'.guessed <=> o \in history.guessed \cup guesses,
         \A o \in Order : o \in guesses => \E i \in 1..n : Owes(g, i, o),
         \A o \in Order : IF (\E i \in 1..n : Owes(g, i, o)) /\ mirror[o].status = "submitted"
                          THEN mirror'[o].status # "submitted"
                          ELSE mirror'[o] = mirror[o]
  PROVE  Debts'
<1>1. Owing'
  <2>1. ASSUME NEW o \in Order, mirror'[o].status = "submitted"
        PROVE  o \in history'.written \/ \E h \in Generation, i \in Nat : Owes(h, i, o)'
    <3>1. mirror[o].status = "submitted" /\ ~\E i \in 1..n : Owes(g, i, o)
      BY <2>1
    <3>2. o \in history.written \/ \E h \in Generation, i \in Nat : Owes(h, i, o)
      BY <3>1 DEF Debts, Owing
    <3>3. ASSUME NEW h \in Generation, NEW i \in Nat, Owes(h, i, o)
          PROVE  \E k \in Generation, j \in Nat : Owes(k, j, o)'
      <4>1. CASE h # g
        BY <3>3, <4>1
      <4>2. CASE h = g
        <5>1. i > n
          BY <3>1, <3>3, <4>2
        <5>2. i - n \in Nat /\ i - n > 0 /\ (i - n) + n = i
          BY <5>1
        <5>3. Owes(g, i - n, o)'
          BY <3>3, <4>2, <5>2
        <5> QED
          BY <5>2, <5>3
      <4> QED
        BY <4>1, <4>2
    <3> QED
      BY <3>2, <3>3
  <2> QED
    BY <2>1 DEF Owing, Generation
<1>2. Sole'
  <2>1. ASSUME NEW k \in Generation, NEW h \in Generation, NEW i \in Nat, NEW j \in Nat,
               NEW o \in Order, Owes(k, i, o)', Owes(h, j, o)'
        PROVE  k = h /\ i = j
    <3>1. CASE k = g /\ h = g
      <4>1. Owes(g, i + n, o) /\ Owes(g, j + n, o) /\ i + n \in Nat /\ j + n \in Nat
        BY <2>1, <3>1
      <4>2. i + n = j + n
        BY <4>1 DEF Debts, Sole
      <4> QED
        BY <3>1, <4>2
    <3>2. CASE k = g /\ h # g
      <4>1. Owes(g, i + n, o) /\ Owes(h, j, o) /\ i + n \in Nat
        BY <2>1, <3>2
      <4> QED
        BY <3>2, <4>1 DEF Debts, Sole
    <3>3. CASE k # g /\ h = g
      <4>1. Owes(k, i, o) /\ Owes(g, j + n, o) /\ j + n \in Nat
        BY <2>1, <3>3
      <4> QED
        BY <3>3, <4>1 DEF Debts, Sole
    <3>4. CASE k # g /\ h # g
      BY <2>1, <3>4 DEF Debts, Sole
    <3> QED
      BY <3>1, <3>2, <3>3, <3>4
  <2> QED
    BY <2>1 DEF Sole, Generation
<1>3. Waits'
  <2>1. ASSUME NEW h \in Generation, NEW i \in Nat, NEW o \in Order, Owes(h, i, o)'
        PROVE  IF task'[h].sending /\ i = 1 THEN o \in history'.written
               ELSE mirror'[o].status = "submitted" /\ o \notin Sent'
    <3>1. PICK m \in Nat : /\ Owes(h, m, o)
                           /\ h # g => m = i
                           /\ h = g => m > n /\ (task[g].sending => m > 1)
      <4>1. CASE h # g
        BY <2>1, <4>1
      <4>2. CASE h = g
        <5>1. Owes(g, i + n, o) /\ i > 0
          BY <2>1, <4>2
        <5>2. i + n \in Nat /\ i + n > n /\ (task[g].sending => i + n > 1)
          BY <5>1
        <5> QED
          BY <4>2, <5>1, <5>2
      <4> QED
        BY <4>1, <4>2
    <3>2. ~\E j \in 1..n : Owes(g, j, o)
      <4> SUFFICES ASSUME NEW j \in 1..n, Owes(g, j, o) PROVE FALSE
        OBVIOUS
      <4>1. j \in Nat /\ Owes(h, m, o)
        BY <3>1
      <4>2. h = g /\ m = j
        BY <4>1, SoleUse
      <4> QED
        BY <3>1, <4>2
    <3>3. mirror'[o] = mirror[o] /\ o \notin guesses
      BY <3>2
    <3>4. o \in Sent' <=> o \in Sent
      BY <3>3 DEF Sent
    <3>5. IF task[h].sending /\ m = 1 THEN o \in history.written
          ELSE mirror[o].status = "submitted" /\ o \notin Sent
      BY <3>1, WaitsUse
    <3>6. CASE h = g
      <4>1. ~(task[h].sending /\ m = 1) /\ ~task'[h].sending
        BY <3>1, <3>6
      <4> QED
        BY <3>3, <3>4, <3>5, <4>1
    <3>7. CASE h # g
      BY <3>1, <3>3, <3>4, <3>5, <3>7
    <3> QED
      BY <3>6, <3>7
  <2> QED
    BY <2>1 DEF Waits, Generation
<1> QED
  BY <1>1, <1>2, <1>3 DEF Debts

\* What the tasks owe once that of g has become s.
LEMMA BecomesOwes ==
  ASSUME NEW g \in Generation, NEW s, Becomes(g, s)
  PROVE  /\ \A h \in Generation \ {g}, i \in Nat, o \in Order : Owes(h, i, o)' <=> Owes(h, i, o)
         /\ \A h \in Generation \ {g} : task'[h].sending = task[h].sending
         /\ \A i \in Nat, o \in Order : Owes(g, i, o)' <=> IsSubmit(Owed(s), i, o)
         /\ task'[g].sending = s.sending
BY DEF Becomes, Owes

\* The commands and receipts stay where they are.
Keeps == \A h \in Generation : /\ \A i \in Nat, o \in Order : Owes(h, i, o)' <=> Owes(h, i, o)
                               /\ task'[h].sending = task[h].sending

LEMMA LanesKept ==
  ASSUME \A h \in Generation : /\ task'[h].book = task[h].book /\ task'[h].queue = task[h].queue
                               /\ task'[h].sending = task[h].sending
  PROVE  Keeps
<1>1. \A h \in Generation : Owed(task'[h]) = Owed(task[h])
  BY DEF Owed
<1> QED
  BY <1>1 DEF Keeps, Owes

LEMMA BecomesKeeps ==
  ASSUME NEW g \in Generation, NEW s, Becomes(g, s), Owed(s) = Owed(task[g]),
         s.sending = task[g].sending
  PROVE  Keeps
BY BecomesOwes DEF Keeps, Owes

\* A task with the commands, receipts and sending of another.
Alike(s, t) == s.book = t.book /\ s.queue = t.queue /\ s.sending = t.sending

LEMMA BecomesAlike ==
  ASSUME NEW g \in Generation, NEW s, Becomes(g, s), Alike(s, task[g])
  PROVE  Keeps
BY BecomesKeeps DEF Alike, Owed

LEMMA AlikeExcept ==
  ASSUME NEW t \in Task, NEW x, NEW y, NEW z
  PROVE  /\ Alike([t EXCEPT !.stopping = x], t) /\ Alike([t EXCEPT !.ready = x], t)
         /\ Alike([t EXCEPT !.phase = x, !.up = y], t) /\ Alike([t EXCEPT !.up = x], t)
         /\ Alike([t EXCEPT !.down = x, !.held = y, !.pump = z], t)
         /\ Alike([t EXCEPT !.down = x, !.held = y], t)
         /\ Alike([t EXCEPT !.pump = x, !.held = y], t)
         /\ Alike([t EXCEPT !.pump = x], t) /\ Alike([t EXCEPT !.down = x], t)
BY DEF Alike, Task

LEMMA AllAlike ==
  ASSUME \A h \in Generation : Alike(task'[h], task[h])
  PROVE  Keeps
BY LanesKept DEF Alike

LEMMA FirstIsOne ==
  ASSUME TypeOK, NEW g \in Generation
  PROVE  \A i \in Nat, o \in Order : Owes(g, i, o) => i > 0
<1>1. DOMAIN Owed(task[g]) = 1..Len(Owed(task[g])) /\ Len(Owed(task[g])) \in Nat
  BY OwedSeq, LenProperties
<1> QED
  BY <1>1 DEF Owes, IsSubmit

LEMMA AbortedAlike ==
  ASSUME TypeOK
  PROVE  \A h \in Generation : Alike(Aborted[h], task[h])
<1>1. TAKE h \in Generation
<1>2. PICK x : x = (task[h].phase # "none")
  OBVIOUS
<1>3. Aborted[h] = [task[h] EXCEPT !.stopping = x] /\ task[h] \in Task
  BY <1>2, AbortedFields, Lanes
<1> QED
  BY <1>3, AlikeExcept

LEMMA ReadingIsTask ==
  ASSUME TypeOK, NEW g \in Generation, task[g].up # <<>>, NEW h \in Generation
  PROVE  Reading(g, h) \in Task
<1>1. task[h] \in Task /\ task[g] \in Task
  BY Lanes
<1>2. Tail(task[g].up) \in Seq(Command)
  BY ReadFields
<1> QED
  BY <1>1, <1>2 DEF Reading, Task

LEMMA KeepingSteps ==
  ASSUME TypeOK, Known, Unissued,
         \/ Stop \/ Connect \/ ConnectDone \/ ConnectFails
         \/ \E g \in Generation : \/ Dial(g) \/ TakeCommand(g) \/ Receive(g) \/ Hold(g)
                                  \/ FlushHeld(g) \/ Deliver(g) \/ VenueHandle(g)
         \/ \E o \in Order : VenueTriggers(o) \/ VenueFill(o)
  PROVE  Keeps
<1>0. \A g \in Generation : task[g] \in Task
  BY Lanes
<1>1. CASE Stop \/ ConnectFails
  <2>1. task' = Aborted
    BY <1>1 DEF Stop, ConnectFails
  <2> QED
    BY <2>1, AbortedAlike, AllAlike
<1>2. CASE Connect
  <2>2. /\ issued' \in Generation /\ issued' = issued + 1 /\ issued \in Nat
        /\ task'[issued'] = [NoTask EXCEPT !.phase = "dialing"]
        /\ \A h \in Generation \ {issued'} : task'[h] = Aborted[h]
    BY <1>2, ConnectFields DEF TypeOK
  <2>3. PICK k : k = issued'
    OBVIOUS
  <2>4. k > issued /\ k \in Generation
    BY <2>2, <2>3
  <2>5. task[k].queue = <<>> /\ task[k].book = <<>> /\ task[k].sending = FALSE
    BY <1>0, <2>4 DEF Unissued, Task
  <2>6. task'[k].queue = <<>> /\ task'[k].book = <<>> /\ task'[k].sending = FALSE
    BY <2>2, <2>3 DEF NoTask
  <2>7. \A h \in Generation \ {k} : /\ task'[h].book = task[h].book /\ task'[h].queue = task[h].queue
                                    /\ task'[h].sending = task[h].sending
    BY <2>2, <2>3, AbortedAlike DEF Alike
  <2> QED
    BY <2>5, <2>6, <2>7, LanesKept
<1>3. CASE ConnectDone
  <2>1. channel \in Generation
    BY <1>3, ChannelIsGeneration DEF ConnectDone, Free
  <2>2. Becomes(channel, [task[channel] EXCEPT !.ready = TRUE])
    BY <1>3, <2>1, ReadyFields
  <2> QED
    BY <1>0, <2>1, <2>2, AlikeExcept, BecomesAlike
<1>4. ASSUME NEW g \in Generation, Dial(g) PROVE Keeps
  BY <1>0, <1>4, DialFields, AlikeExcept, BecomesAlike
<1>5. ASSUME NEW g \in Generation, TakeCommand(g) PROVE Keeps
  <2>1. PICK s : s = [task[g] EXCEPT !.book = Append(@, Head(task[g].queue)), !.queue = Tail(@)]
    OBVIOUS
  <2>2. Becomes(g, s)
    BY <1>5, <2>1, TakeFields
  <2>3. /\ s.sending = task[g].sending
        /\ s.book = Append(task[g].book, Head(task[g].queue)) /\ s.queue = Tail(task[g].queue)
    BY <1>0, <2>1 DEF Task
  <2>4. task[g].book \in Seq(Command) /\ task[g].queue \in Seq(Command) /\ task[g].queue # <<>>
    BY <1>5, Lanes DEF TakeCommand
  <2>5. Append(task[g].book, Head(task[g].queue)) \o Tail(task[g].queue) = task[g].book \o task[g].queue
    BY <2>4, MovedUp
  <2>6. Owed(s) = Owed(task[g])
    BY <2>3, <2>5 DEF Owed
  <2> QED
    BY <2>2, <2>3, <2>6, BecomesKeeps
<1>6. ASSUME NEW g \in Generation, Receive(g) PROVE Keeps
  <2>1. PICK out \in Tampered(<<Head(task[g].down)>> \o task[g].held) :
          task' = [task EXCEPT ![g].down = Tail(@), ![g].held = <<>>, ![g].pump = @ \o out[1]]
    BY <1>6 DEF Receive
  <2>2. PICK d, p : d = Tail(task[g].down) /\ p = task[g].pump \o out[1]
    OBVIOUS
  <2>3. task' = [task EXCEPT ![g] = [task[g] EXCEPT !.down = d, !.held = <<>>, !.pump = p]]
    BY <1>0, <2>1, <2>2 DEF TypeOK
  <2>4. \A h \in Generation :
          task'[h] = IF h = g THEN [task[g] EXCEPT !.down = d, !.held = <<>>, !.pump = p] ELSE task[h]
    BY <2>3 DEF TypeOK
  <2>5. \A h \in Generation : Alike(task'[h], task[h])
    <3>1. TAKE h \in Generation
    <3>2. CASE h = g
      <4>1. Alike([task[g] EXCEPT !.down = d, !.held = <<>>, !.pump = p], task[g])
        BY <1>0, AlikeExcept
      <4> QED
        BY <2>4, <3>2, <4>1
    <3>3. CASE h # g
      BY <2>4, <3>3 DEF Alike
    <3> QED
      BY <3>2, <3>3
  <2> QED
    BY <2>5, AllAlike
<1>7. ASSUME NEW g \in Generation, Hold(g) PROVE Keeps
  BY <1>0, <1>7, HoldFields, AlikeExcept, BecomesAlike
<1>8. ASSUME NEW g \in Generation, FlushHeld(g) PROVE Keeps
  BY <1>0, <1>8, FlushFields, AlikeExcept, BecomesAlike
<1>9. ASSUME NEW g \in Generation, Deliver(g) PROVE Keeps
  BY <1>0, <1>9, DeliverFields, AlikeExcept, BecomesAlike
<1>10. ASSUME NEW g \in Generation, VenueHandle(g) PROVE Keeps
  <2>1. PICK e \in Event : \A h \in Generation :
             task'[h] = Reading(g, h) \/ task'[h] = Heard(Reading(g, h), e)
    BY <1>10, HandleFields
  <2>2. \A h \in Generation : Alike(task'[h], task[h])
    <3>1. TAKE h \in Generation
    <3>2. Alike(Reading(g, h), task[h]) /\ Reading(g, h) \in Task
      BY <1>0, <1>10, ReadingIsTask, AlikeExcept DEF Reading, Alike, VenueHandle
    <3>3. Alike(Heard(Reading(g, h), e), Reading(g, h))
      BY <3>2, AlikeExcept DEF Heard
    <3> QED
      BY <2>1, <3>2, <3>3 DEF Alike
  <2> QED
    BY <2>2, AllAlike
<1>11. ASSUME NEW o \in Order, VenueTriggers(o) \/ VenueFill(o) PROVE Keeps
  <2>1. PICK e \in Event : \A h \in Generation : task'[h] = task[h] \/ task'[h] = Heard(task[h], e)
    BY <1>11, SpeaksFields
  <2>2. \A h \in Generation : Alike(task'[h], task[h])
    <3>1. TAKE h \in Generation
    <3>2. Alike(task[h], task[h]) /\ Alike(Heard(task[h], e), task[h])
      BY <1>0, AlikeExcept DEF Heard, Alike
    <3> QED
      BY <2>1, <3>2
  <2> QED
    BY <2>2, AllAlike
<1> QED
  BY <1>1, <1>2, <1>3, <1>4, <1>5, <1>6, <1>7, <1>8, <1>9, <1>10, <1>11

\* A delivered frame is about an order that was sent, so no debt rests on it.
LEMMA DeliverSettles ==
  ASSUME TypeOK, Known, Frames, NEW g \in Generation, Deliver(g)
  PROVE  /\ Head(task[g].pump) \in Event /\ Founded(Head(task[g].pump))
         /\ \A o \in Order : IF o = Head(task[g].pump).order
                             THEN mirror'[o] = Applied(mirror[o], Head(task[g].pump))
                             ELSE mirror'[o] = mirror[o]
         /\ \A o \in Order : Settles(o)
<1>1. PICK e : e = Head(task[g].pump)
  OBVIOUS
<1>2. e \in Event /\ Founded(e)
  BY <1>1, PumpHead DEF Deliver
<1>3. /\ mirror \in [Order -> Record] /\ e.order \in Order
      /\ mirror' = [mirror EXCEPT ![e.order] = Applied(@, e)]
  BY <1>1, <1>2 DEF TypeOK, Event, Deliver
<1>4. \A o \in Order : mirror'[o] = IF o = e.order THEN Applied(mirror[o], e) ELSE mirror[o]
  BY <1>3
<1>5. e.order \in Sent
  BY <1>2, <1>3 DEF Founded, Known
<1>6. mirror[e.order] \in Record
  BY <1>3
<1>7. Applied(mirror[e.order], e).status = "submitted" => mirror[e.order].status = "submitted"
  BY <1>2, <1>6, AppliedStatus DEF Founded
<1>8. \A o \in Order : Settles(o)
  BY <1>4, <1>5, <1>7 DEF Settles
<1> QED
  BY <1>1, <1>2, <1>4, <1>8

LEMMA QueuedOwes ==
  ASSUME TypeOK, NEW g \in Generation, NEW c \in Command, NEW s,
         s \in Task, s.book = task[g].book, s.queue = Append(task[g].queue, c)
  PROVE  /\ Len(task[g].book) \in Nat /\ Len(task[g].queue) \in Nat
         /\ \A i \in Nat : \A o : IsSubmit(Owed(s), i, o) <=>
              \/ IsSubmit(Owed(task[g]), i, o)
              \/ i = Len(task[g].book) + Len(task[g].queue) + 1 /\ c.verb = "submit" /\ c.order = o
<1>1. PICK t : t = task[g]
  OBVIOUS
<1>2. t \in Task
  BY <1>1, Lanes
<1>3. /\ t.book \in Seq(Command) /\ t.queue \in Seq(Command)
      /\ Len(t.book) \in Nat /\ Len(t.queue) \in Nat
      /\ \A i \in Nat : \A o : IsSubmit(Owed(t), i, o) <=>
           IsSubmit(t.book, i, o) \/ (i > Len(t.book) /\ IsSubmit(t.queue, i - Len(t.book), o))
  BY <1>2, OwesParts
<1>4. s.book = t.book /\ s.queue = Append(t.queue, c)
  BY <1>1
<1>5. \A i \in Nat : \A o : IsSubmit(Owed(s), i, o) <=>
        IsSubmit(s.book, i, o) \/ (i > Len(s.book) /\ IsSubmit(s.queue, i - Len(s.book), o))
  BY OwesParts
<1>6. \A i \in Nat : \A o : IsSubmit(Append(t.queue, c), i, o) <=>
        IsSubmit(t.queue, i, o) \/ (i = Len(t.queue) + 1 /\ c.verb = "submit" /\ c.order = o)
  BY <1>3, AppendedSubmits
<1>7. ASSUME NEW i \in Nat, NEW o
      PROVE  IsSubmit(Owed(s), i, o) <=>
               \/ IsSubmit(Owed(t), i, o)
               \/ i = Len(t.book) + Len(t.queue) + 1 /\ c.verb = "submit" /\ c.order = o
  <2>1. IsSubmit(Owed(s), i, o) <=>
          IsSubmit(t.book, i, o) \/ (i > Len(t.book) /\ IsSubmit(Append(t.queue, c), i - Len(t.book), o))
    BY <1>4, <1>5
  <2>2. i > Len(t.book) =>
          /\ i - Len(t.book) \in Nat
          /\ i - Len(t.book) = Len(t.queue) + 1 <=> i = Len(t.book) + Len(t.queue) + 1
    <3>1. PICK m, n : m = Len(t.book) /\ n = Len(t.queue)
      OBVIOUS
    <3>2. m \in Nat /\ n \in Nat
      BY <1>3, <3>1
    <3>3. i > m => i - m \in Nat /\ (i - m = n + 1 <=> i = m + n + 1)
      BY <3>2
    <3> QED
      BY <3>1, <3>3
  <2>3. i > Len(t.book) =>
          (IsSubmit(Append(t.queue, c), i - Len(t.book), o) <=>
             \/ IsSubmit(t.queue, i - Len(t.book), o)
             \/ i - Len(t.book) = Len(t.queue) + 1 /\ c.verb = "submit" /\ c.order = o)
    <3> SUFFICES ASSUME i > Len(t.book)
                 PROVE  IsSubmit(Append(t.queue, c), i - Len(t.book), o) <=>
                          \/ IsSubmit(t.queue, i - Len(t.book), o)
                          \/ i - Len(t.book) = Len(t.queue) + 1 /\ c.verb = "submit" /\ c.order = o
      OBVIOUS
    <3>1. PICK j : j = i - Len(t.book)
      OBVIOUS
    <3>2. j \in Nat
      BY <2>2, <3>1
    <3> QED
      BY <1>6, <3>1, <3>2, Zenon
  <2>4. i = Len(t.book) + Len(t.queue) + 1 => i > Len(t.book)
    <3>1. PICK m, n : m = Len(t.book) /\ n = Len(t.queue)
      OBVIOUS
    <3>2. m \in Nat /\ n \in Nat
      BY <1>3, <3>1
    <3>3. i = m + n + 1 => i > m
      BY <3>2
    <3> QED
      BY <3>1, <3>3
  <2>5. IsSubmit(Owed(t), i, o) <=>
          IsSubmit(t.book, i, o) \/ (i > Len(t.book) /\ IsSubmit(t.queue, i - Len(t.book), o))
    BY <1>3
  <2> QED
    BY <2>1, <2>2, <2>3, <2>4, <2>5
<1> QED
  BY <1>1, <1>3, <1>7

\* The receipts as the first commands owed.
LEMMA BookOwes ==
  ASSUME TypeOK, NEW g \in Generation
  PROVE  /\ Len(task[g].book) \in Nat
         /\ \A o : o \in Submits(task[g].book) <=> \E i \in 1..Len(task[g].book) : Owes(g, i, o)
<1>1. PICK t : t = task[g]
  OBVIOUS
<1>2. t \in Task
  BY <1>1, Lanes
<1>3. /\ t.book \in Seq(Command) /\ Len(t.book) \in Nat
      /\ \A i \in Nat : \A o : IsSubmit(Owed(t), i, o) <=>
           IsSubmit(t.book, i, o) \/ (i > Len(t.book) /\ IsSubmit(t.queue, i - Len(t.book), o))
  BY <1>2, OwesParts
<1>4. DOMAIN t.book = 1..Len(t.book)
  BY <1>3, LenProperties
<1>5. \A i \in 1..Len(t.book) : i \in Nat /\ ~(i > Len(t.book))
  BY <1>3
<1>6. \A i \in 1..Len(t.book) : \A o : IsSubmit(Owed(t), i, o) <=> IsSubmit(t.book, i, o)
  BY <1>3, <1>5
<1>7. \A o : o \in Submits(t.book) <=> \E i \in 1..Len(t.book) : IsSubmit(t.book, i, o)
  BY <1>4, SubmitsPlaces
<1> QED
  BY <1>1, <1>3, <1>6, <1>7 DEF Owes

\* Everything owed.
LEMMA AllOwes ==
  ASSUME TypeOK, NEW g \in Generation
  PROVE  /\ Len(Owed(task[g])) \in Nat
         /\ \A o : o \in Submits(Owed(task[g])) <=> \E i \in 1..Len(Owed(task[g])) : Owes(g, i, o)
         /\ \A i \in Nat, o \in Order : Owes(g, i, o) => i \in 1..Len(Owed(task[g]))
         /\ task[g].sending => Len(task[g].book) > 0 /\ Len(Owed(task[g])) > 0
<1>1. Owed(task[g]) \in Seq(Command) /\ Len(Owed(task[g])) = Len(task[g].book) + Len(task[g].queue)
  BY OwedSeq
<1>2. DOMAIN Owed(task[g]) = 1..Len(Owed(task[g])) /\ Len(Owed(task[g])) \in Nat
  BY <1>1, LenProperties
<1>3. \A o : o \in Submits(Owed(task[g])) <=> \E i \in 1..Len(Owed(task[g])) : Owes(g, i, o)
  BY <1>2, SubmitsPlaces DEF Owes
<1>4. \A i \in Nat, o \in Order : Owes(g, i, o) => i \in 1..Len(Owed(task[g]))
  BY <1>2 DEF Owes, IsSubmit
<1>5. task[g].book \in Seq(Command) /\ task[g].queue \in Seq(Command)
      /\ (task[g].sending => task[g].book # <<>>)
  BY Lanes DEF TypeOK
<1>6. /\ Len(task[g].book) \in Nat /\ Len(task[g].queue) \in Nat
      /\ (task[g].sending => Len(task[g].book) > 0)
  BY <1>5, LenProperties, EmptySeq
<1>7. task[g].sending => Len(Owed(task[g])) > 0
  <2>1. PICK m, n : m = Len(task[g].book) /\ n = Len(task[g].queue)
    OBVIOUS
  <2>2. Len(Owed(task[g])) = m + n /\ m \in Nat /\ n \in Nat /\ (task[g].sending => m > 0)
    BY <1>1, <1>6, <2>1
  <2> QED
    BY <2>2
<1> QED
  BY <1>2, <1>3, <1>4, <1>6, <1>7, Zenon

LEMMA HeadOwes ==
  ASSUME TypeOK, NEW g \in Generation, task[g].book # <<>>
  PROVE  \A o : o \in Submits(<<Head(task[g].book)>>) <=> Owes(g, 1, o)
<1>1. PICK b : b = task[g].book
  OBVIOUS
<1>2. b \in Seq(Command) /\ b # <<>>
  BY <1>1, Lanes
<1>3. Len(b) \in Nat \ {0} /\ DOMAIN b = 1..Len(b) /\ Head(b) = b[1]
  BY <1>2, LenProperties, EmptySeq
<1>4. \A o : o \in Submits(<<Head(b)>>) <=> IsSubmit(b, 1, o)
  <2>1. DOMAIN <<Head(b)>> = {1} /\ <<Head(b)>>[1] = Head(b)
    OBVIOUS
  <2> QED
    BY <1>3, <2>1 DEF Submits, IsSubmit
<1>5. \A o : IsSubmit(Owed(task[g]), 1, o) <=> IsSubmit(task[g].book, 1, o)
  <2>1. task[g] \in Task
    BY Lanes
  <2>2. PICK t : t = task[g]
    OBVIOUS
  <2>3. \A i \in Nat : \A o : IsSubmit(Owed(t), i, o) <=>
           IsSubmit(t.book, i, o) \/ (i > Len(t.book) /\ IsSubmit(t.queue, i - Len(t.book), o))
    BY <2>1, <2>2, OwesParts
  <2>4. ~(1 > Len(t.book)) /\ 1 \in Nat
    BY <1>1, <1>3, <2>2
  <2> QED
    BY <2>2, <2>3, <2>4
<1> QED
  BY <1>1, <1>4, <1>5 DEF Owes

\* What is left owed once the receipts, or the first of them, are gone.
LEMMA DroppedOwes ==
  ASSUME TypeOK, NEW g \in Generation, NEW s \in Task,
         s.book = <<>>, s.queue = task[g].queue
  PROVE  \A i \in Nat : \A o : IsSubmit(Owed(s), i, o) <=>
           i > 0 /\ IsSubmit(Owed(task[g]), i + Len(task[g].book), o)
<1>1. PICK t, n : t = task[g] /\ n = Len(t.book)
  OBVIOUS
<1>2. t \in Task
  BY <1>1, Lanes
<1>3. /\ t.book \in Seq(Command) /\ n \in Nat
      /\ \A i \in Nat : \A o : IsSubmit(Owed(t), i, o) <=>
           IsSubmit(t.book, i, o) \/ (i > n /\ IsSubmit(t.queue, i - n, o))
  BY <1>1, <1>2, OwesParts
<1>4. DOMAIN t.book = 1..n
  BY <1>1, <1>3, LenProperties
<1>5. \A i \in Nat : \A o : IsSubmit(Owed(s), i, o) <=>
        IsSubmit(s.book, i, o) \/ (i > Len(s.book) /\ IsSubmit(s.queue, i - Len(s.book), o))
  BY OwesParts
<1>6. Len(s.book) = 0
  BY EmptySeq
<1>7. ASSUME NEW i \in Nat, NEW o
      PROVE  IsSubmit(Owed(s), i, o) <=> i > 0 /\ IsSubmit(Owed(t), i + n, o)
  <2>1. IsSubmit(Owed(s), i, o) <=> i > 0 /\ IsSubmit(t.queue, i, o)
    <3>1. ~IsSubmit(s.book, i, o)
      BY NothingSubmits
    <3>2. i - 0 = i
      OBVIOUS
    <3> QED
      BY <1>1, <1>5, <1>6, <3>1, <3>2
  <2>2. CASE i = 0
    BY <2>1, <2>2
  <2>3. CASE i > 0
    <3>1. PICK j : j = i + n
      OBVIOUS
    <3>2. j \in Nat /\ j > n /\ j - n = i
      BY <1>3, <2>3, <3>1
    <3>3. ~IsSubmit(t.book, j, o)
      BY <1>3, <1>4, <3>2 DEF IsSubmit
    <3>4. IsSubmit(Owed(t), j, o) <=> IsSubmit(t.queue, i, o)
      BY <1>3, <3>2, <3>3
    <3> QED
      BY <2>1, <2>3, <3>1, <3>4
  <2> QED
    BY <2>2, <2>3
<1> QED
  BY <1>1, <1>7

LEMMA RetiredOwes ==
  ASSUME TypeOK, NEW g \in Generation, NEW s \in Task, task[g].book # <<>>,
         s.book = Tail(task[g].book), s.queue = task[g].queue
  PROVE  \A i \in Nat : \A o : IsSubmit(Owed(s), i, o) <=>
           i > 0 /\ IsSubmit(Owed(task[g]), i + 1, o)
<1>1. PICK t, n : t = task[g] /\ n = Len(t.book)
  OBVIOUS
<1>2. t \in Task
  BY <1>1, Lanes
<1>3. /\ t.book \in Seq(Command) /\ n \in Nat
      /\ \A i \in Nat : \A o : IsSubmit(Owed(t), i, o) <=>
           IsSubmit(t.book, i, o) \/ (i > n /\ IsSubmit(t.queue, i - n, o))
  BY <1>1, <1>2, OwesParts
<1>4. \A i \in Nat : \A o : IsSubmit(Owed(s), i, o) <=>
        IsSubmit(s.book, i, o) \/ (i > Len(s.book) /\ IsSubmit(s.queue, i - Len(s.book), o))
  BY OwesParts
<1>5. /\ Len(s.book) = n - 1 /\ n > 0
      /\ \A i \in Nat : \A o : IsSubmit(s.book, i, o) <=> i > 0 /\ IsSubmit(t.book, i + 1, o)
  BY <1>1, <1>3, TailSubmits
<1>6. ASSUME NEW i \in Nat, NEW o
      PROVE  IsSubmit(Owed(s), i, o) <=> i > 0 /\ IsSubmit(Owed(t), i + 1, o)
  <2>1. PICK j : j = i + 1
    OBVIOUS
  <2>2. j \in Nat /\ (i > n - 1 <=> j > n) /\ i - (n - 1) = j - n /\ (j > n => i > 0)
    BY <1>3, <1>5, <2>1
  <2>3. IsSubmit(Owed(s), i, o) <=>
          (i > 0 /\ IsSubmit(t.book, j, o)) \/ (j > n /\ IsSubmit(t.queue, j - n, o))
    BY <1>1, <1>4, <1>5, <2>1, <2>2
  <2>4. IsSubmit(Owed(t), j, o) <=> IsSubmit(t.book, j, o) \/ (j > n /\ IsSubmit(t.queue, j - n, o))
    BY <1>3, <2>2
  <2> QED
    BY <2>1, <2>2, <2>3, <2>4
<1> QED
  BY <1>1, <1>6

LEMMA DebtsKept ==
  ASSUME Debts, Keeps, \A o \in Order : Settles(o),
         history'.written = history.written, history'.guessed = history.guessed
  PROVE  Debts'
BY DebtsStand DEF Keeps

LEMMA MirrorSettles ==
  ASSUME mirror' = mirror
  PROVE  \A o \in Order : Settles(o)
BY DEF Settles

LEMMA DebtsSubmit ==
  ASSUME TypeOK, Known, Debts, NEW o \in Order, SubmitOrder(o)
  PROVE  Debts'
<1>1. mirror \in [Order -> Record] /\ mirror[o].status = Absent /\ history' = history
  BY DEF SubmitOrder, TypeOK
<1>2. CASE Accepting
  <2>1. PICK c : c = [verb |-> "submit", order |-> o]
    OBVIOUS
  <2>2. c \in Command /\ c.verb = "submit" /\ c.order = o
    BY <2>1 DEF Command
  <2>3. channel \in Generation
    BY <1>2, ChannelIsGeneration DEF Accepting
  <2>4. PICK g \in Generation : g = channel
    BY <2>3
  <2>5. PICK s : s = [task[g] EXCEPT !.queue = Append(@, c)]
    OBVIOUS
  <2>6. Becomes(g, s)
    BY <1>2, <2>1, <2>2, <2>4, <2>5, QueueFields DEF SubmitOrder
  <2>7. /\ s \in Task /\ s.sending = task[g].sending
        /\ s.book = task[g].book /\ s.queue = Append(task[g].queue, c)
    BY <2>5, <2>6, Lanes DEF Becomes, Task
  <2>8. PICK n : n = Len(task[g].book) + Len(task[g].queue)
    OBVIOUS
  <2>9. /\ n = Len(Owed(task[g])) /\ n \in Nat /\ (task[g].sending => n > 0)
    BY <2>8, OwedSeq, AllOwes
  <2>10. \A i \in Nat : \A p : IsSubmit(Owed(s), i, p) <=>
           IsSubmit(Owed(task[g]), i, p) \/ (i = n + 1 /\ c.verb = "submit" /\ c.order = p)
    <3>1. s \in Task /\ s.book = task[g].book /\ s.queue = Append(task[g].queue, c)
      BY <2>7
    <3>2. \A i \in Nat : \A p : IsSubmit(Owed(s), i, p) <=>
            \/ IsSubmit(Owed(task[g]), i, p)
            \/ i = Len(task[g].book) + Len(task[g].queue) + 1 /\ c.verb = "submit" /\ c.order = p
      BY <2>2, <3>1, QueuedOwes
    <3> QED
      BY <2>8, <3>2
  <2>11. \A h \in Generation, i \in Nat, p \in Order :
           Owes(h, i, p)' <=> Owes(h, i, p) \/ (h = g /\ i = n + 1 /\ p = o)
    <3>1. TAKE h \in Generation, i \in Nat, p \in Order
    <3>2. CASE h # g
      BY <2>6, <3>2, BecomesOwes
    <3>3. CASE h = g
      <4>1. Owes(g, i, p)' <=> IsSubmit(Owed(s), i, p)
        BY <2>6, BecomesOwes
      <4>2. IsSubmit(Owed(s), i, p) <=> Owes(g, i, p) \/ (i = n + 1 /\ p = o)
        BY <2>2, <2>10 DEF Owes
      <4> QED
        BY <3>3, <4>1, <4>2
    <3> QED
      BY <3>2, <3>3
  <2>12. \A h \in Generation : task'[h].sending = task[h].sending
    BY <2>6, <2>7, BecomesOwes
  <2>13. /\ mirror'[o].status = "submitted"
         /\ \A p \in Order \ {o} : mirror'[p] = mirror[p]
    BY <1>1, <1>2 DEF SubmitOrder, Announced
  <2> QED
    <3>1. n \in Nat /\ (task[g].sending => n > 0)
      BY <2>9
    <3>2. mirror[o].status = Absent /\ history' = history
      BY <1>1
    <3> QED
      BY <2>11, <2>12, <2>13, <3>1, <3>2, DebtTaken
<1>3. CASE ~Accepting
  <2>1. mirror' = [mirror EXCEPT ![o] = RejectedHere(Announced)] /\ task' = task
    BY <1>3 DEF SubmitOrder
  <2>2. RejectedHere(Announced).status = "rejected"
    BY DEF RejectedHere, Announced, RejectableBy
  <2>3. \A p \in Order : Settles(p)
    BY <1>1, <2>1, <2>2 DEF Settles, Absent
  <2>4. Keeps
    BY <2>1 DEF Keeps, Owes
  <2> QED
    BY <1>1, <2>3, <2>4, DebtsKept
<1> QED
  BY <1>2, <1>3

LEMMA DebtsChange ==
  ASSUME TypeOK, Debts, NEW o \in Order, NEW verb \in {"cancel", "modify"}, ChangeOrder(verb, o)
  PROVE  Debts'
<1>1. PICK c : c = [verb |-> verb, order |-> o]
  OBVIOUS
<1>2. c \in Command /\ c.verb # "submit"
  BY <1>1 DEF Command
<1>3. channel \in Generation
  BY ChannelIsGeneration DEF ChangeOrder, Accepting
<1>4. PICK g \in Generation : g = channel
  BY <1>3
<1>5. PICK s : s = [task[g] EXCEPT !.queue = Append(@, c)]
  OBVIOUS
<1>6. Becomes(g, s)
  BY <1>1, <1>2, <1>4, <1>5, QueueFields DEF ChangeOrder
<1>7. /\ s \in Task /\ s.sending = task[g].sending
      /\ s.book = task[g].book /\ s.queue = Append(task[g].queue, c)
  BY <1>5, <1>6, Lanes DEF Becomes, Task
<1>8. \A i \in Nat : \A p : IsSubmit(Owed(s), i, p) <=> IsSubmit(Owed(task[g]), i, p)
  BY <1>2, <1>7, QueuedOwes
<1>9. Keeps
  BY <1>6, <1>7, <1>8, BecomesOwes DEF Keeps, Owes
<1>10. mirror' = mirror /\ history' = history
  BY DEF ChangeOrder
<1> QED
  BY <1>9, <1>10, MirrorSettles, DebtsKept

LEMMA DebtsWrite ==
  ASSUME TypeOK, Debts, NEW g \in Generation, WriteFrame(g)
  PROVE  Debts'
<1>1. PICK s : s = [task[g] EXCEPT !.up = Append(@, Head(task[g].book)), !.sending = TRUE]
  OBVIOUS
<1>2. Becomes(g, s)
  BY <1>1, WriteFields
<1>3. s.sending /\ s.book = task[g].book /\ s.queue = task[g].queue
  BY <1>1, Lanes DEF Task
<1>4. Owed(s) = Owed(task[g])
  BY <1>3 DEF Owed
<1>5. \A h \in Generation, i \in Nat, o \in Order : Owes(h, i, o)' <=> Owes(h, i, o)
  <2>1. TAKE h \in Generation, i \in Nat, o \in Order
  <2>2. Owes(g, i, o)' <=> Owes(g, i, o)
    BY <1>2, <1>4, BecomesOwes DEF Owes
  <2> QED
    BY <1>2, <2>2, BecomesOwes
<1>6. task'[g].sending /\ \A h \in Generation \ {g} : task'[h].sending = task[h].sending
  BY <1>2, <1>3, BecomesOwes
<1>7. /\ history \in [written : SUBSET Order, guessed : SUBSET Order, lost : SUBSET Order]
      /\ history' = [history EXCEPT !.written = @ \cup Submits(<<Head(task[g].book)>>)]
      /\ task[g].book # <<>> /\ mirror' = mirror
  BY DEF WriteFrame, TypeOK
<1>8. history'.guessed = history.guessed
  BY <1>7
<1>9. \A o \in Order : o \in history'.written <=> o \in history.written \/ Owes(g, 1, o)
  BY <1>7, HeadOwes
<1> QED
  BY <1>5, <1>6, <1>7, <1>8, <1>9, DebtWritten

LEMMA DebtsRetire ==
  ASSUME TypeOK, Debts, NEW g \in Generation, Retire(g)
  PROVE  Debts'
<1>1. PICK s : s = [task[g] EXCEPT !.book = Tail(@), !.sending = FALSE]
  OBVIOUS
<1>2. Becomes(g, s)
  BY <1>1, RetireFields
<1>3. s \in Task /\ ~s.sending /\ s.book = Tail(task[g].book) /\ s.queue = task[g].queue
  BY <1>1, <1>2, Lanes DEF Task, Becomes
<1>4. task[g].sending /\ task[g].book # <<>> /\ mirror' = mirror /\ history' = history
  BY DEF Retire, TypeOK
<1>5. \A i \in Nat : \A o : IsSubmit(Owed(s), i, o) <=> i > 0 /\ IsSubmit(Owed(task[g]), i + 1, o)
  BY <1>3, <1>4, RetiredOwes
<1>6. \A i \in Nat, o \in Order : Owes(g, i, o)' <=> i > 0 /\ Owes(g, i + 1, o)
  BY <1>2, <1>5, BecomesOwes DEF Owes
<1>7. /\ ~task'[g].sending
      /\ \A h \in Generation \ {g} : task'[h].sending = task[h].sending
      /\ \A h \in Generation \ {g}, i \in Nat, o \in Order : Owes(h, i, o)' <=> Owes(h, i, o)
  BY <1>2, <1>3, BecomesOwes
<1>8. \A i \in Nat, o \in Order : Owes(g, i, o) => i > 0
  BY FirstIsOne
<1> QED
  BY <1>4, <1>6, <1>7, <1>8, DebtRetired

\* A stretch of the receipts, as commands owed.
LEMMA StretchSubmits ==
  ASSUME NEW b \in Seq(Command), NEW m \in 1..2, NEW k \in 0..Len(b)
  PROVE  \A o : o \in Submits(SubSeq(b, m, k)) <=> \E i \in m..k : IsSubmit(b, i, o)
<1>1. Len(b) \in Nat /\ DOMAIN b = 1..Len(b)
  BY LenProperties
<1>2. \A i \in m..k : i \in 1..Len(b) /\ b[i] \in Command
  BY <1>1, ElementOfSeq
<1>3. PICK u : u = SubSeq(b, m, k)
  OBVIOUS
<1>4. /\ u \in Seq(Command) /\ Len(u) = IF m <= k THEN k - m + 1 ELSE 0
      /\ \A i \in 1..(k - m + 1) : u[i] = b[m + i - 1]
  <2>1. m \in Int /\ k \in Int
    BY <1>1
  <2> QED
    BY <1>2, <1>3, <2>1, SubSeqProperties
<1>5. DOMAIN u = 1..(k - m + 1)
  BY <1>1, <1>4, LenProperties
<1>6. ASSUME NEW o PROVE o \in Submits(u) <=> \E i \in m..k : IsSubmit(b, i, o)
  <2>1. ASSUME NEW j \in DOMAIN u, IsSubmit(u, j, o) PROVE \E i \in m..k : IsSubmit(b, i, o)
    <3>1. m + j - 1 \in m..k /\ u[j] = b[m + j - 1]
      BY <1>1, <1>4, <1>5
    <3>2. IsSubmit(b, m + j - 1, o)
      BY <1>1, <1>2, <2>1, <3>1 DEF IsSubmit
    <3> QED
      BY <3>1, <3>2
  <2>2. ASSUME NEW i \in m..k, IsSubmit(b, i, o) PROVE \E j \in DOMAIN u : IsSubmit(u, j, o)
    <3>1. PICK j : j = i - m + 1
      OBVIOUS
    <3>2. j \in DOMAIN u /\ m + j - 1 = i /\ j \in 1..(k - m + 1)
      BY <1>1, <1>5, <3>1
    <3>3. u[j] = b[i]
      BY <1>4, <3>2
    <3>4. IsSubmit(u, j, o)
      BY <2>2, <3>2, <3>3 DEF IsSubmit
    <3> QED
      BY <3>2, <3>4
  <2> QED
    BY <2>1, <2>2, SubmitsPlaces
<1> QED
  BY <1>3, <1>6

LEMMA BookPlaces ==
  ASSUME TypeOK, NEW g \in Generation
  PROVE  /\ task[g].book \in Seq(Command) /\ Len(task[g].book) \in Nat
         /\ \A i \in 1..Len(task[g].book) : \A o :
              Owes(g, i, o) <=> IsSubmit(task[g].book, i, o)
<1>1. PICK t : t = task[g]
  OBVIOUS
<1>2. t \in Task
  BY <1>1, Lanes
<1>3. /\ t.book \in Seq(Command) /\ Len(t.book) \in Nat
      /\ \A i \in Nat : \A o : IsSubmit(Owed(t), i, o) <=>
           IsSubmit(t.book, i, o) \/ (i > Len(t.book) /\ IsSubmit(t.queue, i - Len(t.book), o))
  BY <1>2, OwesParts
<1>4. \A i \in 1..Len(t.book) : i \in Nat /\ ~(i > Len(t.book))
  BY <1>3
<1>5. \A i \in 1..Len(t.book) : \A o : IsSubmit(Owed(t), i, o) <=> IsSubmit(t.book, i, o)
  BY <1>3, <1>4
<1> QED
  BY <1>1, <1>3, <1>5 DEF Owes

LEMMA StretchOwes ==
  ASSUME TypeOK, NEW g \in Generation, NEW m \in 1..2, NEW k \in 0..Len(task[g].book)
  PROVE  \A o : o \in Submits(SubSeq(task[g].book, m, k)) <=> \E i \in m..k : Owes(g, i, o)
<1>1. /\ task[g].book \in Seq(Command) /\ Len(task[g].book) \in Nat
      /\ \A i \in 1..Len(task[g].book) : \A o :
           Owes(g, i, o) <=> IsSubmit(task[g].book, i, o)
  BY BookPlaces
<1>2. \A o : o \in Submits(SubSeq(task[g].book, m, k)) <=> \E i \in m..k : IsSubmit(task[g].book, i, o)
  BY <1>1, StretchSubmits
<1>3. \A i \in m..k : i \in 1..Len(task[g].book)
  BY <1>1
<1> QED
  BY <1>1, <1>2, <1>3

\* The receipt the writer is sending.
LEMMA MidWriteOwes ==
  ASSUME TypeOK, NEW g \in Generation
  PROVE  \A o : o \in Submits(MidWrite(task[g])) <=> \E i \in 1..MidLen(g) : Owes(g, i, o)
<1>1. CASE task[g].sending
  <2>1. task[g].book # <<>>
    BY <1>1 DEF TypeOK
  <2>2. \A o : o \in Submits(<<Head(task[g].book)>>) <=> Owes(g, 1, o)
    BY <2>1, HeadOwes
  <2>3. MidWrite(task[g]) = <<Head(task[g].book)>> /\ MidLen(g) = 1
    BY <1>1 DEF MidWrite, MidLen
  <2>4. \A i : i \in 1..MidLen(g) <=> i = 1
    BY <2>3
  <2> QED
    BY <2>2, <2>3, <2>4
<1>2. CASE ~task[g].sending
  <2>1. MidWrite(task[g]) = <<>> /\ MidLen(g) = 0
    BY <1>2 DEF MidWrite, MidLen
  <2>2. \A o : o \notin Submits(<<>>)
    BY SubmitsPlaces, NothingSubmits
  <2>3. \A i : i \notin 1..MidLen(g)
    BY <2>1
  <2> QED
    BY <2>1, <2>2, <2>3
<1> QED
  BY <1>1, <1>2

\* A step on which g reports the first n commands it owes, the first k of them
\* as ones that may be on the wire.
Reports(g, n, k) ==
  /\ n \in Nat /\ k \in MidLen(g)..n
  /\ \A h \in Generation \ {g}, i \in Nat, o \in Order : Owes(h, i, o)' <=> Owes(h, i, o)
  /\ \A i \in Nat, o \in Order : Owes(g, i, o)' <=> i > 0 /\ Owes(g, i + n, o)
  /\ ~task'[g].sending
  /\ \A h \in Generation \ {g} : task'[h] = task[h]
  /\ history'.written = history.written
  /\ \A o \in Order : o \in history'.guessed <=> o \in history.guessed \/ \E i \in 1..k : Owes(g, i, o)
  /\ \A o \in Order : o \in told => o \in told'
  /\ \A o \in Order :
       IF (\E i \in 1..n : Owes(g, i, o)) /\ mirror[o].status = "submitted"
       THEN mirror'[o].status = "rejected" /\ (g = generation => o \in told')
       ELSE mirror'[o] = mirror[o]
  /\ \A o \in Order : o \in Submits(task'[g].up) =>
       o \in Submits(task[g].up) \/ \E i \in 1..k : Owes(g, i, o)

LEMMA ReportStep ==
  ASSUME TypeOK, NEW g \in Generation, NEW s, Becomes(g, s), ~s.sending,
         NEW n \in Nat, NEW k \in MidLen(g)..n,
         \A i \in Nat : \A o : IsSubmit(Owed(s), i, o) <=> i > 0 /\ IsSubmit(Owed(task[g]), i + n, o),
         NEW cmds \in Seq(Command), Undelivered(cmds, g),
         \A o : o \in Submits(cmds) <=> \E i \in 1..n : Owes(g, i, o),
         NEW more \in Seq(Event), NEW guesses \in Seq(Command), Lost(task[g], more, guesses),
         \A o : o \in Submits(guesses) <=> \E i \in 1..k : Owes(g, i, o),
         \A o \in Order : o \in Submits(s.up) =>
           o \in Submits(task[g].up) \/ \E i \in 1..k : Owes(g, i, o)
  PROVE  Reports(g, n, k)
<1>1. /\ \A h \in Generation \ {g}, i \in Nat, o \in Order : Owes(h, i, o)' <=> Owes(h, i, o)
      /\ \A i \in Nat, o \in Order : Owes(g, i, o)' <=> IsSubmit(Owed(s), i, o)
      /\ task'[g].sending = s.sending
  BY BecomesOwes
<1>2. \A i \in Nat, o \in Order : Owes(g, i, o)' <=> i > 0 /\ Owes(g, i + n, o)
  BY <1>1 DEF Owes
<1>3. \A h \in Generation \ {g} : task'[h] = task[h]
  BY DEF Becomes
<1>4. /\ history'.written = history.written
      /\ history'.guessed = history.guessed \cup Submits(guesses)
  BY LostFields
<1>5. /\ told \subseteq told'
      /\ \A o \in Order :
              IF o \in Submits(cmds) /\ mirror[o].status = "submitted"
              THEN /\ mirror'[o].status = "rejected"
                   /\ g = generation => o \in told'
              ELSE mirror'[o] = mirror[o]
  BY UndeliveredFields
<1>6. \A o \in Order :
       IF (\E i \in 1..n : Owes(g, i, o)) /\ mirror[o].status = "submitted"
       THEN mirror'[o].status = "rejected" /\ (g = generation => o \in told')
       ELSE mirror'[o] = mirror[o]
  BY <1>5
<1>7. \A o \in Order : o \in Submits(task'[g].up) =>
       o \in Submits(task[g].up) \/ \E i \in 1..k : Owes(g, i, o)
  BY DEF Becomes
<1>8. \A o \in Order : o \in history'.guessed <=> o \in history.guessed \/ \E i \in 1..k : Owes(g, i, o)
  BY <1>4
<1>9. \A o \in Order : o \in told => o \in told'
  BY <1>5
<1>10. ~task'[g].sending
  BY <1>1
<1> QED
  BY <1>1, <1>2, <1>3, <1>4, <1>6, <1>7, <1>8, <1>9, <1>10 DEF Reports

LEMMA DisconnectReports ==
  ASSUME TypeOK, NEW g \in Generation, Disconnect(g)
  PROVE  Reports(g, Len(task[g].book), MidLen(g))
<1>1. PICK s : s = Torn(task[g], "dialing")
  OBVIOUS
<1>2. Becomes(g, s)
  BY <1>1, DisconnectFields
<1>3. s \in Task /\ ~s.sending /\ s.book = <<>> /\ s.queue = task[g].queue /\ s.up = task[g].up
  BY <1>1, <1>2, Lanes DEF Torn, Task, Becomes
<1>4. PICK n : n = Len(task[g].book)
  OBVIOUS
<1>5. n \in Nat /\ MidLen(g) \in MidLen(g)..n
  BY <1>4, MidWriteSeq DEF MidLen
<1>6. \A i \in Nat : \A o : IsSubmit(Owed(s), i, o) <=> i > 0 /\ IsSubmit(Owed(task[g]), i + n, o)
  BY <1>3, <1>4, DroppedOwes
<1>7. /\ task[g].book \in Seq(Command)
      /\ \A o : o \in Submits(task[g].book) <=> \E i \in 1..n : Owes(g, i, o)
  BY <1>4, BookOwes, Lanes
<1>8. Undelivered(task[g].book, g) /\ Lost(task[g], <<>>, MidWrite(task[g])) /\ <<>> \in Seq(Event)
  BY EmptySeq DEF Disconnect
<1>9. \A o : o \in Submits(MidWrite(task[g])) <=> \E i \in 1..MidLen(g) : Owes(g, i, o)
  BY MidWriteOwes
<1>10. \A o \in Order : o \in Submits(s.up) =>
         o \in Submits(task[g].up) \/ \E i \in 1..MidLen(g) : Owes(g, i, o)
  BY <1>3
<1>11. Reports(g, n, MidLen(g))
  BY <1>2, <1>3, <1>5, <1>6, <1>7, <1>8, <1>9, <1>10, MidWriteIn, ReportStep
<1> QED
  BY <1>4, <1>11

LEMMA NothingOwed ==
  ASSUME TypeOK, NEW g \in Generation, NEW s \in Task, s.book = <<>>, s.queue = <<>>
  PROVE  \A i \in Nat : \A o : IsSubmit(Owed(s), i, o) <=>
           i > 0 /\ IsSubmit(Owed(task[g]), i + Len(Owed(task[g])), o)
<1>1. PICK w, n : w = Owed(task[g]) /\ n = Len(w)
  OBVIOUS
<1>2. n \in Nat /\ DOMAIN w = 1..n
  BY <1>1, OwedSeq, LenProperties
<1>3. Owed(s) = <<>>
  BY ConcatEmptySeq, EmptySeq DEF Owed
<1>4. ASSUME NEW i \in Nat, NEW o PROVE ~IsSubmit(Owed(s), i, o) /\ ~(i > 0 /\ IsSubmit(w, i + n, o))
  <2>1. ~IsSubmit(Owed(s), i, o)
    BY <1>3, NothingSubmits
  <2>2. i > 0 => i + n \notin 1..n
    BY <1>2
  <2> QED
    BY <1>2, <2>1, <2>2 DEF IsSubmit
<1> QED
  BY <1>1, <1>4

LEMMA GiveUpReports ==
  ASSUME TypeOK, NEW g \in Generation, GiveUp(g)
  PROVE  Reports(g, Len(Owed(task[g])), MidLen(g))
<1>1. PICK s : s = [Torn(task[g], "ended") EXCEPT !.queue = <<>>]
  OBVIOUS
<1>2. Becomes(g, s)
  BY <1>1, GiveUpFields
<1>3. s \in Task /\ ~s.sending /\ s.book = <<>> /\ s.queue = <<>> /\ s.up = task[g].up
  BY <1>1, <1>2, Lanes DEF Torn, Task, Becomes
<1>4. PICK w, n : w = Owed(task[g]) /\ n = Len(w)
  OBVIOUS
<1>5. n \in Nat /\ w \in Seq(Command) /\ (task[g].sending => n > 0)
  BY <1>4, AllOwes, OwedSeq
<1>6. MidLen(g) \in MidLen(g)..n
  BY <1>5 DEF MidLen
<1>7. \A i \in Nat : \A o : IsSubmit(Owed(s), i, o) <=> i > 0 /\ IsSubmit(Owed(task[g]), i + n, o)
  BY <1>3, <1>4, NothingOwed
<1>8. \A o : o \in Submits(w) <=> \E i \in 1..n : Owes(g, i, o)
  BY <1>4, AllOwes
<1>9. Undelivered(w, g) /\ Lost(task[g], <<>>, MidWrite(task[g])) /\ <<>> \in Seq(Event)
  BY <1>4, EmptySeq DEF GiveUp
<1>10. \A o : o \in Submits(MidWrite(task[g])) <=> \E i \in 1..MidLen(g) : Owes(g, i, o)
  BY MidWriteOwes
<1>11. \A o \in Order : o \in Submits(s.up) =>
         o \in Submits(task[g].up) \/ \E i \in 1..MidLen(g) : Owes(g, i, o)
  BY <1>3
<1>12. Reports(g, n, MidLen(g))
  BY <1>2, <1>3, <1>5, <1>6, <1>7, <1>8, <1>9, <1>10, <1>11, MidWriteIn, ReportStep
<1> QED
  BY <1>4, <1>12

\* The submits of two lanes, one after the other.
LEMMA UpSubmits ==
  ASSUME NEW b \in Seq(Command), NEW q \in Seq(Command)
  PROVE  \A o : o \in Submits(b \o q) <=> o \in Submits(b) \/ o \in Submits(q)
<1>1. PICK w : w = b \o q
  OBVIOUS
<1>2. /\ Len(b) \in Nat /\ Len(q) \in Nat /\ w \in Seq(Command) /\ Len(w) = Len(b) + Len(q)
      /\ \A i \in Nat : \A o : IsSubmit(w, i, o) <=>
              \/ IsSubmit(b, i, o)
              \/ i > Len(b) /\ IsSubmit(q, i - Len(b), o)
  <2>1. /\ Len(b) \in Nat /\ Len(q) \in Nat
        /\ \A i \in Nat : \A o : IsSubmit(w, i, o) <=>
              IsSubmit(b, i, o) \/ (i > Len(b) /\ IsSubmit(q, i - Len(b), o))
    BY <1>1, JoinedSubmits
  <2>2. w \in Seq(Command) /\ Len(w) = Len(b) + Len(q)
    BY <1>1, Joined
  <2> QED
    BY <2>1, <2>2
<1>3. DOMAIN b = 1..Len(b) /\ DOMAIN q = 1..Len(q) /\ DOMAIN w = 1..Len(w)
  BY <1>2, LenProperties
<1>4. ASSUME NEW o PROVE o \in Submits(w) <=> o \in Submits(b) \/ o \in Submits(q)
  <2>1. ASSUME NEW i \in DOMAIN w, IsSubmit(w, i, o) PROVE o \in Submits(b) \/ o \in Submits(q)
    <3>1. i \in Nat
      BY <1>2, <1>3
    <3>2. IsSubmit(b, i, o) \/ IsSubmit(q, i - Len(b), o)
      BY <1>2, <2>1, <3>1
    <3> QED
      BY <3>2, SubmitsPlaces DEF IsSubmit
  <2>2. ASSUME NEW i \in DOMAIN b, IsSubmit(b, i, o) PROVE o \in Submits(w)
    <3>1. i \in Nat
      BY <1>2, <1>3
    <3>2. IsSubmit(w, i, o)
      BY <1>2, <2>2, <3>1
    <3> QED
      BY <3>2, SubmitsPlaces DEF IsSubmit
  <2>3. ASSUME NEW i \in DOMAIN q, IsSubmit(q, i, o) PROVE o \in Submits(w)
    <3>1. PICK m, j : m = Len(b) /\ j = m + i
      OBVIOUS
    <3>2. j \in Nat /\ j > m /\ j - m = i
      BY <1>2, <1>3, <3>1
    <3>3. IsSubmit(w, j, o)
      BY <1>2, <2>3, <3>1, <3>2
    <3> QED
      BY <3>3, SubmitsPlaces DEF IsSubmit
  <2> QED
    BY <2>1, <2>2, <2>3, SubmitsPlaces
<1> QED
  BY <1>1, <1>4

LEMMA DieReports ==
  ASSUME TypeOK, NEW g \in Generation, Die(g)
  PROVE  \E k : Reports(g, Len(Owed(task[g])), k)
<1>1. PICK k \in MidLen(g)..Len(task[g].book) :
        /\ Lost(task[g], task[g].held \o task[g].pump, SubSeq(task[g].book, 1, k))
        /\ task' = [task EXCEPT ![g] = [NoTask EXCEPT !.phase = "ended", !.ready = task[g].ready,
                      !.up = task[g].up \o SubSeq(task[g].book, MidLen(g) + 1, k)]]
  BY MidWriteSeq DEF Die
<1>2. PICK s : s = [NoTask EXCEPT !.phase = "ended", !.ready = task[g].ready,
                      !.up = task[g].up \o SubSeq(task[g].book, MidLen(g) + 1, k)]
  OBVIOUS
<1>3. s \in Task /\ Becomes(g, s)
  BY <1>1, <1>2, DieFields, Placed
<1>4. /\ ~s.sending /\ s.book = <<>> /\ s.queue = <<>>
      /\ s.up = task[g].up \o SubSeq(task[g].book, MidLen(g) + 1, k)
  BY <1>2 DEF NoTask
<1>5. PICK w, n : w = Owed(task[g]) /\ n = Len(w)
  OBVIOUS
<1>6. /\ n \in Nat /\ w \in Seq(Command) /\ Len(task[g].book) \in Nat
      /\ Len(task[g].book) <= n
  <2>1. PICK b, q : b = Len(task[g].book) /\ q = Len(task[g].queue)
    OBVIOUS
  <2>2. b \in Nat /\ q \in Nat /\ n = b + q /\ w \in Seq(Command)
    BY <1>5, <2>1, OwedSeq, Lanes, LenProperties
  <2>3. n \in Nat /\ b <= n
    BY <2>2
  <2>4. Len(task[g].book) \in Nat /\ Len(task[g].book) <= n
    BY <2>1, <2>2, <2>3, Zenon
  <2> QED
    BY <2>2, <2>3, <2>4, Zenon
<1>7. MidLen(g) \in 0..1 /\ k \in MidLen(g)..n /\ k \in 0..Len(task[g].book) /\ MidLen(g) + 1 \in 1..2
  BY <1>6 DEF MidLen
<1>8. \A i \in Nat : \A o : IsSubmit(Owed(s), i, o) <=> i > 0 /\ IsSubmit(Owed(task[g]), i + n, o)
  BY <1>3, <1>4, <1>5, NothingOwed
<1>9. \A o : o \in Submits(w) <=> \E i \in 1..n : Owes(g, i, o)
  BY <1>5, AllOwes
<1>10. Undelivered(w, g)
  BY <1>5 DEF Die
<1>11. /\ task[g].held \o task[g].pump \in Seq(Event)
       /\ SubSeq(task[g].book, 1, k) \in Seq(Command)
       /\ SubSeq(task[g].book, MidLen(g) + 1, k) \in Seq(Command)
  BY <1>7, Lanes, CutSeq, ConcatProperties DEF MidLen
<1>12. \A o : o \in Submits(SubSeq(task[g].book, 1, k)) <=> \E i \in 1..k : Owes(g, i, o)
  BY <1>7, StretchOwes
<1>13. \A o : o \in Submits(SubSeq(task[g].book, MidLen(g) + 1, k)) <=>
                \E i \in (MidLen(g) + 1)..k : Owes(g, i, o)
  BY <1>7, StretchOwes
<1>14. \A o \in Order : o \in Submits(s.up) =>
         o \in Submits(task[g].up) \/ \E i \in 1..k : Owes(g, i, o)
  <2>1. TAKE o \in Order
  <2>2. o \in Submits(s.up) <=>
          o \in Submits(task[g].up) \/ o \in Submits(SubSeq(task[g].book, MidLen(g) + 1, k))
    <3>1. PICK u, v : u = task[g].up /\ v = SubSeq(task[g].book, MidLen(g) + 1, k)
      OBVIOUS
    <3>2. u \in Seq(Command) /\ v \in Seq(Command) /\ s.up = u \o v
      BY <1>4, <1>11, <3>1, Lanes
    <3>3. o \in Submits(u \o v) <=> o \in Submits(u) \/ o \in Submits(v)
      BY <3>2, UpSubmits
    <3> QED
      BY <3>1, <3>2, <3>3
  <2>3. \A i \in (MidLen(g) + 1)..k : i \in 1..k
    BY <1>7
  <2> QED
    BY <1>13, <2>2, <2>3
<1>15. Reports(g, n, k)
  BY <1>1, <1>3, <1>4, <1>6, <1>7, <1>8, <1>9, <1>10, <1>11, <1>12, <1>14, ReportStep
<1> QED
  BY <1>5, <1>15

LEMMA DebtsReport ==
  ASSUME TypeOK, Debts, NEW g \in Generation, NEW n, NEW k, Reports(g, n, k)
  PROVE  Debts'
<1>1. n \in Nat /\ k \in MidLen(g)..n /\ MidLen(g) \in 0..1 /\ (task[g].sending => n > 0)
  BY DEF Reports, MidLen
<1>2. PICK guesses : guesses = {o \in Order : o \in history'.guessed}
  OBVIOUS
<1>3. PICK more : more = {o \in Order : \E i \in 1..k : Owes(g, i, o)}
  OBVIOUS
<1>4. \A o \in Order : o \in more => \E i \in 1..n : Owes(g, i, o)
  <2>1. \A i \in 1..k : i \in 1..n
    BY <1>1
  <2> QED
    BY <1>3, <2>1
<1>5. \A o \in Order : o \in history'.guessed <=> o \in history.guessed \cup more
  BY <1>3 DEF Reports
<1>6. "rejected" # "submitted"
  OBVIOUS
<1>7. \A o \in Order : IF (\E i \in 1..n : Owes(g, i, o)) /\ mirror[o].status = "submitted"
                       THEN mirror'[o].status # "submitted"
                       ELSE mirror'[o] = mirror[o]
  BY <1>6 DEF Reports
<1>8. /\ \A h \in Generation \ {g}, i \in Nat, o \in Order : Owes(h, i, o)' <=> Owes(h, i, o)
      /\ \A i \in Nat, o \in Order : Owes(g, i, o)' <=> i > 0 /\ Owes(g, i + n, o)
      /\ ~task'[g].sending
      /\ \A h \in Generation \ {g} : task'[h].sending = task[h].sending
      /\ history'.written = history.written
  BY DEF Reports
<1>9. \A i \in Nat, o \in Order : Owes(g, i, o) => i > 0
  BY FirstIsOne
<1> QED
  BY <1>1, <1>4, <1>5, <1>7, <1>8, <1>9, DebtReported
----------------------------------------------------------------------------
(* The steps, by what they touch.                                          *)

\* Steps that leave the mirror, the venue and what was submitted alone.
Calm == /\ mirror' = mirror /\ told' = told /\ venue' = venue
        /\ history'.written = history.written /\ history'.guessed = history.guessed

Quiet == \/ \E o \in Order, verb \in {"cancel", "modify"} : ChangeOrder(verb, o)
         \/ Stop \/ Connect \/ ConnectDone \/ ConnectFails
         \/ \E g \in Generation : \/ Dial(g) \/ TakeCommand(g) \/ Retire(g) \/ Receive(g)
                                  \/ Hold(g) \/ FlushHeld(g)

LEMMA QuietIsCalm ==
  ASSUME TypeOK, Quiet
  PROVE  Calm
<1>1. history \in [written : SUBSET Order, guessed : SUBSET Order, lost : SUBSET Order]
  BY DEF TypeOK
<1>2. CASE \E g \in Generation : Receive(g)
  <2>1. PICK x : history' = [history EXCEPT !.lost = x]
    BY <1>2 DEF Receive
  <2> QED
    BY <1>1, <1>2, <2>1 DEF Receive, Calm
<1>3. CASE \E o \in Order, verb \in {"cancel", "modify"} : ChangeOrder(verb, o)
  BY <1>3 DEF ChangeOrder, Calm
<1>4. CASE Stop \/ Connect \/ ConnectDone \/ ConnectFails
  BY <1>4 DEF Stop, Connect, ConnectDone, ConnectFails, Calm
<1>5. CASE \E g \in Generation : Dial(g) \/ TakeCommand(g) \/ Retire(g) \/ Hold(g) \/ FlushHeld(g)
  BY <1>5 DEF Dial, TakeCommand, Retire, Hold, FlushHeld, Calm
<1> QED
  BY <1>2, <1>3, <1>4, <1>5 DEF Quiet

LEMMA StepKinds ==
  ASSUME TypeOK, Next
  PROVE  \/ Quiet
         \/ \E o \in Order : SubmitOrder(o)
         \/ \E g \in Generation : WriteFrame(g)
         \/ \E g \in Generation : Disconnect(g) \/ GiveUp(g) \/ Die(g)
         \/ \E g \in Generation : Deliver(g)
         \/ \E g \in Generation : VenueHandle(g)
         \/ \E o \in Order : VenueTriggers(o) \/ VenueFill(o)
BY DEF Next, Host, Venue, Connection, Inbound, Quiet

LEMMA ReportingSteps ==
  ASSUME TypeOK, NEW g \in Generation, Disconnect(g) \/ GiveUp(g) \/ Die(g)
  PROVE  /\ \E n, k : Reports(g, n, k)
         /\ venue' = venue /\ generation' = generation /\ issued' = issued
<1>1. \E n, k : Reports(g, n, k)
  BY DisconnectReports, GiveUpReports, DieReports
<1> QED
  BY <1>1 DEF Disconnect, GiveUp, Die

\* What the other handlers leave alone.
LEMMA DeliverLeaves ==
  ASSUME NEW g \in Generation, Deliver(g)
  PROVE  venue' = venue /\ history' = history /\ generation' = generation /\ issued' = issued
BY DEF Deliver

LEMMA VenueLeaves ==
  ASSUME \/ \E g \in Generation : VenueHandle(g)
         \/ \E o \in Order : VenueTriggers(o) \/ VenueFill(o)
  PROVE  mirror' = mirror /\ told' = told /\ generation' = generation /\ issued' = issued
BY DEF VenueHandle, VenueTriggers, VenueFill

LEMMA WriteLeaves ==
  ASSUME TypeOK, NEW g \in Generation, WriteFrame(g)
  PROVE  /\ mirror' = mirror /\ told' = told /\ venue' = venue
         /\ generation' = generation /\ issued' = issued
         /\ history'.guessed = history.guessed
         /\ \A o \in Order : o \in history'.written <=> o \in history.written \/ Owes(g, 1, o)
<1>1. /\ history \in [written : SUBSET Order, guessed : SUBSET Order, lost : SUBSET Order]
      /\ history' = [history EXCEPT !.written = @ \cup Submits(<<Head(task[g].book)>>)]
      /\ task[g].book # <<>>
  BY DEF WriteFrame, TypeOK
<1>2. \A o \in Order : o \in history'.written <=> o \in history.written \/ Owes(g, 1, o)
  BY <1>1, HeadOwes
<1>3. history'.guessed = history.guessed
  BY <1>1
<1> QED
  BY <1>2, <1>3 DEF WriteFrame

LEMMA DebtsNext ==
  ASSUME TypeOK, Known, Frames, Unissued, Debts, Next
  PROVE  Debts'
<1>1. CASE Quiet
  <2>1. Calm
    BY <1>1, QuietIsCalm
  <2>2. CASE \E o \in Order, verb \in {"cancel", "modify"} : ChangeOrder(verb, o)
    BY <2>2, DebtsChange
  <2>3. CASE \E g \in Generation : Retire(g)
    BY <2>3, DebtsRetire
  <2>4. CASE Stop \/ Connect \/ ConnectDone \/ ConnectFails
    <3>1. Keeps
      BY <2>4, KeepingSteps
    <3> QED
      BY <2>1, <3>1, MirrorSettles, DebtsKept DEF Calm
  <2>5. CASE \E g \in Generation : Dial(g) \/ TakeCommand(g) \/ Receive(g) \/ Hold(g) \/ FlushHeld(g)
    <3>1. Keeps
      BY <2>5, KeepingSteps
    <3> QED
      BY <2>1, <3>1, MirrorSettles, DebtsKept DEF Calm
  <2> QED
    BY <1>1, <2>2, <2>3, <2>4, <2>5 DEF Quiet
<1>2. CASE \E o \in Order : SubmitOrder(o)
  BY <1>2, DebtsSubmit
<1>3. CASE \E g \in Generation : WriteFrame(g)
  BY <1>3, DebtsWrite
<1>4. CASE \E g \in Generation : Disconnect(g) \/ GiveUp(g) \/ Die(g)
  BY <1>4, ReportingSteps, DebtsReport
<1>5. CASE \E g \in Generation : Deliver(g)
  <2>1. PICK g \in Generation : Deliver(g)
    BY <1>5
  <2>2. Keeps
    BY <2>1, KeepingSteps
  <2>3. \A o \in Order : Settles(o)
    BY <2>1, DeliverSettles
  <2> QED
    BY <2>1, <2>2, <2>3, DeliverLeaves, DebtsKept
<1>6. CASE \E g \in Generation : VenueHandle(g)
  <2>1. PICK g \in Generation : VenueHandle(g)
    BY <1>6
  <2>2. Keeps
    BY <2>1, KeepingSteps
  <2>3. history'.written = history.written /\ history'.guessed = history.guessed
    BY <2>1, HandleFields
  <2> QED
    BY <2>1, <2>2, <2>3, VenueLeaves, MirrorSettles, DebtsKept
<1>7. CASE \E o \in Order : VenueTriggers(o) \/ VenueFill(o)
  <2>1. PICK o \in Order : VenueTriggers(o) \/ VenueFill(o)
    BY <1>7
  <2>2. Keeps
    BY <2>1, KeepingSteps
  <2>3. history'.written = history.written /\ history'.guessed = history.guessed
    BY <2>1, SpeaksFields
  <2> QED
    BY <1>7, <2>2, <2>3, VenueLeaves, MirrorSettles, DebtsKept
<1> QED
  BY <1>1, <1>2, <1>3, <1>4, <1>5, <1>6, <1>7, StepKinds
----------------------------------------------------------------------------
(* What the venue knows.                                                   *)

LEMMA SentGrows ==
  ASSUME \A o \in Order : o \in history.written => o \in history'.written,
         \A o \in Order : o \in history.guessed => o \in history'.guessed
  PROVE  \A o \in Order : o \in Sent => o \in Sent'
BY DEF Sent

\* What a report leaves of the mirror.
LEMMA ReportedMirror ==
  ASSUME TypeOK, Debts, Known, NEW g \in Generation, NEW n, NEW k, Reports(g, n, k), NEW o \in Order
  PROVE  /\ o \in Sent => o \in Sent'
         /\ o \in Sent' => o \in Sent \/ mirror[o].status = "submitted"
         /\ mirror[o].status # Absent => mirror'[o].status # Absent
         /\ \/ mirror'[o] = mirror[o]
            \/ /\ mirror'[o].status = "rejected" /\ mirror[o].status = "submitted"
               /\ g = generation => o \in told'
               /\ o \in history'.guessed \/ o \notin Sent
               /\ \E i \in Nat : Owes(g, i, o)
<1>1. n \in Nat /\ k \in MidLen(g)..n /\ MidLen(g) \in 0..1 /\ (task[g].sending => MidLen(g) = 1)
  BY DEF Reports, MidLen
<1>2. \A i \in 1..k : i \in Nat /\ i \in 1..n
  BY <1>1
<1>3. /\ history'.written = history.written
      /\ o \in history'.guessed <=> o \in history.guessed \/ \E i \in 1..k : Owes(g, i, o)
  BY DEF Reports
<1>4. ASSUME NEW i \in Nat, Owes(g, i, o)
      PROVE  o \in Sent \/ mirror[o].status = "submitted"
  <2>1. IF task[g].sending /\ i = 1 THEN o \in history.written
        ELSE mirror[o].status = "submitted" /\ o \notin Sent
    BY <1>4, WaitsUse
  <2> QED
    BY <2>1 DEF Sent
<1>5. /\ o \in Sent => o \in Sent'
      /\ o \in Sent' => o \in Sent \/ mirror[o].status = "submitted"
  BY <1>2, <1>3, <1>4 DEF Sent
<1>6. CASE (\E i \in 1..n : Owes(g, i, o)) /\ mirror[o].status = "submitted"
  <2>1. mirror'[o].status = "rejected" /\ (g = generation => o \in told')
    BY <1>6 DEF Reports
  <2>2. PICK i \in 1..n : Owes(g, i, o)
    BY <1>6
  <2>3. i \in Nat
    BY <1>1
  <2>4. IF task[g].sending /\ i = 1 THEN o \in history.written
        ELSE mirror[o].status = "submitted" /\ o \notin Sent
    BY <2>2, <2>3, WaitsUse
  <2>5. task[g].sending /\ i = 1 => i \in 1..k
    BY <1>1
  <2>6. o \in history'.guessed \/ o \notin Sent
    BY <1>3, <2>2, <2>4, <2>5
  <2>7. "rejected" # Absent
    BY DEF Absent
  <2> QED
    BY <1>5, <1>6, <2>1, <2>2, <2>3, <2>6, <2>7
<1>7. CASE ~((\E i \in 1..n : Owes(g, i, o)) /\ mirror[o].status = "submitted")
  <2>1. mirror'[o] = mirror[o]
    BY <1>7 DEF Reports
  <2> QED
    BY <1>5, <2>1
<1> QED
  BY <1>6, <1>7

LEMMA KnownNext ==
  ASSUME TypeOK, Known, Wired, Frames, Debts, Next
  PROVE  Known'
<1> SUFFICES ASSUME NEW o \in Order
             PROVE  /\ o \in Sent' => mirror'[o].status # Absent
                    /\ venue'[o].phase # "unknown" => o \in Sent'
                    /\ venue'[o].phase # "closed" => venue'[o].filled < Quantity
  BY DEF Known, Sent, Quantity
<1>1. /\ o \in Sent => mirror[o].status # Absent
      /\ venue[o].phase # "unknown" => o \in Sent
      /\ venue[o].phase # "closed" => venue[o].filled < Quantity
  BY DEF Known
<1>2. mirror \in [Order -> Record]
  BY DEF TypeOK
<1>3. ASSUME mirror' = mirror, venue' = venue,
             history'.written = history.written, history'.guessed = history.guessed
      PROVE  /\ o \in Sent' => mirror'[o].status # Absent
             /\ venue'[o].phase # "unknown" => o \in Sent'
             /\ venue'[o].phase # "closed" => venue'[o].filled < Quantity
  BY <1>1, <1>3 DEF Sent
<1>4. CASE Quiet
  BY <1>3, <1>4, QuietIsCalm DEF Calm
<1>5. CASE \E p \in Order : SubmitOrder(p)
  <2>1. PICK p \in Order : SubmitOrder(p)
    BY <1>5
  <2>2. PICK r : r \in {Announced, RejectedHere(Announced)} /\ mirror' = [mirror EXCEPT ![p] = r]
    BY <2>1 DEF SubmitOrder
  <2>3. r.status # Absent
    BY <2>2 DEF Announced, RejectedHere, RejectableBy, Absent
  <2>4. Sent' = Sent /\ venue' = venue
    BY <2>1 DEF SubmitOrder, Sent
  <2>5. mirror[o].status # Absent => mirror'[o].status # Absent
    BY <1>2, <2>2, <2>3
  <2> QED
    BY <1>1, <2>4, <2>5
<1>6. CASE \E g \in Generation : WriteFrame(g)
  <2>1. PICK g \in Generation : WriteFrame(g)
    BY <1>6
  <2>2. /\ mirror' = mirror /\ venue' = venue /\ history'.guessed = history.guessed
        /\ o \in history'.written <=> o \in history.written \/ Owes(g, 1, o)
    BY <2>1, WriteLeaves
  <2>3. Owes(g, 1, o) => mirror[o].status = "submitted"
    <3>1. ~task[g].sending /\ 1 \in Nat
      BY <2>1 DEF WriteFrame
    <3> QED
      BY <3>1, WaitsUse
  <2>4. (o \in Sent => o \in Sent') /\ (o \in Sent' => o \in Sent \/ mirror[o].status = "submitted")
    BY <2>2, <2>3 DEF Sent
  <2> QED
    BY <1>1, <2>2, <2>4 DEF Absent
<1>7. CASE \E g \in Generation : Disconnect(g) \/ GiveUp(g) \/ Die(g)
  <2>1. PICK g \in Generation : Disconnect(g) \/ GiveUp(g) \/ Die(g)
    BY <1>7
  <2>2. PICK n, k : Reports(g, n, k)
    BY <2>1, ReportingSteps
  <2>3. venue' = venue
    BY <2>1, ReportingSteps
  <2>4. /\ o \in Sent => o \in Sent'
        /\ o \in Sent' => o \in Sent \/ mirror[o].status = "submitted"
        /\ mirror[o].status # Absent => mirror'[o].status # Absent
    BY <2>2, ReportedMirror
  <2> QED
    BY <1>1, <2>3, <2>4 DEF Absent
<1>8. CASE \E g \in Generation : Deliver(g)
  <2>1. PICK g \in Generation : Deliver(g)
    BY <1>8
  <2>2. PICK e : e = Head(task[g].pump)
    OBVIOUS
  <2>3. /\ e \in Event /\ Founded(e)
        /\ mirror'[o] = IF o = e.order THEN Applied(mirror[o], e) ELSE mirror[o]
    BY <2>1, <2>2, DeliverSettles
  <2>4. Applied(mirror[o], e).status = Absent <=> mirror[o].status = Absent
    <3>1. mirror[o] \in Record
      BY <1>2
    <3>2. e.kind = "filled" => e.filled > 0
      BY <2>3 DEF Founded
    <3> QED
      BY <2>3, <3>1, <3>2, AppliedStatus
  <2>5. Sent' = Sent /\ venue' = venue
    BY <2>1, DeliverLeaves DEF Sent
  <2> QED
    BY <1>1, <2>3, <2>4, <2>5
<1>9. CASE \E g \in Generation : VenueHandle(g)
  <2>1. PICK g \in Generation : VenueHandle(g)
    BY <1>9
  <2>2. PICK c : c = Head(task[g].up)
    OBVIOUS
  <2>3. /\ history'.written = history.written /\ history'.guessed = history.guessed
        /\ task[g].up # <<>>
        /\ \/ venue'[o] = venue[o]
           \/ /\ o = c.order
              /\ \/ c.verb = "submit" /\ venue[o].phase = "unknown"
                 \/ Live(o) /\ venue'[o].phase = "closed"
              /\ venue'[o].phase # "unknown" /\ venue'[o].filled = venue[o].filled
    BY <2>1, <2>2, HandleFields
  <2>4. c.verb = "submit" /\ o = c.order => o \in Sent
    <3>1. task[g].up \in Seq(Command)
      BY Lanes
    <3>2. 1 \in DOMAIN task[g].up /\ c = task[g].up[1]
      BY <2>2, <2>3, <3>1, LenProperties, EmptySeq, HeadTailProperties
    <3>3. c.verb = "submit" /\ o = c.order => o \in Submits(task[g].up)
      BY <3>2 DEF Submits
    <3> QED
      BY <3>3 DEF Wired
  <2>5. Sent' = Sent /\ mirror' = mirror
    BY <2>1, <2>3, VenueLeaves DEF Sent
  <2>6. CASE venue'[o] = venue[o]
    BY <1>1, <2>5, <2>6
  <2>7. CASE /\ o = c.order
             /\ \/ c.verb = "submit" /\ venue[o].phase = "unknown"
                \/ Live(o) /\ venue'[o].phase = "closed"
             /\ venue'[o].phase # "unknown" /\ venue'[o].filled = venue[o].filled
    BY <1>1, <2>4, <2>5, <2>7 DEF Live
  <2> QED
    BY <2>3, <2>6, <2>7
<1>10. CASE \E p \in Order : VenueTriggers(p) \/ VenueFill(p)
  <2>1. PICK p \in Order : VenueTriggers(p) \/ VenueFill(p)
    BY <1>10
  <2>2. /\ history'.written = history.written /\ history'.guessed = history.guessed
        /\ \/ venue'[o] = venue[o]
           \/ /\ Live(o) /\ venue'[o].phase # "unknown"
              /\ venue'[o].filled < Quantity \/ venue'[o].phase = "closed"
    BY <2>1, SpeaksFields
  <2>3. Sent' = Sent /\ mirror' = mirror
    BY <1>10, <2>2, VenueLeaves DEF Sent
  <2> QED
    BY <1>1, <2>2, <2>3 DEF Live
<1> QED
  BY <1>4, <1>5, <1>6, <1>7, <1>8, <1>9, <1>10, StepKinds
----------------------------------------------------------------------------
(* What is on the wire.                                                    *)

LEMMA AbortedLanes ==
  ASSUME TypeOK, NEW h \in Generation
  PROVE  /\ Aborted[h].up = task[h].up /\ Aborted[h].down = task[h].down
         /\ Aborted[h].held = task[h].held /\ Aborted[h].pump = task[h].pump
         /\ Aborted[h].queue = task[h].queue /\ Aborted[h].book = task[h].book
         /\ Aborted[h].phase = task[h].phase /\ Aborted[h].sending = task[h].sending
         /\ Aborted[h].stopping <=> task[h].phase # "none"
<1>1. PICK x : x = (task[h].phase # "none")
  OBVIOUS
<1>2. Aborted[h] = [task[h] EXCEPT !.stopping = x] /\ task[h] \in Task
  BY <1>1, AbortedFields, Lanes
<1>3. Aborted[h].stopping = x
  BY <1>2 DEF Task
<1>4. /\ Aborted[h].up = task[h].up /\ Aborted[h].down = task[h].down
      /\ Aborted[h].held = task[h].held /\ Aborted[h].pump = task[h].pump
      /\ Aborted[h].queue = task[h].queue /\ Aborted[h].book = task[h].book
      /\ Aborted[h].phase = task[h].phase /\ Aborted[h].sending = task[h].sending
  BY <1>2 DEF Task
<1>5. Aborted[h].stopping <=> task[h].phase # "none"
  BY <1>1, <1>3
<1> QED
  BY <1>4, <1>5

LEMMA QuietUp ==
  ASSUME TypeOK, Quiet, NEW h \in Generation
  PROVE  task'[h].up = task[h].up \/ task'[h].up = <<>>
<1>0. \A g \in Generation : task[g] \in Task
  BY Lanes
<1>1. CASE \E o \in Order, verb \in {"cancel", "modify"} : ChangeOrder(verb, o)
  <2>1. PICK o \in Order, verb \in {"cancel", "modify"} : ChangeOrder(verb, o)
    BY <1>1
  <2>2. channel \in Generation
    BY <2>1, ChannelIsGeneration DEF ChangeOrder, Accepting
  <2>3. PICK c : c = [verb |-> verb, order |-> o]
    OBVIOUS
  <2>4. c \in Command /\ Queue(c)
    BY <2>1, <2>3 DEF Command, ChangeOrder
  <2>5. PICK s : s = [task[channel] EXCEPT !.queue = Append(@, c)]
    OBVIOUS
  <2>6. Becomes(channel, s) /\ s.up = task[channel].up
    BY <1>0, <2>2, <2>4, <2>5, QueueFields DEF Task
  <2> QED
    BY <2>2, <2>6 DEF Becomes
<1>2. CASE Stop \/ ConnectFails
  <2>1. task' = Aborted
    BY <1>2 DEF Stop, ConnectFails
  <2> QED
    BY <2>1, AbortedLanes
<1>3. CASE Connect
  <2>1. /\ task'[issued'] = [NoTask EXCEPT !.phase = "dialing"]
        /\ \A k \in Generation \ {issued'} : task'[k] = Aborted[k]
    BY <1>3, ConnectFields
  <2>2. CASE h = issued'
    BY <2>1, <2>2 DEF NoTask
  <2>3. CASE h # issued'
    BY <2>1, <2>3, AbortedLanes
  <2> QED
    BY <2>2, <2>3
<1>4. CASE ConnectDone
  <2>1. channel \in Generation
    BY <1>4, ChannelIsGeneration DEF ConnectDone, Free
  <2>2. Becomes(channel, [task[channel] EXCEPT !.ready = TRUE])
    BY <1>4, <2>1, ReadyFields
  <2>3. [task[channel] EXCEPT !.ready = TRUE].up = task[channel].up
    BY <1>0, <2>1 DEF Task
  <2> QED
    BY <2>1, <2>2, <2>3 DEF Becomes
<1>5. ASSUME NEW g \in Generation, Dial(g) PROVE task'[h].up = task[h].up \/ task'[h].up = <<>>
  <2>1. Becomes(g, [task[g] EXCEPT !.phase = "up", !.up = <<>>])
    BY <1>5, DialFields
  <2>2. [task[g] EXCEPT !.phase = "up", !.up = <<>>].up = <<>>
    BY <1>0 DEF Task
  <2> QED
    BY <2>1, <2>2 DEF Becomes
<1>6. ASSUME NEW g \in Generation, TakeCommand(g) PROVE task'[h].up = task[h].up
  <2>1. PICK s : s = [task[g] EXCEPT !.book = Append(@, Head(task[g].queue)), !.queue = Tail(@)]
    OBVIOUS
  <2>2. Becomes(g, s)
    BY <1>6, <2>1, TakeFields
  <2>3. s.up = task[g].up
    BY <1>0, <2>1 DEF Task
  <2> QED
    BY <2>2, <2>3 DEF Becomes
<1>7. ASSUME NEW g \in Generation, Retire(g) PROVE task'[h].up = task[h].up
  <2>1. PICK s : s = [task[g] EXCEPT !.book = Tail(@), !.sending = FALSE]
    OBVIOUS
  <2>2. Becomes(g, s)
    BY <1>7, <2>1, RetireFields
  <2>3. s.up = task[g].up
    BY <1>0, <2>1 DEF Task
  <2> QED
    BY <2>2, <2>3 DEF Becomes
<1>8. ASSUME NEW g \in Generation, Receive(g) PROVE task'[h].up = task[h].up
  <2>1. PICK out : task' = [task EXCEPT ![g].down = Tail(@), ![g].held = <<>>, ![g].pump = @ \o out[1]]
    BY <1>8 DEF Receive
  <2>2. PICK d, p : d = Tail(task[g].down) /\ p = task[g].pump \o out[1]
    OBVIOUS
  <2>3. task' = [task EXCEPT ![g] = [task[g] EXCEPT !.down = d, !.held = <<>>, !.pump = p]]
    BY <1>0, <2>1, <2>2 DEF TypeOK
  <2>4. task'[h] = IF h = g THEN [task[g] EXCEPT !.down = d, !.held = <<>>, !.pump = p] ELSE task[h]
    BY <2>3 DEF TypeOK
  <2>5. [task[g] EXCEPT !.down = d, !.held = <<>>, !.pump = p].up = task[g].up
    BY <1>0 DEF Task
  <2> QED
    BY <2>4, <2>5
<1>9. ASSUME NEW g \in Generation, Hold(g) PROVE task'[h].up = task[h].up
  <2>1. PICK s : s = [task[g] EXCEPT !.down = Tail(@), !.held = <<Head(task[g].down)>>]
    OBVIOUS
  <2>2. Becomes(g, s) /\ s.up = task[g].up
    BY <1>0, <1>9, <2>1, HoldFields DEF Task
  <2> QED
    BY <2>2 DEF Becomes
<1>10. ASSUME NEW g \in Generation, FlushHeld(g) PROVE task'[h].up = task[h].up
  <2>1. PICK s : s = [task[g] EXCEPT !.pump = @ \o task[g].held, !.held = <<>>]
    OBVIOUS
  <2>2. Becomes(g, s)
    BY <1>10, <2>1, FlushFields
  <2>3. s.up = task[g].up
    BY <1>0, <2>1 DEF Task
  <2> QED
    BY <2>2, <2>3 DEF Becomes
<1> QED
  BY <1>1, <1>2, <1>3, <1>4, <1>5, <1>6, <1>7, <1>8, <1>9, <1>10 DEF Quiet

LEMMA SubmitUp ==
  ASSUME TypeOK, NEW o \in Order, SubmitOrder(o), NEW h \in Generation
  PROVE  task'[h].up = task[h].up
<1>1. CASE Accepting
  <2>1. channel \in Generation
    BY <1>1, ChannelIsGeneration DEF Accepting
  <2>2. PICK c : c = [verb |-> "submit", order |-> o]
    OBVIOUS
  <2>3. c \in Command /\ Queue(c)
    BY <1>1, <2>2 DEF Command, SubmitOrder
  <2>4. PICK s : s = [task[channel] EXCEPT !.queue = Append(@, c)]
    OBVIOUS
  <2>5. Becomes(channel, s) /\ s.up = task[channel].up
    BY <2>1, <2>3, <2>4, Lanes, QueueFields DEF Task
  <2> QED
    BY <2>1, <2>5 DEF Becomes
<1>2. CASE ~Accepting
  BY <1>2 DEF SubmitOrder
<1> QED
  BY <1>1, <1>2

LEMMA DeliverUp ==
  ASSUME TypeOK, NEW g \in Generation, Deliver(g), NEW h \in Generation
  PROVE  task'[h].up = task[h].up
<1>1. PICK s : s = [task[g] EXCEPT !.pump = Tail(@)]
  OBVIOUS
<1>2. Becomes(g, s) /\ s.up = task[g].up
  BY <1>1, Lanes, DeliverFields DEF Task
<1> QED
  BY <1>2 DEF Becomes

LEMMA WiredNext ==
  ASSUME TypeOK, TypeOK', Known, Wired, Frames, Debts, Next
  PROVE  Wired'
<1>1. \A h \in Generation : Submits(task'[h].up) \subseteq Order
  <2>1. \A h \in Generation : task'[h].up \in Seq(Command)
    BY DEF TypeOK, Task, Generation
  <2> QED
    BY <2>1, SubmitsAreOrders
<1>2. \A h \in Generation : \A o \in Order : o \in Submits(task[h].up) => o \in Sent
  BY DEF Wired
<1> SUFFICES ASSUME NEW h \in Generation, NEW o \in Order, o \in Submits(task'[h].up)
             PROVE  o \in Sent'
  BY <1>1 DEF Wired, Generation
<1>3. o \notin Submits(<<>>)
  BY SubmitsPlaces, NothingSubmits
<1>4. CASE Quiet
  <2>1. o \in Sent
    BY <1>2, <1>3, <1>4, QuietUp
  <2> QED
    BY <1>4, <2>1, QuietIsCalm DEF Calm, Sent
<1>5. CASE \E p \in Order : SubmitOrder(p)
  <2>1. o \in Sent
    BY <1>2, <1>5, SubmitUp
  <2> QED
    BY <1>5, <2>1 DEF SubmitOrder, Sent
<1>6. CASE \E g \in Generation : WriteFrame(g)
  <2>1. PICK g \in Generation : WriteFrame(g)
    BY <1>6
  <2>2. PICK s : s = [task[g] EXCEPT !.up = Append(@, Head(task[g].book)), !.sending = TRUE]
    OBVIOUS
  <2>3. Becomes(g, s)
    BY <2>1, <2>2, WriteFields
  <2>4. s.up = Append(task[g].up, Head(task[g].book)) /\ task[g].book # <<>>
    BY <2>1, <2>2, Lanes DEF Task, WriteFrame
  <2>5. /\ history'.guessed = history.guessed
        /\ o \in history'.written <=> o \in history.written \/ Owes(g, 1, o)
    BY <2>1, WriteLeaves
  <2>6. CASE h # g
    <3>1. task'[h] = task[h]
      BY <2>3, <2>6 DEF Becomes
    <3>2. o \in Sent
      BY <1>2, <3>1
    <3> QED
      BY <2>5, <3>2 DEF Sent
  <2>7. CASE h = g
    <3>1. PICK q, c : q = task[g].up /\ c = Head(task[g].book)
      OBVIOUS
    <3>2. q \in Seq(Command) /\ c \in Command
      BY <2>4, <3>1, Lanes, HeadTailProperties
    <3>3. task'[h].up = Append(q, c)
      BY <2>3, <2>4, <2>7, <3>1 DEF Becomes
    <3>4. \A x : x \in Submits(Append(q, c)) => x \in Submits(q) \/ (c.verb = "submit" /\ c.order = x)
      <4>1. DOMAIN Append(q, c) \subseteq Nat
        BY <3>2, AppendProperties, LenProperties
      <4> QED
        <5>1. ASSUME NEW x, x \in Submits(Append(q, c))
              PROVE  x \in Submits(q) \/ (c.verb = "submit" /\ c.order = x)
          <6>1. PICK i \in DOMAIN Append(q, c) : IsSubmit(Append(q, c), i, x)
            BY <5>1, SubmitsPlaces
          <6>2. i \in Nat
            BY <4>1, <6>1
          <6>3. IsSubmit(q, i, x) \/ (c.verb = "submit" /\ c.order = x)
            BY <3>2, <6>1, <6>2, AppendedSubmits
          <6> QED
            BY <6>3, SubmitsPlaces DEF IsSubmit
        <5> QED
          BY <5>1
    <3>5. c.verb = "submit" /\ c.order = o => o \in Submits(<<Head(task[g].book)>>)
      BY <3>1 DEF Submits
    <3>6. o \in Submits(<<Head(task[g].book)>>) => Owes(g, 1, o)
      BY <2>4, HeadOwes
    <3>7. o \in Submits(q) \/ Owes(g, 1, o)
      BY <3>3, <3>4, <3>5, <3>6
    <3>8. o \in Submits(q) => o \in Sent
      BY <1>2, <3>1
    <3> QED
      BY <2>5, <3>7, <3>8 DEF Sent
  <2> QED
    BY <2>6, <2>7
<1>7. CASE \E g \in Generation : Disconnect(g) \/ GiveUp(g) \/ Die(g)
  <2>1. PICK g \in Generation : Disconnect(g) \/ GiveUp(g) \/ Die(g)
    BY <1>7
  <2>2. PICK n, k : Reports(g, n, k)
    BY <2>1, ReportingSteps
  <2>3. o \in Sent => o \in Sent'
    BY <2>2, ReportedMirror
  <2>4. CASE h # g
    BY <1>2, <2>2, <2>3, <2>4 DEF Reports
  <2>5. CASE h = g
    <3>1. o \in Submits(task[g].up) \/ \E i \in 1..k : Owes(g, i, o)
      BY <2>2, <2>5 DEF Reports
    <3>2. (\E i \in 1..k : Owes(g, i, o)) => o \in history'.guessed
      BY <2>2 DEF Reports
    <3> QED
      BY <1>2, <2>3, <3>1, <3>2 DEF Sent
  <2> QED
    BY <2>4, <2>5
<1>8. CASE \E g \in Generation : Deliver(g)
  <2>1. o \in Sent
    BY <1>2, <1>8, DeliverUp
  <2> QED
    BY <1>8, <2>1, DeliverLeaves DEF Sent
<1>9. CASE \E g \in Generation : VenueHandle(g)
  <2>1. PICK g \in Generation : VenueHandle(g)
    BY <1>9
  <2>2. PICK e \in Event : \A x \in Generation :
             task'[x] = Reading(g, x) \/ task'[x] = Heard(Reading(g, x), e)
    BY <2>1, HandleFields
  <2>3. Reading(g, h) \in Task /\ task[g].up # <<>>
    BY <2>1, ReadingIsTask DEF VenueHandle
  <2>4. task'[h].up = Reading(g, h).up
    BY <2>2, <2>3 DEF Heard, Task
  <2>5. Reading(g, h).up = IF h = g THEN Tail(task[g].up) ELSE task[h].up
    BY Lanes DEF Reading, Task
  <2>6. \A x : x \in Submits(Tail(task[g].up)) => x \in Submits(task[g].up)
    <3>1. PICK b : b = task[g].up
      OBVIOUS
    <3>2. b \in Seq(Command) /\ b # <<>>
      BY <2>3, <3>1, Lanes
    <3>3. DOMAIN Tail(b) \subseteq Nat
      BY <3>2, HeadTailProperties, LenProperties
    <3>4. \A i \in Nat : \A x : IsSubmit(Tail(b), i, x) <=> i > 0 /\ IsSubmit(b, i + 1, x)
      BY <3>2, TailSubmits
    <3>5. \A x : x \in Submits(Tail(b)) => x \in Submits(b)
      <4>1. ASSUME NEW x, x \in Submits(Tail(b)) PROVE x \in Submits(b)
        <5>1. PICK i \in DOMAIN Tail(b) : IsSubmit(Tail(b), i, x)
          BY <4>1, SubmitsPlaces
        <5>2. IsSubmit(b, i + 1, x)
          BY <3>3, <3>4, <5>1
        <5> QED
          BY <5>2, SubmitsPlaces DEF IsSubmit
      <4> QED
        BY <4>1
    <3> QED
      BY <3>1, <3>5
  <2>7. o \in Sent
    BY <1>2, <2>4, <2>5, <2>6
  <2>8. history'.written = history.written /\ history'.guessed = history.guessed
    BY <2>1, HandleFields
  <2> QED
    BY <2>7, <2>8 DEF Sent
<1>10. CASE \E p \in Order : VenueTriggers(p) \/ VenueFill(p)
  <2>1. PICK p \in Order : VenueTriggers(p) \/ VenueFill(p)
    BY <1>10
  <2>2. PICK e \in Event : \A x \in Generation : task'[x] = task[x] \/ task'[x] = Heard(task[x], e)
    BY <2>1, SpeaksFields
  <2>3. task'[h].up = task[h].up
    BY <2>2, Lanes DEF Heard, Task
  <2>4. history'.written = history.written /\ history'.guessed = history.guessed
    BY <2>1, SpeaksFields
  <2> QED
    BY <1>2, <2>3, <2>4 DEF Sent
<1> QED
  BY <1>4, <1>5, <1>6, <1>7, <1>8, <1>9, <1>10, StepKinds
----------------------------------------------------------------------------
(* What the frames say.                                                    *)

\* Frames from a set, lane by lane.
Framed(t, F) == t.down \in Seq(F) /\ t.held \in Seq(F) /\ t.pump \in Seq(F)

LEMMA SeqNarrow ==
  ASSUME NEW S, NEW T, NEW s \in Seq(S), \A i \in DOMAIN s : s[i] \in T
  PROVE  s \in Seq(T)
<1>1. s \in [1..Len(s) -> S] /\ Len(s) \in Nat
  BY LenProperties
<1>2. s = [i \in 1..Len(s) |-> s[i]] /\ \A i \in 1..Len(s) : s[i] \in T
  BY <1>1
<1>3. s \in [1..Len(s) -> T]
  BY <1>2
<1> QED
  BY <1>1, <1>3, SeqDef

LEMMA FramesIn ==
  ASSUME TypeOK, Frames, NEW h \in Generation, NEW F, \A e \in Event : Founded(e) => e \in F
  PROVE  Framed(task[h], F)
<1>1. ASSUME NEW s \in Seq(Event), AllFounded(s) PROVE s \in Seq(F)
  <2>1. \A i \in DOMAIN s : s[i] \in Event
    BY ElementOfSeq, LenProperties
  <2>2. \A i \in DOMAIN s : s[i] \in F
    BY <1>1, <2>1 DEF AllFounded
  <2> QED
    BY <2>2, SeqNarrow
<1> QED
  BY <1>1, Lanes DEF Frames, Framed

LEMMA FramesOut ==
  ASSUME NEW F, \A e \in F : Founded(e)', \A h \in Generation : Framed(task'[h], F)
  PROVE  Frames'
<1>1. ASSUME NEW s \in Seq(F), NEW i \in DOMAIN s PROVE Founded(s[i])'
  <2>1. s[i] \in F
    BY ElementOfSeq, LenProperties
  <2> QED
    BY <2>1
<1>2. ASSUME NEW h \in Generation
      PROVE  AllFounded(task[h].down)' /\ AllFounded(task[h].held)' /\ AllFounded(task[h].pump)'
  <2>1. PICK d, l, p : d = task'[h].down /\ l = task'[h].held /\ p = task'[h].pump
    OBVIOUS
  <2>2. d \in Seq(F) /\ l \in Seq(F) /\ p \in Seq(F)
    BY <2>1 DEF Framed
  <2>3. AllFounded(d)' /\ AllFounded(l)' /\ AllFounded(p)'
    BY <1>1, <2>2 DEF AllFounded
  <2> QED
    BY <2>1, <2>3 DEF AllFounded
<1> QED
  BY <1>2 DEF Frames, Generation

LEMMA FramedPlaced ==
  ASSUME NEW g \in Generation, NEW s, Becomes(g, s), NEW F,
         \A h \in Generation : Framed(task[h], F), Framed(s, F)
  PROVE  \A h \in Generation : Framed(task'[h], F)
BY DEF Becomes

\* Tasks with the same frames in the same lanes.
SameFrames(s, t) == s.down = t.down /\ s.held = t.held /\ s.pump = t.pump

LEMMA FramedSame ==
  ASSUME NEW s, NEW t, SameFrames(s, t), NEW F, Framed(t, F)
  PROVE  Framed(s, F)
BY DEF SameFrames, Framed

LEMMA SameFramesExcept ==
  ASSUME NEW t \in Task, NEW x, NEW y
  PROVE  /\ SameFrames([t EXCEPT !.queue = x], t) /\ SameFrames([t EXCEPT !.ready = x], t)
         /\ SameFrames([t EXCEPT !.phase = x, !.up = y], t)
         /\ SameFrames([t EXCEPT !.book = x, !.queue = y], t)
         /\ SameFrames([t EXCEPT !.up = x, !.sending = y], t)
         /\ SameFrames([t EXCEPT !.book = x, !.sending = y], t)
         /\ SameFrames([t EXCEPT !.up = x], t)
BY DEF SameFrames, Task

LEMMA FramedExcept ==
  ASSUME TypeOK, NEW g \in Generation, NEW s, Becomes(g, s), SameFrames(s, task[g]), NEW F,
         \A h \in Generation : Framed(task[h], F)
  PROVE  \A h \in Generation : Framed(task'[h], F)
BY FramedSame, FramedPlaced

\* The venue never unlearns an order and never reopens one.
LEMMA VenueOnward ==
  ASSUME TypeOK, Known, Next
  PROVE  \A o \in Order : /\ venue[o].phase # "unknown" => venue'[o].phase # "unknown"
                          /\ venue[o].phase = "closed" => venue'[o].phase = "closed"
<1>1. CASE venue' = venue
  BY <1>1
<1>2. CASE \E g \in Generation : VenueHandle(g)
  <2>1. PICK g \in Generation : VenueHandle(g)
    BY <1>2
  <2>2. \A o \in Order : \/ venue'[o] = venue[o]
                         \/ /\ venue[o].phase = "unknown" \/ Live(o)
                            /\ venue'[o].phase # "unknown"
    BY <2>1, HandleFields
  <2> QED
    BY <2>2 DEF Live
<1>3. CASE \E o \in Order : VenueTriggers(o) \/ VenueFill(o)
  <2>1. \A o \in Order : \/ venue'[o] = venue[o]
                         \/ Live(o) /\ venue'[o].phase # "unknown"
    BY <1>3, SpeaksFields
  <2> QED
    BY <2>1 DEF Live
<1>4. Quiet => venue' = venue
  BY QuietIsCalm DEF Calm
<1>5. (\E o \in Order : SubmitOrder(o)) => venue' = venue
  BY DEF SubmitOrder
<1> QED
  BY <1>1, <1>2, <1>3, <1>4, <1>5, StepKinds, ReportingSteps, DeliverLeaves, WriteLeaves

LEMMA FoundedStands ==
  ASSUME TypeOK, Known, Next, NEW e \in Event, Founded(e)
  PROVE  Founded(e)'
<1>1. e.order \in Order
  BY DEF Event
<1> QED
  BY <1>1, VenueOnward DEF Founded, Quantity

LEMMA HeardFramed ==
  ASSUME NEW F, NEW t \in Task, Framed(t, F), NEW e \in F
  PROVE  Framed(Heard(t, e), F)
<1>1. PICK d : d = t.down
  OBVIOUS
<1>2. d \in Seq(F) /\ Append(d, e) \in Seq(F)
  BY <1>1, AppendProperties DEF Framed
<1>3. /\ Heard(t, e).down = Append(t.down, e)
      /\ Heard(t, e).held = t.held /\ Heard(t, e).pump = t.pump
  BY DEF Heard, Task
<1> QED
  BY <1>1, <1>2, <1>3 DEF Framed

LEMMA TornFramed ==
  ASSUME TypeOK, NEW g \in Generation, NEW phase \in {"dialing", "ended"}, NEW F, Framed(task[g], F)
  PROVE  /\ Framed(Torn(task[g], phase), F)
         /\ Framed([Torn(task[g], phase) EXCEPT !.queue = <<>>], F)
<1>1. PICK p, l : p = task[g].pump /\ l = task[g].held
  OBVIOUS
<1>2. p \in Seq(F) /\ l \in Seq(F) /\ p \o l \in Seq(F) /\ <<>> \in Seq(F)
  BY <1>1, ConcatProperties, EmptySeq DEF Framed
<1>3. PICK t : t = Torn(task[g], phase)
  OBVIOUS
<1>4. t \in Task /\ t.pump = p \o l
  BY <1>1, <1>3, TornFields
<1>5. t.down = <<>> /\ t.held = <<>>
  BY <1>3, Lanes DEF Torn, Task
<1>6. SameFrames([t EXCEPT !.queue = <<>>], t)
  BY <1>4, SameFramesExcept
<1>7. Framed(t, F)
  BY <1>2, <1>4, <1>5 DEF Framed
<1> QED
  BY <1>3, <1>6, <1>7, FramedSame

LEMMA NoTaskFramed ==
  ASSUME NEW F, NEW x, NEW y, NEW z
  PROVE  /\ Framed([NoTask EXCEPT !.phase = x], F)
         /\ Framed([NoTask EXCEPT !.phase = x, !.ready = y, !.up = z], F)
<1>1. <<>> \in Seq(F)
  BY EmptySeq
<1> QED
  BY <1>1 DEF Framed, NoTask

LEMMA FramesNext ==
  ASSUME TypeOK, Known, Frames, Next
  PROVE  Frames'
<1>1. PICK F : F = {e \in Event : Founded(e)'}
  OBVIOUS
<1>2. \A e \in Event : Founded(e) => e \in F
  BY <1>1, FoundedStands
<1>3. \A h \in Generation : Framed(task[h], F) /\ task[h] \in Task
  BY <1>2, FramesIn, Lanes
<1> SUFFICES \A h \in Generation : Framed(task'[h], F)
  BY <1>1, FramesOut
<1>4. CASE \E o \in Order : SubmitOrder(o)
  <2>1. PICK o \in Order : SubmitOrder(o)
    BY <1>4
  <2>2. CASE Accepting
    <3>1. channel \in Generation
      BY <2>2, ChannelIsGeneration DEF Accepting
    <3>2. PICK c : c = [verb |-> "submit", order |-> o]
      OBVIOUS
    <3>3. c \in Command /\ Queue(c)
      BY <2>1, <2>2, <3>2 DEF Command, SubmitOrder
    <3> QED
      BY <1>3, <3>1, <3>3, QueueFields, SameFramesExcept, FramedExcept
  <2>3. CASE ~Accepting
    <3>1. task' = task
      BY <2>1, <2>3 DEF SubmitOrder
    <3> QED
      BY <1>3, <3>1
  <2> QED
    BY <2>2, <2>3
<1>5. CASE \E o \in Order, verb \in {"cancel", "modify"} : ChangeOrder(verb, o)
  <2>1. PICK o \in Order, verb \in {"cancel", "modify"} : ChangeOrder(verb, o)
    BY <1>5
  <2>2. channel \in Generation
    BY <2>1, ChannelIsGeneration DEF ChangeOrder, Accepting
  <2>3. PICK c : c = [verb |-> verb, order |-> o]
    OBVIOUS
  <2>4. c \in Command /\ Queue(c)
    BY <2>1, <2>3 DEF Command, ChangeOrder
  <2> QED
    BY <1>3, <2>2, <2>4, QueueFields, SameFramesExcept, FramedExcept
<1>6. CASE Stop \/ ConnectFails
  <2>1. task' = Aborted
    BY <1>6 DEF Stop, ConnectFails
  <2>2. \A h \in Generation : SameFrames(Aborted[h], task[h])
    BY AbortedLanes DEF SameFrames
  <2> QED
    BY <1>3, <2>1, <2>2, FramedSame
<1>7. CASE Connect
  <2>1. /\ task'[issued'] = [NoTask EXCEPT !.phase = "dialing"]
        /\ \A h \in Generation \ {issued'} : task'[h] = Aborted[h]
    BY <1>7, ConnectFields
  <2>2. \A h \in Generation : SameFrames(Aborted[h], task[h])
    BY AbortedLanes DEF SameFrames
  <2>3. Framed([NoTask EXCEPT !.phase = "dialing"], F)
    BY NoTaskFramed
  <2>4. \A h \in Generation : Framed(Aborted[h], F)
    BY <1>3, <2>2, FramedSame
  <2>5. \A h \in Generation : h = issued' \/ h \in Generation \ {issued'}
    OBVIOUS
  <2> QED
    BY <2>1, <2>3, <2>4, <2>5
<1>8. CASE ConnectDone
  <2>1. channel \in Generation
    BY <1>8, ChannelIsGeneration DEF ConnectDone, Free
  <2> QED
    BY <1>3, <1>8, <2>1, ReadyFields, SameFramesExcept, FramedExcept
<1>9. ASSUME NEW g \in Generation, Dial(g) PROVE \A h \in Generation : Framed(task'[h], F)
  BY <1>3, <1>9, DialFields, SameFramesExcept, FramedExcept
<1>10. ASSUME NEW g \in Generation, TakeCommand(g) PROVE \A h \in Generation : Framed(task'[h], F)
  BY <1>3, <1>10, TakeFields, SameFramesExcept, FramedExcept
<1>11. ASSUME NEW g \in Generation, WriteFrame(g) PROVE \A h \in Generation : Framed(task'[h], F)
  BY <1>3, <1>11, WriteFields, SameFramesExcept, FramedExcept
<1>12. ASSUME NEW g \in Generation, Retire(g) PROVE \A h \in Generation : Framed(task'[h], F)
  BY <1>3, <1>12, RetireFields, SameFramesExcept, FramedExcept
<1>13. ASSUME NEW g \in Generation, Disconnect(g) PROVE \A h \in Generation : Framed(task'[h], F)
  BY <1>3, <1>13, DisconnectFields, TornFramed, FramedPlaced
<1>14. ASSUME NEW g \in Generation, GiveUp(g) PROVE \A h \in Generation : Framed(task'[h], F)
  BY <1>3, <1>14, GiveUpFields, TornFramed, FramedPlaced
<1>15. ASSUME NEW g \in Generation, Die(g) PROVE \A h \in Generation : Framed(task'[h], F)
  <2>1. PICK k \in MidLen(g)..Len(task[g].book) :
          task' = [task EXCEPT ![g] = [NoTask EXCEPT !.phase = "ended", !.ready = task[g].ready,
                        !.up = task[g].up \o SubSeq(task[g].book, MidLen(g) + 1, k)]]
    BY <1>15, MidWriteSeq DEF Die
  <2>2. PICK u, r : u = task[g].up \o SubSeq(task[g].book, MidLen(g) + 1, k) /\ r = task[g].ready
    OBVIOUS
  <2>3. PICK s : s = [NoTask EXCEPT !.phase = "ended", !.ready = r, !.up = u]
    OBVIOUS
  <2>4. s \in Task
    BY <2>2, <2>3, DieFields
  <2>5. task' = [task EXCEPT ![g] = s]
    BY <2>1, <2>2, <2>3
  <2>6. Framed(s, F)
    BY <2>3, NoTaskFramed
  <2> QED
    BY <1>3, <2>4, <2>5, <2>6, Placed, FramedPlaced
<1>16. ASSUME NEW g \in Generation, Receive(g) PROVE \A h \in Generation : Framed(task'[h], F)
  <2>1. PICK d, l, p : d = task[g].down /\ l = task[g].held /\ p = task[g].pump
    OBVIOUS
  <2>2. d # <<>> /\ d \in Seq(F) /\ l \in Seq(F) /\ p \in Seq(F)
    BY <1>3, <1>16, <2>1 DEF Receive, Framed
  <2>3. PICK out \in Tampered(<<Head(d)>> \o l) :
          task' = [task EXCEPT ![g].down = Tail(@), ![g].held = <<>>, ![g].pump = @ \o out[1]]
    BY <1>16, <2>1 DEF Receive
  <2>4. Head(d) \in F /\ Tail(d) \in Seq(F)
    BY <2>2, HeadTailProperties
  <2>5. <<Head(d)>> \o l \in Seq(F)
    BY <2>2, <2>4, OneSeq, ConcatProperties
  <2>6. out[1] \in Seq(F)
    BY <2>3, <2>5, TamperedSeq
  <2>7. PICK u, v : u = Tail(d) /\ v = p \o out[1]
    OBVIOUS
  <2>8. u \in Seq(F) /\ v \in Seq(F) /\ <<>> \in Seq(F)
    BY <2>2, <2>4, <2>6, <2>7, ConcatProperties, EmptySeq
  <2>9. PICK s : s = [task[g] EXCEPT !.down = u, !.held = <<>>, !.pump = v]
    OBVIOUS
  <2>10. s.down = u /\ s.held = <<>> /\ s.pump = v
    BY <1>3, <2>9 DEF Task
  <2>11. task \in [Generation -> Task]
    BY DEF TypeOK
  <2>12. task' = [task EXCEPT ![g] = s]
    BY <1>3, <2>1, <2>3, <2>7, <2>9, <2>11
  <2>13. Framed(s, F)
    BY <2>8, <2>10 DEF Framed
  <2>14. \A h \in Generation : task'[h] = IF h = g THEN s ELSE task[h]
    BY <2>11, <2>12
  <2> QED
    BY <1>3, <2>13, <2>14
<1>17. ASSUME NEW g \in Generation, Hold(g) PROVE \A h \in Generation : Framed(task'[h], F)
  <2>1. PICK d : d = task[g].down
    OBVIOUS
  <2>2. d # <<>> /\ d \in Seq(F) /\ task[g].pump \in Seq(F)
    BY <1>3, <1>17, <2>1 DEF Hold, Framed
  <2>3. Head(d) \in F /\ Tail(d) \in Seq(F) /\ <<Head(d)>> \in Seq(F)
    BY <2>2, HeadTailProperties, OneSeq
  <2>4. PICK s : s = [task[g] EXCEPT !.down = Tail(@), !.held = <<Head(task[g].down)>>]
    OBVIOUS
  <2>5. s.down = Tail(d) /\ s.held = <<Head(d)>> /\ s.pump = task[g].pump
    BY <1>3, <2>1, <2>4 DEF Task
  <2>6. Framed(s, F)
    BY <2>2, <2>3, <2>5 DEF Framed
  <2> QED
    BY <1>3, <1>17, <2>4, <2>6, HoldFields, FramedPlaced
<1>18. ASSUME NEW g \in Generation, FlushHeld(g) PROVE \A h \in Generation : Framed(task'[h], F)
  <2>1. PICK p, l : p = task[g].pump /\ l = task[g].held
    OBVIOUS
  <2>2. p \in Seq(F) /\ l \in Seq(F) /\ task[g].down \in Seq(F)
    BY <1>3, <2>1 DEF Framed
  <2>3. p \o l \in Seq(F) /\ <<>> \in Seq(F)
    BY <2>2, ConcatProperties, EmptySeq
  <2>4. PICK s : s = [task[g] EXCEPT !.pump = @ \o task[g].held, !.held = <<>>]
    OBVIOUS
  <2>5. s.down = task[g].down /\ s.held = <<>> /\ s.pump = p \o l
    BY <1>3, <2>1, <2>4 DEF Task
  <2>6. Framed(s, F)
    BY <2>2, <2>3, <2>5 DEF Framed
  <2> QED
    BY <1>3, <1>18, <2>4, <2>6, FlushFields, FramedPlaced
<1>19. ASSUME NEW g \in Generation, Deliver(g) PROVE \A h \in Generation : Framed(task'[h], F)
  <2>1. PICK p : p = task[g].pump
    OBVIOUS
  <2>2. p \in Seq(F) /\ p # <<>> /\ task[g].down \in Seq(F) /\ task[g].held \in Seq(F)
    BY <1>3, <1>19, <2>1 DEF Framed, Deliver
  <2>3. Tail(p) \in Seq(F)
    BY <2>2, HeadTailProperties
  <2>4. PICK s : s = [task[g] EXCEPT !.pump = Tail(@)]
    OBVIOUS
  <2>5. s.down = task[g].down /\ s.held = task[g].held /\ s.pump = Tail(p)
    BY <1>3, <2>1, <2>4 DEF Task
  <2>6. Framed(s, F)
    BY <2>2, <2>3, <2>5 DEF Framed
  <2> QED
    BY <1>3, <1>19, <2>4, <2>6, DeliverFields, FramedPlaced
<1>20. ASSUME NEW g \in Generation, VenueHandle(g) PROVE \A h \in Generation : Framed(task'[h], F)
  <2>1. \A h \in Generation : Reading(g, h) \in Task /\ Framed(Reading(g, h), F)
    <3>1. TAKE h \in Generation
    <3>2. Reading(g, h) \in Task
      BY <1>20, ReadingIsTask DEF VenueHandle
    <3>3. SameFrames(Reading(g, h), task[h])
      BY <1>3 DEF SameFrames, Reading, Task
    <3> QED
      BY <1>3, <3>2, <3>3, FramedSame
  <2>2. PICK e \in Event :
          /\ \A h \in Generation : task'[h] = Reading(g, h) \/ task'[h] = Heard(Reading(g, h), e)
          /\ \/ /\ venue'[e.order].phase # "unknown"
                /\ e.kind = "updated" => e.filled < Quantity
                /\ e.kind # "filled"
                /\ (e.kind \in {"canceled", "rejected"} \/ e.filled = Quantity) =>
                      venue'[e.order].phase = "closed"
             \/ \A h \in Generation : task'[h] = Reading(g, h)
    BY <1>20, HandleFields
  <2>3. CASE \A h \in Generation : task'[h] = Reading(g, h)
    BY <2>1, <2>3
  <2>4. CASE /\ venue'[e.order].phase # "unknown"
             /\ e.kind = "updated" => e.filled < Quantity
             /\ e.kind # "filled"
             /\ (e.kind \in {"canceled", "rejected"} \/ e.filled = Quantity) =>
                   venue'[e.order].phase = "closed"
    <3>1. e \in F
      BY <1>1, <2>4 DEF Founded, Quantity
    <3>2. \A h \in Generation : Framed(Heard(Reading(g, h), e), F)
      BY <2>1, <3>1, HeardFramed
    <3> QED
      BY <2>1, <2>2, <3>2
  <2> QED
    BY <2>2, <2>3, <2>4
<1>21. CASE \E o \in Order : VenueTriggers(o) \/ VenueFill(o)
  <2>1. PICK o \in Order : VenueTriggers(o) \/ VenueFill(o)
    BY <1>21
  <2>2. PICK e \in Event :
              /\ \A h \in Generation : task'[h] = task[h] \/ task'[h] = Heard(task[h], e)
              /\ venue'[e.order].phase # "unknown"
              /\ e.kind \notin {"updated", "canceled", "rejected"}
              /\ e.kind = "filled" => e.filled > 0
              /\ e.filled = Quantity => venue'[e.order].phase = "closed"
    BY <2>1, SpeaksFields
  <2>3. e \in F
    BY <1>1, <2>2 DEF Founded, Quantity
  <2>4. \A h \in Generation : Framed(Heard(task[h], e), F)
    BY <1>3, <2>3, HeardFramed
  <2> QED
    BY <1>3, <2>2, <2>4
<1> QED
  BY <1>4, <1>5, <1>6, <1>7, <1>8, <1>9, <1>10, <1>11, <1>12, <1>13, <1>14, <1>15, <1>16, <1>17,
     <1>18, <1>19, <1>20, <1>21, StepKinds DEF Quiet
----------------------------------------------------------------------------
(* Generations not issued yet.                                             *)

Idle(t) == /\ t.phase = "none" /\ ~t.stopping /\ ~t.sending /\ t.queue = <<>> /\ t.book = <<>>
           /\ t.held = <<>> /\ t.pump = <<>>

LEMMA UnissuedIsIdle == Unissued <=> \A g \in Generation : g > issued => Idle(task[g])
BY DEF Unissued, Idle

LEMMA IdleTakesNoStep ==
  ASSUME NEW g \in Generation, Idle(task[g])
  PROVE  /\ ~Dial(g) /\ ~TakeCommand(g) /\ ~WriteFrame(g) /\ ~Retire(g)
         /\ ~Disconnect(g) /\ ~GiveUp(g) /\ ~Die(g)
         /\ ~Receive(g) /\ ~Hold(g) /\ ~FlushHeld(g) /\ ~Deliver(g)
<1>1. /\ ~Dial(g) /\ ~TakeCommand(g) /\ ~WriteFrame(g) /\ ~Retire(g)
  BY DEF Idle, Dial, TakeCommand, WriteFrame, Retire
<1>2. ~Disconnect(g) /\ ~GiveUp(g) /\ ~Die(g)
  BY DEF Idle, Disconnect, GiveUp, Die, Working
<1>3. ~Receive(g) /\ ~Hold(g) /\ ~FlushHeld(g) /\ ~Deliver(g)
  BY DEF Idle, Receive, Hold, FlushHeld, Deliver
<1> QED
  BY <1>1, <1>2, <1>3

\* A step of one generation's leaves the tasks of the others alone.
LEMMA StepsAlone ==
  ASSUME TypeOK, NEW g \in Generation,
         \/ Dial(g) \/ TakeCommand(g) \/ WriteFrame(g) \/ Retire(g)
         \/ Disconnect(g) \/ GiveUp(g) \/ Die(g)
         \/ Receive(g) \/ Hold(g) \/ FlushHeld(g) \/ Deliver(g)
  PROVE  issued' = issued /\ \A h \in Generation \ {g} : task'[h] = task[h]
<1>1. CASE Dial(g) \/ TakeCommand(g) \/ WriteFrame(g) \/ Retire(g)
  BY <1>1, DialFields, TakeFields, WriteFields, RetireFields
     DEF Becomes, Dial, TakeCommand, WriteFrame, Retire
<1>2. CASE Hold(g) \/ FlushHeld(g) \/ Deliver(g)
  BY <1>2, HoldFields, FlushFields, DeliverFields DEF Becomes, Hold, FlushHeld, Deliver
<1>3. CASE Disconnect(g) \/ GiveUp(g) \/ Die(g)
  BY <1>3, ReportingSteps DEF Reports
<1>4. CASE Receive(g)
  <2>1. PICK out : task' = [task EXCEPT ![g].down = Tail(@), ![g].held = <<>>, ![g].pump = @ \o out[1]]
    BY <1>4 DEF Receive
  <2>2. \A h \in Generation \ {g} : task'[h] = task[h]
    BY <2>1 DEF TypeOK
  <2> QED
    BY <1>4, <2>2 DEF Receive
<1> QED
  BY <1>1, <1>2, <1>3, <1>4

LEMMA UnissuedNext ==
  ASSUME TypeOK, Known, Unissued, Next
  PROVE  Unissued'
<1>1. \A g \in Generation : g > issued => Idle(task[g])
  BY UnissuedIsIdle
<1>2. issued \in Nat /\ \A g \in Generation : g \in Nat
  BY Constants DEF TypeOK, Generation
<1> SUFFICES \A h \in Generation : h > issued' => Idle(task'[h])
  BY DEF Unissued, Idle, Generation
<1>3. ASSUME NEW g \in Generation, issued' = issued, g <= issued,
             \A h \in Generation \ {g} : task'[h] = task[h]
      PROVE  \A h \in Generation : h > issued' => Idle(task'[h])
  BY <1>1, <1>2, <1>3
<1>4. CASE (\E o \in Order : SubmitOrder(o))
           \/ \E o \in Order, verb \in {"cancel", "modify"} : ChangeOrder(verb, o)
  <2>1. issued' = issued
    BY <1>4 DEF SubmitOrder, ChangeOrder
  <2>2. CASE task' = task
    BY <1>1, <2>1, <2>2
  <2>3. CASE task' # task
    <3>1. PICK o \in Order, verb \in {"submit", "cancel", "modify"} :
            Accepting /\ Queue([verb |-> verb, order |-> o])
      BY <1>4, <2>3 DEF SubmitOrder, ChangeOrder
    <3>2. [verb |-> verb, order |-> o] \in Command
      BY DEF Command
    <3>3. channel \in Generation /\ channel <= issued
      BY <3>1, ChannelIsGeneration DEF Accepting
    <3>4. \A h \in Generation \ {channel} : task'[h] = task[h]
      BY <3>1, <3>2, <3>3, QueueFields DEF Becomes
    <3> QED
      BY <1>3, <2>1, <3>3, <3>4
  <2> QED
    BY <2>2, <2>3
<1>5. CASE Stop \/ ConnectFails
  <2>1. task' = Aborted /\ issued' = issued
    BY <1>5 DEF Stop, ConnectFails
  <2> QED
    BY <1>1, <2>1, AbortedLanes DEF Idle
<1>6. CASE Connect
  <2>1. /\ issued' = issued + 1
        /\ \A h \in Generation \ {issued'} : task'[h] = Aborted[h]
    BY <1>6, ConnectFields
  <2>2. \A h \in Generation : h > issued' => h > issued /\ task'[h] = Aborted[h]
    BY <1>2, <2>1
  <2> QED
    BY <1>1, <2>2, AbortedLanes DEF Idle
<1>7. CASE ConnectDone
  <2>1. channel \in Generation /\ channel <= issued /\ issued' = issued
    BY <1>7, ChannelIsGeneration DEF ConnectDone, Free
  <2>2. \A h \in Generation \ {channel} : task'[h] = task[h]
    BY <1>7, <2>1, ReadyFields DEF Becomes
  <2> QED
    BY <1>3, <2>1, <2>2
<1>8. ASSUME NEW g \in Generation,
             \/ Dial(g) \/ TakeCommand(g) \/ WriteFrame(g) \/ Retire(g)
             \/ Disconnect(g) \/ GiveUp(g) \/ Die(g)
             \/ Receive(g) \/ Hold(g) \/ FlushHeld(g) \/ Deliver(g)
      PROVE  \A h \in Generation : h > issued' => Idle(task'[h])
  <2>1. g <= issued
    BY <1>1, <1>2, <1>8, IdleTakesNoStep
  <2> QED
    BY <1>3, <1>8, <2>1, StepsAlone
<1>9. CASE \E g \in Generation : VenueHandle(g)
  <2>1. PICK g \in Generation : VenueHandle(g)
    BY <1>9
  <2>2. PICK e \in Event : \A h \in Generation :
             task'[h] = Reading(g, h) \/ task'[h] = Heard(Reading(g, h), e)
    BY <2>1, HandleFields
  <2>3. \A h \in Generation : Idle(task[h]) => Idle(Reading(g, h)) /\ Reading(g, h) \in Task
    BY <2>1, ReadingIsTask, Lanes DEF Idle, Reading, Task, VenueHandle
  <2>4. \A t \in Task : Idle(t) => Idle(Heard(t, e))
    BY DEF Idle, Heard, Task
  <2> QED
    BY <1>1, <1>9, <2>2, <2>3, <2>4, VenueLeaves
<1>10. CASE \E o \in Order : VenueTriggers(o) \/ VenueFill(o)
  <2>1. PICK o \in Order : VenueTriggers(o) \/ VenueFill(o)
    BY <1>10
  <2>2. PICK e \in Event : \A h \in Generation : task'[h] = task[h] \/ task'[h] = Heard(task[h], e)
    BY <2>1, SpeaksFields
  <2>3. \A t \in Task : Idle(t) => Idle(Heard(t, e))
    BY DEF Idle, Heard, Task
  <2> QED
    BY <1>1, <1>10, <2>2, <2>3, VenueLeaves, Lanes
<1> QED
  BY <1>4, <1>5, <1>6, <1>7, <1>8, <1>9, <1>10, StepKinds DEF Quiet

\* A generation that owes something or has frames to deliver was issued.
LEMMA BusyIsIssued ==
  ASSUME TypeOK, Unissued, NEW g \in Generation,
         (\E i \in Nat, o \in Order : Owes(g, i, o)) \/ task[g].pump # <<>>
  PROVE  g = generation \/ Withdrawn
<1>1. /\ issued \in Nat /\ generation \in 0..issued /\ g \in Nat /\ g > 0
  BY Constants DEF TypeOK, Generation
<1>2. g <= issued
  <2>1. CASE task[g].pump # <<>>
    BY <1>1, <2>1 DEF Unissued
  <2>2. CASE g > issued
    <3>1. task[g].book = <<>> /\ task[g].queue = <<>> /\ task[g].pump = <<>>
      BY <2>2 DEF Unissued
    <3>2. Owed(task[g]) = <<>>
      BY <3>1, ConcatEmptySeq, EmptySeq DEF Owed
    <3>3. \A i, o : ~Owes(g, i, o)
      BY <3>2, NothingSubmits DEF Owes
    <3> QED
      BY <3>1, <3>3
  <2> QED
    BY <1>1, <2>1, <2>2
<1> QED
  BY <1>1, <1>2 DEF Withdrawn
----------------------------------------------------------------------------
(* How orders end.                                                         *)

\* Once the generation that would have told the host is withdrawn, it stays so.
LEMMA WithdrawnStands ==
  ASSUME TypeOK, Next, Withdrawn
  PROVE  Withdrawn'
<1>1. issued \in Nat /\ generation \in 0..issued
  BY Constants DEF TypeOK
<1>2. CASE issued' = issued /\ (generation' = generation \/ generation' = 0)
  BY <1>1, <1>2 DEF Withdrawn
<1>3. CASE issued' = issued + 1
  BY <1>1, <1>3 DEF Withdrawn
<1>4. Quiet => issued' = issued + 1 \/ (issued' = issued /\ (generation' = generation \/ generation' = 0))
  BY DEF Quiet, ChangeOrder, Stop, Connect, ConnectDone, ConnectFails, Dial, TakeCommand, Retire,
         Receive, Hold, FlushHeld
<1>5. \A o \in Order : SubmitOrder(o) => issued' = issued /\ generation' = generation
  BY DEF SubmitOrder
<1> QED
  BY <1>2, <1>3, <1>4, <1>5, StepKinds, ReportingSteps, DeliverLeaves, VenueLeaves, WriteLeaves

\* Where the order stands before the step, and what the step makes of it.
LEMMA HonestStands ==
  ASSUME NEW o, Honest(o),
         venue[o].phase = "closed" => venue'[o].phase = "closed",
         o \in history.guessed => o \in history'.guessed,
         venue[o].phase = "unknown" /\ o \notin history.written =>
           o \notin history'.written /\ (venue'[o].phase = "unknown" \/ o \in history.guessed)
  PROVE  Honest(o)'
BY DEF Honest

LEMMA EndedNext ==
  ASSUME TypeOK, Known, Wired, Frames, Unissued, Debts, Ended, Next
  PROVE  Ended'
<1> SUFFICES ASSUME NEW o \in Order, IsClosed(mirror'[o])
             PROVE  Honest(o)' /\ (o \in told' \/ Withdrawn')
  BY DEF Ended
<1>1. IsClosed(mirror[o]) => Honest(o) /\ (o \in told \/ Withdrawn)
  BY DEF Ended
<1>2. /\ venue[o].phase # "unknown" => venue'[o].phase # "unknown"
      /\ venue[o].phase = "closed" => venue'[o].phase = "closed"
  BY VenueOnward
<1>3. Withdrawn => Withdrawn'
  BY WithdrawnStands
<1>4. ASSUME mirror'[o] = mirror[o], o \in told => o \in told',
             o \in history.guessed => o \in history'.guessed,
             venue[o].phase = "unknown" /\ o \notin history.written =>
               o \notin history'.written /\ (venue'[o].phase = "unknown" \/ o \in history.guessed)
      PROVE  Honest(o)' /\ (o \in told' \/ Withdrawn')
  BY <1>1, <1>2, <1>3, <1>4, HonestStands
<1>5. /\ o \in Sent => mirror[o].status # Absent
      /\ venue[o].phase # "unknown" => o \in Sent
  BY DEF Known
<1>6. mirror \in [Order -> Record]
  BY DEF TypeOK
<1>7. CASE Quiet
  BY <1>4, <1>7, QuietIsCalm DEF Calm
<1>8. CASE \E p \in Order : SubmitOrder(p)
  <2>1. PICK p \in Order : SubmitOrder(p)
    BY <1>8
  <2>2. /\ \/ mirror' = [mirror EXCEPT ![p] = Announced] /\ told' = told
           \/ mirror' = [mirror EXCEPT ![p] = RejectedHere(Announced)] /\ told' = told \cup {p}
        /\ history' = history /\ venue' = venue /\ mirror[p].status = Absent
    BY <2>1 DEF SubmitOrder
  <2>3. CASE o # p
    <3>1. mirror'[o] = mirror[o]
      BY <1>6, <2>2, <2>3
    <3>2. /\ o \in told => o \in told'
          /\ o \in history.guessed => o \in history'.guessed
          /\ history'.written = history.written /\ venue'[o].phase = venue[o].phase
      BY <2>2
    <3> QED
      BY <1>4, <3>1, <3>2
  <2>4. CASE o = p
    <3>1. o \in told'
      <4>1. ~IsClosed(Announced)
        BY DEF IsClosed, Announced, Closed
      <4>2. mirror' = [mirror EXCEPT ![p] = Announced] => mirror'[o] = Announced
        BY <1>6, <2>4
      <4> QED
        BY <2>2, <2>4, <4>1, <4>2
    <3>2. o \notin Sent /\ venue[o].phase = "unknown"
      BY <1>5, <2>2, <2>4
    <3>3. venue'[o].phase = "unknown" /\ o \notin history'.written
      BY <2>2, <3>2 DEF Sent
    <3> QED
      BY <3>1, <3>3 DEF Honest
  <2> QED
    BY <2>3, <2>4
<1>9. CASE \E g \in Generation : WriteFrame(g)
  <2>1. PICK g \in Generation : WriteFrame(g)
    BY <1>9
  <2>2. /\ mirror' = mirror /\ told' = told /\ venue' = venue /\ history'.guessed = history.guessed
        /\ o \in history'.written <=> o \in history.written \/ Owes(g, 1, o)
    BY <2>1, WriteLeaves
  <2>3. ~Owes(g, 1, o)
    <3>1. ~task[g].sending /\ 1 \in Nat
      BY <2>1 DEF WriteFrame
    <3>2. mirror[o].status # "submitted"
      BY <2>2 DEF IsClosed, Closed
    <3> QED
      BY <3>1, <3>2, WaitsUse
  <2> QED
    BY <1>4, <2>2, <2>3
<1>10. CASE \E g \in Generation : Disconnect(g) \/ GiveUp(g) \/ Die(g)
  <2>1. PICK g \in Generation : Disconnect(g) \/ GiveUp(g) \/ Die(g)
    BY <1>10
  <2>2. PICK n, k : Reports(g, n, k)
    BY <2>1, ReportingSteps
  <2>3. venue' = venue
    BY <2>1, ReportingSteps
  <2>4. /\ history'.written = history.written
        /\ o \in history.guessed => o \in history'.guessed
        /\ o \in told => o \in told'
    BY <2>2 DEF Reports
  <2>5. CASE mirror'[o] = mirror[o]
    BY <1>4, <2>3, <2>4, <2>5
  <2>6. CASE /\ mirror'[o].status = "rejected" /\ mirror[o].status = "submitted"
             /\ g = generation => o \in told'
             /\ o \in history'.guessed \/ o \notin Sent
             /\ \E i \in Nat : Owes(g, i, o)
    <3>1. o \in told' \/ Withdrawn'
      BY <1>3, <2>6, BusyIsIssued
    <3>2. o \notin Sent => venue'[o].phase = "unknown" /\ o \notin history'.written
      BY <1>5, <2>3, <2>4 DEF Sent
    <3>3. Honest(o)'
      BY <2>6, <3>2 DEF Honest
    <3> QED
      BY <3>1, <3>3
  <2> QED
    BY <2>2, <2>5, <2>6, ReportedMirror
<1>11. CASE \E g \in Generation : Deliver(g)
  <2>1. PICK g \in Generation : Deliver(g)
    BY <1>11
  <2>2. PICK e : e = Head(task[g].pump)
    OBVIOUS
  <2>3. /\ e \in Event /\ Founded(e)
        /\ mirror'[o] = IF o = e.order THEN Applied(mirror[o], e) ELSE mirror[o]
    BY <2>1, <2>2, DeliverSettles
  <2>4. /\ venue' = venue /\ history' = history
        /\ told' = IF Speaks(g) /\ Ends(mirror[e.order], e) THEN told \cup {e.order} ELSE told
        /\ task[g].pump # <<>>
    BY <2>1, <2>2 DEF Deliver
  <2>5. CASE IsClosed(mirror[o])
    <3>1. Honest(o) /\ (o \in told \/ Withdrawn)
      BY <1>1, <2>5
    <3>2. Honest(o)'
      BY <2>4, <3>1 DEF Honest
    <3>3. o \in told => o \in told'
      BY <2>4
    <3> QED
      BY <1>3, <3>1, <3>2, <3>3
  <2>6. CASE ~IsClosed(mirror[o])
    <3>1. o = e.order /\ mirror'[o] = Applied(mirror[o], e)
      BY <2>3, <2>6
    <3>2. /\ e.kind \in {"canceled", "rejected"} \/ e.filled = Quantity
          /\ Ends(mirror[o], e) \/ e.kind = "updated"
      <4>1. mirror[o] \in Record
        BY <1>6
      <4>2. e.kind = "filled" => e.filled > 0
        BY <2>3 DEF Founded
      <4> QED
        BY <2>3, <2>6, <3>1, <4>1, <4>2, AppliedStatus
    <3>3. e.kind # "updated"
      <4>1. e.kind = "updated" => e.filled < Quantity /\ e.filled \in 0..Quantity
        BY <2>3 DEF Founded, Event
      <4> QED
        BY <3>2, <4>1 DEF Quantity
    <3>4. venue[o].phase = "closed"
      BY <2>3, <3>1, <3>2 DEF Founded
    <3>5. Honest(o)'
      BY <2>4, <3>4 DEF Honest
    <3>6. Ends(mirror[o], e)
      BY <3>2, <3>3
    <3>7. g = generation => o \in told'
      BY <2>4, <3>1, <3>6 DEF Speaks
    <3>8. g = generation \/ Withdrawn
      BY <2>4, BusyIsIssued
    <3> QED
      BY <1>3, <3>5, <3>7, <3>8
  <2> QED
    BY <2>5, <2>6
<1>12. CASE \E g \in Generation : VenueHandle(g)
  <2>1. PICK g \in Generation : VenueHandle(g)
    BY <1>12
  <2>2. PICK c : c = Head(task[g].up)
    OBVIOUS
  <2>3. /\ history'.written = history.written /\ history'.guessed = history.guessed
        /\ task[g].up # <<>>
        /\ \/ venue'[o] = venue[o]
           \/ /\ o = c.order
              /\ \/ c.verb = "submit" /\ venue[o].phase = "unknown"
                 \/ Live(o) /\ venue'[o].phase = "closed"
    BY <2>1, <2>2, HandleFields
  <2>4. c.verb = "submit" /\ o = c.order => o \in Sent
    <3>1. task[g].up \in Seq(Command)
      BY Lanes
    <3>2. 1 \in DOMAIN task[g].up /\ c = task[g].up[1]
      BY <2>2, <2>3, <3>1, LenProperties, EmptySeq, HeadTailProperties
    <3>3. c.verb = "submit" /\ o = c.order => o \in Submits(task[g].up)
      BY <3>2 DEF Submits
    <3> QED
      BY <3>3 DEF Wired
  <2>5. mirror' = mirror /\ told' = told
    BY <1>12, VenueLeaves
  <2>6. venue[o].phase = "unknown" /\ o \notin history.written =>
          venue'[o].phase = "unknown" \/ o \in history.guessed
    BY <2>3, <2>4 DEF Sent, Live
  <2> QED
    BY <1>4, <2>3, <2>5, <2>6
<1>13. CASE \E p \in Order : VenueTriggers(p) \/ VenueFill(p)
  <2>1. PICK p \in Order : VenueTriggers(p) \/ VenueFill(p)
    BY <1>13
  <2>2. /\ history'.written = history.written /\ history'.guessed = history.guessed
        /\ venue'[o] = venue[o] \/ Live(o)
    BY <2>1, SpeaksFields
  <2>3. mirror' = mirror /\ told' = told
    BY <1>13, VenueLeaves
  <2> QED
    BY <1>4, <2>2, <2>3 DEF Live
<1> QED
  BY <1>7, <1>8, <1>9, <1>10, <1>11, <1>12, <1>13, StepKinds
----------------------------------------------------------------------------
(* The invariant, and what follows.                                        *)

LEMMA CInvParts ==
  ASSUME TypeOK
  PROVE  CInv <=> Debts /\ Wired /\ Known /\ Frames /\ Unissued /\ Ended
BY OwingIsNothingVanishes DEF CInv, Debts

LEMMA InitCInv ==
  ASSUME Init
  PROVE  CInv
<1>1. /\ mirror = [o \in Order |-> NoRecord] /\ told = {}
      /\ generation = 0 /\ channel = 0 /\ issued = 0
      /\ task = [g \in Generation |-> NoTask]
      /\ venue = [o \in Order |-> [phase |-> "unknown", filled |-> 0]]
      /\ spent = 0
      /\ history = [written |-> {}, guessed |-> {}, lost |-> {}]
  BY DEF Init
<1>2. NoRecord \in Record /\ NoRecord.status = Absent
  BY DEF NoRecord, Record
<1>3. \A g \in Generation : Idle(task[g]) /\ task[g] = NoTask
  BY <1>1 DEF Idle, NoTask
<1>4. TypeOK
  <2>1. Plain
    BY <1>1, <1>2, Constants DEF Plain, Quantity
  <2>2. task \in [Generation -> Task]
    BY <1>1, NoTaskIsTask
  <2>3. \A g \in Generation : Orderly(task[g])
    BY <1>3 DEF Orderly, NoTask
  <2> QED
    BY <2>1, <2>2, <2>3, TypeParts
<1>5. \A g, i, o : g \in Generation => ~Owes(g, i, o)
  <2>1. ASSUME NEW g \in Generation PROVE Owed(task[g]) = <<>>
    <3>1. task[g].book = <<>> /\ task[g].queue = <<>>
      BY <1>3 DEF Idle
    <3> QED
      BY <3>1, ConcatEmptySeq, EmptySeq DEF Owed
  <2> QED
    BY <2>1, NothingSubmits DEF Owes
<1>6. \A o \in Order : mirror[o].status = Absent /\ o \notin Sent /\ venue[o].phase = "unknown"
                       /\ venue[o].filled < Quantity
  BY <1>1, <1>2 DEF Sent, Quantity
<1>7. Debts
  BY <1>5, <1>6 DEF Debts, Owing, Sole, Waits, Absent
<1>8. Wired
  <2>1. Submits(<<>>) = {}
    BY DEF Submits
  <2> QED
    BY <1>3, <2>1 DEF Wired, NoTask
<1>9. Known
  BY <1>6 DEF Known
<1>10. Frames
  BY <1>3 DEF Frames, AllFounded, NoTask
<1>11. Unissued
  BY <1>3, UnissuedIsIdle
<1>12. Ended
  BY <1>6 DEF Ended, IsClosed, Closed, Absent
<1> QED
  BY <1>4, <1>7, <1>8, <1>9, <1>10, <1>11, <1>12, CInvParts

LEMMA CInvStutters ==
  ASSUME CInv, UNCHANGED vars
  PROVE  CInv'
<1>1. /\ mirror' = mirror /\ told' = told /\ generation' = generation /\ channel' = channel
      /\ issued' = issued /\ task' = task /\ venue' = venue /\ spent' = spent /\ history' = history
  BY DEF vars
<1>2. TypeOK' /\ Sole' /\ Waits'
  BY <1>1 DEF CInv, TypeOK, Generation, Sole, Waits, Owes, Sent
<1>3. Wired' /\ Known'
  BY <1>1 DEF CInv, Wired, Known, Sent, Generation
<1>4. Frames' /\ Unissued'
  BY <1>1 DEF CInv, Frames, AllFounded, Founded, Unissued, Generation
<1>5. Ended' /\ NothingVanishes'
  BY <1>1 DEF CInv, Ended, Honest, Withdrawn, NothingVanishes, Generation
<1> QED
  BY <1>2, <1>3, <1>4, <1>5 DEF CInv

LEMMA CInvNext ==
  ASSUME CInv, Next
  PROVE  CInv'
<1>1. TypeOK /\ Debts /\ Wired /\ Known /\ Frames /\ Unissued /\ Ended
  BY CInvParts DEF CInv
<1>2. TypeOK'
  BY <1>1, TypeNext
<1>3. Debts' /\ Known' /\ Frames' /\ Unissued'
  BY <1>1, DebtsNext, KnownNext, FramesNext, UnissuedNext
<1>4. Wired' /\ Ended'
  BY <1>1, <1>2, WiredNext, EndedNext
<1>5. NothingVanishes' /\ Sole' /\ Waits'
  <2>1. Owing' <=> NothingVanishes'
    BY <1>2, OwingIsNothingVanishes, PTL
  <2> QED
    BY <1>3, <2>1 DEF Debts
<1> QED
  BY <1>2, <1>3, <1>4, <1>5 DEF CInv

\* The invariant the two theorems about the client rest on: every submit is owed
\* by one place, every frame is true of the venue, every closed record is honest.
THEOREM ClientInvariant == Spec => []CInv
<1>1. Init => CInv
  BY InitCInv
<1>2. CInv /\ [Next]_vars => CInv'
  BY CInvNext, CInvStutters
<1> QED
  BY <1>1, <1>2, PTL DEF Spec

\* An order the mirror has as submitted was written to the venue or is owed by
\* some task, whatever disconnects, gives up, stops or reconnects.
THEOREM NoSubmitVanishes == Spec => []NothingVanishes
<1>1. CInv => NothingVanishes
  BY DEF CInv
<1> QED
  BY <1>1, ClientInvariant, PTL

\* A record that is closed is closed once.
LEMMA ClosedStays ==
  ASSUME CInv, Next, NEW o \in Order, IsClosed(mirror[o])
  PROVE  mirror'[o].status = mirror[o].status
<1>1. TypeOK /\ Debts /\ Known /\ Frames /\ mirror \in [Order -> Record]
  BY CInvParts DEF CInv, TypeOK
<1>2. mirror[o].status # "submitted" /\ mirror[o].status # Absent
  BY DEF IsClosed, Closed, Absent
<1>3. CASE \E p \in Order : SubmitOrder(p)
  BY <1>1, <1>2, <1>3 DEF SubmitOrder
<1>4. CASE \E g \in Generation : Disconnect(g) \/ GiveUp(g) \/ Die(g)
  <2>1. PICK g \in Generation : \E n, k : Reports(g, n, k)
    BY <1>1, <1>4, ReportingSteps
  <2> QED
    BY <1>2, <2>1 DEF Reports
<1>5. CASE \E g \in Generation : Deliver(g)
  <2>1. PICK g \in Generation : Deliver(g)
    BY <1>5
  <2>2. PICK e : e = Head(task[g].pump)
    OBVIOUS
  <2>3. /\ e \in Event /\ Founded(e)
        /\ mirror'[o] = IF o = e.order THEN Applied(mirror[o], e) ELSE mirror[o]
    BY <1>1, <2>1, <2>2, DeliverSettles
  <2>4. mirror[o] \in Record /\ (e.kind = "filled" => e.filled > 0)
    BY <1>1, <2>3 DEF Founded
  <2>5. Applied(mirror[o], e).status = mirror[o].status
    BY <2>3, <2>4, AppliedStatus
  <2> QED
    BY <2>3, <2>5
<1>6. CASE mirror' = mirror
  BY <1>6
<1> QED
  BY <1>1, <1>3, <1>4, <1>5, <1>6, StepKinds, QuietIsCalm, WriteLeaves, VenueLeaves DEF Calm

\* An order the mirror has as closed is closed at the venue or was given up on
\* before the venue could have it, the host was told of it unless its
\* generation was withdrawn, and nothing reopens it.
THEOREM EndsAlwaysHold == Spec => EndsHold
<1> DEFINE Holds(o) == /\ IsClosed(mirror'[o]) => Honest(o)' /\ HostTold(o)'
                       /\ IsClosed(mirror[o]) => mirror'[o].status = mirror[o].status
           A == \A o \in Order : Holds(o)
<1>1. CInv /\ [Next]_vars => [A]_vars
  <2> SUFFICES ASSUME CInv, Next PROVE A
    BY DEF vars
  <2>1. Ended'
    BY CInvNext DEF CInv
  <2>2. ASSUME NEW o \in Order PROVE Holds(o)
    <3>1. IsClosed(mirror'[o]) => Honest(o)' /\ HostTold(o)'
      BY <2>1 DEF Ended, HostTold, Withdrawn
    <3> QED
      BY <3>1, ClosedStays
  <2> QED
    BY <2>2
<1>2. Spec => [][A]_vars
  <2> HIDE DEF A
  <2> QED
    BY <1>1, ClientInvariant, PTL DEF Spec
<1> QED
  BY <1>2 DEF EndsHold
=============================================================================
