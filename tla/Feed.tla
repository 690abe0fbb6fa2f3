-------------------------------- MODULE Feed --------------------------------
(***************************************************************************)
(* One passenger's market data (mogwai-venue tape.rs, ws.rs): a boat's     *)
(* tape publishes into a bounded broadcast ring that never waits for a     *)
(* reader, a socket subscribes to it beside a snapshot of what it missed,  *)
(* and the one task that owns the socket's sink writes what it takes off   *)
(* the ring, declares what the ring overwrote before it was read, and ends *)
(* with the socket.                                                        *)
(*                                                                         *)
(* Frames are numbered in the order the tape makes them. Instants are      *)
(* numbers from 1; 0 stands for an instant that is absent.                 *)
(***************************************************************************)
EXTENDS Integers, Sequences, FiniteSets, FiniteSetsExt

CONSTANTS
  Depth,       \* the ring's capacity, fanout_depth
  Instants,    \* the instant of each frame the tape makes, and so how many
  WindowEnds   \* the ends of the windows a passenger may name; 0 for none

ASSUME FeedAssumption ==
  /\ Depth \in Nat \ {0} /\ WindowEnds \subseteq Nat
  /\ Instants \in Seq(Nat \ {0})
  /\ \A i, j \in DOMAIN Instants : i <= j => Instants[i] <= Instants[j]

MaxFrames == Len(Instants)

VARIABLES
  tape,        \* every frame the tape has made, in order
  sent,        \* how many of them are in the ring
  slots,       \* the last quote and the last funding frame a new socket gets
  end,         \* where this passenger's window ends
  withholding, \* a blackout or a stall is armed on the account
  queued,      \* what the socket's lanes hold for the writer
  leaving,     \* the socket's own task is done and no lane will be fed again
  writer,      \* the writer task
  wire,        \* what crossed the socket
  lost,        \* the frames the ring overwrote before the writer read them
  withheld     \* the frames the writer read and did not write

tapeVars == <<tape, sent, slots>>
socketVars == <<end, withholding, queued, leaving>>
writerVars == <<writer, wire, lost, withheld>>
vars == <<tapeVars, socketVars, writerVars>>

Kinds == {"quote", "trade", "funding"}
Frame == [kind : Kinds, ts : Nat]
NoGap == [skipped |-> 0, after |-> 0]

Market(i) == [m |-> "market", id |-> i]
Close == [m |-> "close"]
Terminal == [m |-> "terminal"]

Writer == [phase : {"unbound", "replaying", "serving", "ended"},
           snapshots : Seq(1..MaxFrames), next : 0..MaxFrames + 1,
           since : 0..MaxFrames + 1, open : BOOLEAN,
           seen : Nat, delivered : Nat,
           pending : [skipped : 0..MaxFrames, after : Nat],
           episode : 0..MaxFrames, total : 0..MaxFrames]

TypeOK == /\ tape \in Seq(Frame) /\ sent \in {Len(tape), Len(tape) - 1}
          /\ slots \in [{"quote", "funding"} -> 0..Len(tape)]
          /\ end \in WindowEnds
          /\ withholding \in BOOLEAN /\ leaving \in BOOLEAN
          /\ queued \in Seq({Close, Terminal})
          /\ writer \in Writer
          /\ lost \cup withheld \subseteq 1..Len(tape)

Unbound == [phase |-> "unbound", snapshots |-> <<>>, next |-> 0, since |-> 0,
            open |-> TRUE, seen |-> 0, delivered |-> 0, pending |-> NoGap,
            episode |-> 0, total |-> 0]

Init == /\ tape = <<>> /\ sent = 0
        /\ slots = [quote |-> 0, funding |-> 0]
        /\ end \in WindowEnds
        /\ withholding = FALSE /\ queued = <<>> /\ leaving = FALSE
        /\ writer = Unbound /\ wire = <<>> /\ lost = {} /\ withheld = {}
----------------------------------------------------------------------------
(* The tape's thread.                                                      *)

\* One frame at a time: the tape is one thread. Nothing is made for a socket
\* that has ended, which bounds the exploration and no behaviour of a socket.
Make(kind) == /\ Len(tape) < MaxFrames
              /\ sent = Len(tape)
              /\ writer.phase # "ended"
              /\ tape' = Append(tape, [kind |-> kind, ts |-> Instants[Len(tape) + 1]])

\* A quote is kept for later sockets and sent under one lock.
PublishQuote == /\ Make("quote")
                /\ sent' = sent + 1
                /\ slots' = [slots EXCEPT !.quote = sent + 1]
                /\ UNCHANGED <<socketVars, writerVars>>

PublishTrade == /\ Make("trade")
                /\ sent' = sent + 1
                /\ UNCHANGED <<slots, socketVars, writerVars>>

\* A funding frame is kept under its lock, which ends with that statement ...
KeepFunding == /\ Make("funding")
               /\ slots' = [slots EXCEPT !.funding = sent + 1]
               /\ UNCHANGED <<sent, socketVars, writerVars>>

\* ... and is sent after it.
SendKept == /\ sent < Len(tape)
            /\ sent' = sent + 1
            /\ UNCHANGED <<tape, slots, socketVars, writerVars>>
----------------------------------------------------------------------------
(* The socket: its subscription and what its own task tells the writer.    *)

\* The frames a snapshot holds, by instant; a quote before the funding frame
\* of the same instant.
Snapshots ==
  LET q == slots.quote
      f == slots.funding
      Kept(i) == IF i = 0 THEN <<>> ELSE <<i>>
  IN IF q # 0 /\ f # 0 /\ tape[f].ts < tape[q].ts THEN <<f, q>>
     ELSE Kept(q) \o Kept(f)

\* subscribe_with_snapshot: both slots are locked around the subscription.
Subscribe == /\ writer.phase = "unbound"
             /\ writer' = [writer EXCEPT !.phase = "replaying",
                                         !.snapshots = Snapshots,
                                         !.next = sent + 1, !.since = sent + 1]
             /\ UNCHANGED <<tapeVars, socketVars, wire, lost, withheld>>

\* A window opens or closes on the account.
Arm == /\ writer.phase # "ended"
       /\ withholding' = ~withholding
       /\ UNCHANGED <<tapeVars, end, queued, leaving, writerVars>>

Bound == writer.phase \in {"replaying", "serving"}

\* The run or the passenger's own time is up: announced, then closed.
Complete == /\ Bound /\ ~leaving
            /\ queued' = queued \o <<Terminal, Close>>
            /\ leaving' = TRUE
            /\ UNCHANGED <<tapeVars, end, withholding, writerVars>>

\* The venue evicts the socket: the close jumps what the lanes hold.
Evict == /\ Bound /\ ~leaving
         /\ queued' = <<Close>> \o queued
         /\ leaving' = TRUE
         /\ UNCHANGED <<tapeVars, end, withholding, writerVars>>

\* The peer closes its side.
PeerLeaves == /\ Bound /\ ~leaving
              /\ leaving' = TRUE
              /\ UNCHANGED <<tapeVars, end, withholding, queued, writerVars>>
----------------------------------------------------------------------------
(* The writer.                                                             *)

\* Slip: the frame at the end is let through.
BeyondEnd(i) == end # 0 /\ tape[i].ts > end

PastEnd(i) == end # 0 /\ tape[i].ts >= end

\* Slip: the running total starts anew with every episode.
DeclarationAlone(resumed) ==
  [m |-> "lagged", episode |-> writer.episode + 1,
   skipped |-> writer.pending.skipped, total |-> writer.pending.skipped,
   after |-> writer.pending.after, resumed |-> resumed]

Declaration(resumed) ==
  [m |-> "lagged", episode |-> writer.episode + 1,
   skipped |-> writer.pending.skipped, total |-> writer.total,
   after |-> writer.pending.after, resumed |-> resumed]

Owed == writer.pending.skipped > 0

\* Slip: a hole is only stated once no more frames are coming.
WrittenUndeclared(w, i) ==
  IF withholding \/ tape[i].ts < writer.seen
  THEN /\ writer' = [w EXCEPT !.seen = tape[i].ts]
       /\ withheld' = withheld \cup {i}
       /\ UNCHANGED wire
  ELSE /\ writer' = [w EXCEPT !.seen = tape[i].ts, !.delivered = tape[i].ts]
       /\ wire' = Append(wire, Market(i))
       /\ UNCHANGED withheld

\* One market frame, and the declaration that must precede it. A frame read in
\* a window is withheld: it is no loss, and moves nothing but the guard.
Written(w, i) ==
  IF tape[i].ts < writer.seen
  THEN /\ writer' = [w EXCEPT !.phase = "ended"]
       /\ wire' = Append(wire, [m |-> "fault"])
       /\ UNCHANGED withheld
  ELSE IF withholding
  THEN /\ writer' = [w EXCEPT !.seen = tape[i].ts]
       /\ withheld' = withheld \cup {i}
       /\ UNCHANGED wire
  ELSE /\ writer' = [w EXCEPT !.seen = tape[i].ts, !.delivered = tape[i].ts,
                              !.pending = NoGap,
                              !.episode = IF Owed THEN @ + 1 ELSE @]
       /\ wire' = wire \o (IF Owed THEN <<Declaration(tape[i].ts)>> ELSE <<>>)
                       \o <<Market(i)>>
       /\ UNCHANGED withheld

\* settle_pending: what is owed is stated, with no instant it ended at, unless
\* a window withholds it. `rest` crosses the socket behind it.
Settled(w, rest) ==
  IF Owed /\ ~withholding
  THEN /\ writer' = [w EXCEPT !.pending = NoGap, !.episode = @ + 1]
       /\ wire' = Append(wire, Declaration(0)) \o rest
  ELSE /\ writer' = w
       /\ wire' = wire \o rest

\* The snapshots come first, but for those the window does not reach.
Replay == /\ writer.phase = "replaying" /\ writer.snapshots # <<>>
          /\ LET i == Head(writer.snapshots)
                 w == [writer EXCEPT !.snapshots = Tail(@)]
             IN IF PastEnd(i) THEN writer' = w /\ UNCHANGED <<wire, withheld>>
                ELSE Written(w, i)
          /\ UNCHANGED <<tapeVars, socketVars, lost>>

Replayed == /\ writer.phase = "replaying" /\ writer.snapshots = <<>>
            /\ writer' = [writer EXCEPT !.phase = "serving"]
            /\ UNCHANGED <<tapeVars, socketVars, wire, lost, withheld>>

\* A lane is read before the tape is.
WriteLane == /\ writer.phase = "serving" /\ queued # <<>>
             /\ queued' = Tail(queued)
             /\ IF Head(queued) = Close
                THEN Settled([writer EXCEPT !.phase = "ended"], <<Close>>)
                ELSE wire' = Append(wire, Head(queued)) /\ UNCHANGED writer
             /\ UNCHANGED <<tapeVars, end, withholding, leaving, lost, withheld>>

Reads == writer.phase = "serving" /\ queued = <<>> /\ writer.open

\* The oldest frame the ring still holds.
Oldest == IF sent > Depth THEN sent - Depth + 1 ELSE 1

\* recv on an overrun ring says how many frames went and stands at the oldest.
Lag == /\ Reads /\ writer.next < Oldest
       /\ LET skipped == Oldest - writer.next
          IN /\ writer' =
                  [writer EXCEPT
                     !.next = Oldest, !.total = @ + skipped,
                     !.pending = IF Owed
                                 THEN [skipped |-> @.skipped + skipped, after |-> @.after]
                                 ELSE [skipped |-> skipped, after |-> writer.delivered]]
             /\ lost' = lost \cup (writer.next..Oldest - 1)
       /\ UNCHANGED <<tapeVars, socketVars, wire, withheld>>

\* The first frame past the window ends the writer's market intake.
Read == /\ Reads /\ Oldest <= writer.next /\ writer.next <= sent
        /\ LET i == writer.next
               w == [writer EXCEPT !.next = i + 1]
           IN IF PastEnd(i) THEN Settled([w EXCEPT !.open = FALSE], <<>>) /\ UNCHANGED withheld
              ELSE Written(w, i)
        /\ UNCHANGED <<tapeVars, socketVars, lost>>

\* The sink fails; or the socket's task is done, and its lanes are empty or the
\* close grace is over.
End == /\ Bound
       /\ writer' = [writer EXCEPT !.phase = "ended"]
       /\ UNCHANGED <<tapeVars, socketVars, wire, lost, withheld>>

\* The sink fails between a declaration and the frame it dates.
FailAfterDeclaring ==
  /\ Reads /\ Oldest <= writer.next /\ writer.next <= sent
  /\ Owed /\ ~withholding
  /\ ~PastEnd(writer.next) /\ tape[writer.next].ts >= writer.seen
  /\ wire' = Append(wire, Declaration(tape[writer.next].ts))
  /\ writer' = [writer EXCEPT !.phase = "ended", !.pending = NoGap,
                              !.episode = @ + 1, !.next = @ + 1,
                              !.seen = tape[writer.next].ts]
  /\ UNCHANGED <<tapeVars, socketVars, lost, withheld>>
----------------------------------------------------------------------------
Publish == PublishQuote \/ PublishTrade \/ KeepFunding \/ SendKept
Write == Replay \/ Replayed \/ WriteLane \/ Lag \/ Read

Next == \/ Publish
        \/ Subscribe \/ Arm \/ Complete \/ Evict \/ PeerLeaves
        \/ Write \/ End \/ FailAfterDeclaring

\* The writer is a task of its own on a sink that takes what it is given or
\* fails; nobody else owes the socket a step.
Spec == Init /\ [][Next]_vars /\ WF_vars(Write)
----------------------------------------------------------------------------
(* What a consumer may rely on.                                            *)

OnWire(kind) == {n \in 1..Len(wire) : wire[n].m = kind}

Delivered == {wire[n].id : n \in OnWire("market")}

\* Where the last message of a kind before position n, and the first one after
\* it, stand on the wire; 0 if there is none.
LastBefore(kind, n) ==
  LET earlier == {k \in OnWire(kind) : k < n}
  IN IF earlier = {} THEN 0 ELSE Max(earlier)
FirstAfter(kind, n) ==
  LET later == {k \in OnWire(kind) : k > n}
  IN IF later = {} THEN 0 ELSE Min(later)

TsAt(k) == IF k = 0 THEN 0 ELSE tape[wire[k].id].ts
Declared(k) == IF k = 0 THEN [episode |-> 0, total |-> 0] ELSE wire[k]

\* A reader of the wire can tell a hole from a quiet feed: every declaration is
\* numbered, carries the running total of the frames the ring overwrote, and is
\* dated by the frames that crossed the socket on either side of it; a hole
\* nobody has declared is owed, and no frame crosses the socket while one is
\* (ws.rs write_market, record_loss).
HolesStated ==
  /\ Declared(LastBefore("lagged", Len(wire) + 1)).total + writer.pending.skipped
       = Cardinality(lost)
  /\ \A n \in OnWire("lagged") :
       LET before == Declared(LastBefore("lagged", n))
       IN /\ wire[n].episode = before.episode + 1
          /\ wire[n].total = before.total + wire[n].skipped
          /\ wire[n].after = TsAt(LastBefore("market", n))
          /\ wire[n].resumed = TsAt(FirstAfter("market", n)) \/ n = Len(wire)
  /\ \A n \in OnWire("market") :
       Cardinality({i \in lost : i < wire[n].id}) = Declared(LastBefore("lagged", n)).total

Outside == {i \in 1..Len(tape) : end # 0 /\ end <= tape[i].ts}

\* Of the frames a socket subscribed to, each the writer is past was written,
\* withheld by a window its consumer armed, lost and counted, or lies past the
\* window the passenger named, and none past it was written (ws.rs run_writer);
\* and one that has read everything, through no window and with no loss, knows
\* the quote the next one would be given (tape.rs, the reason for a snapshot).
NothingMissed ==
  /\ writer.phase = "serving" =>
       \A i \in writer.since..writer.next - 1 :
         i \in lost \cup withheld \cup Outside \cup Delivered
  /\ Delivered \cap Outside = {}
  /\ writer.phase = "serving" /\ writer.next = sent + 1 /\ writer.open
       /\ lost = {} /\ withheld = {} /\ slots.quote \notin {0} \cup Outside
     => slots.quote \in Delivered

\* A hole with frames waiting behind it is declared, unless a window withholds
\* them or the socket ends (ws.rs run_writer).
LossIsStated ==
  Owed /\ writer.next <= sent ~> ~Owed \/ withholding \/ writer.phase = "ended" \/ ~writer.open
=============================================================================
