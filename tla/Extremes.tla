------------------------------ MODULE Extremes ------------------------------
(***************************************************************************)
(* The channel by which a boat's tape thread tells the fill sweeper the    *)
(* high and the low its river reached since the sweeper last asked.  The   *)
(* writer keeps its extremes to itself and takes the mutex only when it    *)
(* has something to publish; the reader opens a fresh span by bumping an   *)
(* epoch before it takes the mutex.  Every access of a variable the two    *)
(* threads share is a step of its own.                                     *)
(*                                                                         *)
(* A print's instant is its index on the tape.                             *)
(***************************************************************************)
EXTENDS Integers, Sequences

CONSTANTS
  Price,       \* what a print may be priced at
  NoSpan,      \* "no print"
  MaxPrints,   \* bound on the prints of one run
  MaxTakes     \* bound on the reader's takes

ASSUME ExtremesAssumption == /\ Price \subseteq Nat
                             /\ MaxPrints \in Nat
                             /\ MaxTakes \in Nat

VARIABLES
  epoch,       \* the epoch the reader bumps
  published,   \* what the mutex guards: a stamped span or NoSpan
  wEpoch,      \* the writer's own: which span its extremes belong to
  wSpan,       \* and the extremes, or NoSpan
  record,      \* the record_with call the writer is in
  take,        \* the take call the reader is in
  tape,        \* history: every price printed
  takes        \* history: every take, with what it answered

vars == <<epoch, published, wEpoch, wSpan, record, take, tape, takes>>
writer == <<wEpoch, wSpan, record, tape>>

Instant == 1..MaxPrints
PriceSpan == [high : Price, highAt : Instant, low : Price, lowAt : Instant]
Stamped == [epoch : Nat, span : PriceSpan]

\* pc "lock": about to take the mutex; "publish": holding it, with the epoch
\* it read there.
Record == [pc : {"idle", "recheck", "lock", "publish"}, epoch : Nat,
           current : Nat]
Returned == [pc |-> "idle", epoch |-> 0, current |-> 0]

\* A take past its bump; done and begun count the prints whose record call
\* had ended, and had started, by then.
Take == [closing : Nat, done : Nat, begun : Nat]

ASSUME NullAssumption == NoSpan \notin PriceSpan \cup Stamped \cup Take

TypeOK ==
  /\ epoch \in Nat
  /\ published \in Stamped \cup {NoSpan}
  /\ wEpoch \in Nat
  /\ wSpan \in PriceSpan \cup {NoSpan}
  /\ record \in Record
  /\ take \in Take \cup {NoSpan}
  /\ tape \in Seq(Price)
  /\ takes \in Seq([done : Nat, begun : Nat, raced : BOOLEAN,
                    answer : PriceSpan \cup {NoSpan}])

Init ==
  /\ epoch = 0 /\ published = NoSpan
  /\ wEpoch = 0 /\ wSpan = NoSpan /\ record = Returned
  /\ take = NoSpan
  /\ tape = <<>> /\ takes = <<>>

Done == IF record.pc = "idle" THEN Len(tape) ELSE Len(tape) - 1
----------------------------------------------------------------------------
(* The tape thread (record_with).                                          *)

Of(px, at) == [high |-> px, highAt |-> at, low |-> px, lowAt |-> at]

\* Slip: a print that falls through the low is taken for no news.
MovesHigh(span, px) == px > span.high

Moves(span, px) == px > span.high \/ px < span.low

Fold(span, px, at) ==
  [span EXCEPT !.high = IF px > span.high THEN px ELSE @,
               !.highAt = IF px > span.high THEN at ELSE @,
               !.low = IF px < span.low THEN px ELSE @,
               !.lowAt = IF px < span.low THEN at ELSE @]

\* One print: the epoch is loaded and the print folded into the extremes of
\* that epoch, or into new ones.
RecordPrint(px) ==
  LET at == Len(tape) + 1
      same == wEpoch = epoch /\ wSpan # NoSpan
  IN  /\ record.pc = "idle" /\ Len(tape) < MaxPrints
      /\ tape' = Append(tape, px)
      /\ wEpoch' = epoch
      /\ wSpan' = IF same THEN Fold(wSpan, px, at) ELSE Of(px, at)
      /\ record' = [pc |-> IF same /\ ~Moves(wSpan, px) THEN "recheck" ELSE "lock",
                    epoch |-> epoch, current |-> 0]
      /\ UNCHANGED <<epoch, published, take, takes>>

\* A print that moved nothing looks once more whether its span is still open.
Recheck ==
  /\ record.pc = "recheck"
  /\ record' = IF epoch = record.epoch THEN Returned
               ELSE [record EXCEPT !.pc = "lock"]
  /\ UNCHANGED <<epoch, published, wEpoch, wSpan, take, tape, takes>>

Lock ==
  /\ record.pc = "lock"
  /\ record' = [record EXCEPT !.pc = "publish", !.current = epoch]
  /\ UNCHANGED <<epoch, published, wEpoch, wSpan, take, tape, takes>>

\* Slip: the span is published under the epoch it was folded in, spent or not.
SpanToPublishStale == [epoch |-> record.epoch, span |-> wSpan]

\* The span as it stands, or, when the reader has spent it in the meantime,
\* a new one that this print opens.
SpanToPublish ==
  [epoch |-> record.current,
   span  |-> IF record.current = record.epoch THEN wSpan
             ELSE Of(tape[Len(tape)], Len(tape))]

Publish ==
  /\ record.pc = "publish"
  /\ published' = SpanToPublish
  /\ wEpoch' = SpanToPublish.epoch
  /\ wSpan' = SpanToPublish.span
  /\ record' = Returned
  /\ UNCHANGED <<epoch, take, tape, takes>>
----------------------------------------------------------------------------
(* The sweeper (take).                                                     *)

Bump ==
  /\ take = NoSpan /\ Len(takes) < MaxTakes
  /\ epoch' = epoch + 1
  /\ take' = [closing |-> epoch, done |-> Done, begun |-> Len(tape)]
  /\ UNCHANGED <<published, writer, takes>>

Takes(closing) == published # NoSpan /\ published.epoch = closing

\* The mutex is free unless the writer stands between Lock and Publish.
TakePublished ==
  /\ take # NoSpan /\ record.pc # "publish"
  /\ published' = IF Takes(take.closing) THEN NoSpan ELSE published
  /\ takes' = Append(takes,
                [done |-> take.done, begun |-> take.begun,
                 raced |-> Done > take.done,
                 answer |-> IF Takes(take.closing) THEN published.span ELSE NoSpan])
  /\ take' = NoSpan
  /\ UNCHANGED <<epoch, writer>>
----------------------------------------------------------------------------
Next == \/ \E px \in Price : RecordPrint(px)
        \/ Recheck
        \/ Lock
        \/ Publish
        \/ Bump
        \/ TakePublished

Spec == Init /\ [][Next]_vars
----------------------------------------------------------------------------
\* The extremes of the prints from a to b, each at the first instant it was
\* reached: what a per-tick evaluation would have seen.
First(S) == CHOOSE i \in S : \A j \in S : i <= j
Summary(a, b) ==
  LET highAt == First({i \in a..b : \A j \in a..b : tape[j] <= tape[i]})
      lowAt  == First({i \in a..b : \A j \in a..b : tape[j] >= tape[i]})
  IN  [high |-> tape[highAt], highAt |-> highAt,
       low |-> tape[lowAt], lowAt |-> lowAt]

\* Where the k-th take can have cut the tape: a print under way at its bump
\* may fall on either side.
Cuts == {cut \in [0..Len(takes) -> 0..Len(tape)] :
           /\ cut[0] = 0
           /\ \A k \in 1..Len(takes) : /\ cut[k] \in takes[k].done..takes[k].begun
                                       /\ cut[k - 1] <= cut[k]}

\* What the takes answered is the tape cut into consecutive runs, no print in
\* two of them and none between them: a span is the exact summary of its run,
\* to the instant, and a take that answers nothing had an empty run, or was
\* overtaken by a print between its bump and its lock.
SpansCutTape ==
  \E cut \in Cuts : \A k \in 1..Len(takes) :
    IF takes[k].answer = NoSpan
      THEN cut[k - 1] = cut[k] \/ takes[k].raced
      ELSE cut[k - 1] < cut[k] /\ takes[k].answer = Summary(cut[k - 1] + 1, cut[k])

\* Between two prints, nothing the writer knows of the open span is unknown
\* to the reader.
NothingUnpublished ==
  record.pc = "idle" /\ wEpoch = epoch /\ wSpan # NoSpan =>
    published = [epoch |-> wEpoch, span |-> wSpan]

============================================================================
