--------------------------- MODULE Extremes_proofs ---------------------------
(***************************************************************************)
(* Proofs about the account's price extremes: that the hand-off of module  *)
(* Extremes loses none, and that judging an account at the extremes alone  *)
(* is enough in module Entry, with the position cap of that module.        *)
(*                                                                         *)
(* For every set of prices, any number of prints and takes and every       *)
(* interleaving of the two threads, the writer never leaves an extreme of  *)
(* the open span unpublished between two prints, and the takes cut the     *)
(* tape into consecutive runs, each answered with its exact summary. The   *)
(* second needs to be told where the runs lie while a thread stands        *)
(* between two of its steps: CInv keeps a cut of the takes that have       *)
(* answered, and the print after which the open run begins, which differs  *)
(* from the last cut only while a take is under way.                       *)
(*                                                                         *)
(* For every policy whose floors an interval does not move, a breach is    *)
(* found at the extremes and the close exactly when reading every print    *)
(* would have found it: equity is linear in the price, so it is lowest at  *)
(* one of the two, and a floor it is under there is one of the ledger's    *)
(* own. The readings and the fills of a pass are recursive functions;      *)
(* IteratesExist and NatSetInduction, below, say what they compute.        *)
(*                                                                         *)
(* The cap rests on CapInv: the book has room under the cap for every      *)
(* order of one side to fill before any of the other, and for the submit   *)
(* that is on its way to the engine on top of them.                        *)
(***************************************************************************)
EXTENDS Extremes, Entry, FiniteSetTheorems, WellFoundedInduction, NaturalsInduction, TLAPS

\* Why NothingUnpublished survives both threads: while a call stands at its
\* re-check with its epoch still open, its extremes are the published ones;
\* the extremes are of the epoch the call loaded; and a take under way is of
\* an epoch that is already over, so it never takes the open span.
Shared ==
  /\ epoch \in Nat
  /\ published \in [epoch : Nat, span : PriceSpan] \cup {NoSpan}
  /\ take \in Take \cup {NoSpan}
  /\ take # NoSpan => take.closing < epoch

Own ==
  /\ wEpoch \in 0..epoch
  /\ wSpan \in PriceSpan \cup {NoSpan}
  /\ record \in Record
  /\ record.current \in 0..epoch
  /\ tape \in Seq(Price)
  /\ Len(tape) <= MaxPrints
  /\ record.pc # "idle" =>
       /\ wSpan # NoSpan /\ wEpoch = record.epoch
       /\ Len(tape) > 0
  /\ record.pc \in {"idle", "recheck"} /\ wEpoch = epoch /\ wSpan # NoSpan =>
       published = [epoch |-> wEpoch, span |-> wSpan]

IInv == Shared /\ Own
------------------------------------------------------------------------------
\* A span opened by one print is a span.
LEMMA OfIsSpan ==
  ASSUME NEW px \in Price, NEW at \in Instant
  PROVE  Of(px, at) \in PriceSpan
BY DEF Of, PriceSpan

\* Folding a print in keeps a span a span.
LEMMA FoldIsSpan ==
  ASSUME NEW span \in PriceSpan, NEW px \in Price, NEW at \in Instant
  PROVE  Fold(span, px, at) \in PriceSpan
BY DEF Fold, PriceSpan

\* A print that moves neither extreme changes nothing.
LEMMA FoldUnmoved ==
  ASSUME NEW span \in PriceSpan, NEW px, NEW at, ~Moves(span, px)
  PROVE  Fold(span, px, at) = span
BY DEF Fold, PriceSpan, Moves
------------------------------------------------------------------------------
\* The invariant holds before either thread has run.
LEMMA InitIInv == Init => IInv
BY ExtremesAssumption, NullAssumption DEF Init, IInv, Shared, Own, Returned, Record

\* Folding a print keeps the invariant: the only way to stay off the mutex is
\* to have moved nothing.
LEMMA PrintIInv ==
  ASSUME IInv, NEW px \in Price, RecordPrint(px)
  PROVE  IInv'
<1> DEFINE at == Len(tape) + 1
           same == wEpoch = epoch /\ wSpan # NoSpan
<1>1. at \in Instant
  BY ExtremesAssumption DEF RecordPrint, IInv, Own, Instant
<1>2. wSpan' \in PriceSpan
  BY <1>1, OfIsSpan, FoldIsSpan DEF RecordPrint, IInv, Own
<1>3. wSpan' # NoSpan
  BY <1>2, NullAssumption
<1>4. /\ tape' \in Seq(Price)
      /\ Len(tape') = Len(tape) + 1
      /\ Len(tape') <= MaxPrints
      /\ Len(tape') > 0
  BY ExtremesAssumption DEF RecordPrint, IInv, Own
<1>5. /\ record' \in Record /\ record'.current = 0
      /\ record'.epoch = epoch /\ record'.pc \in {"recheck", "lock"}
  BY DEF RecordPrint, IInv, Shared, Record
<1>6. wEpoch' = epoch /\ wEpoch' \in 0..epoch
  BY DEF RecordPrint, IInv, Shared
<1>7. ASSUME record'.pc = "recheck"
      PROVE  published' = [epoch |-> wEpoch', span |-> wSpan']
  <2>1. same /\ ~Moves(wSpan, px)
    BY <1>7 DEF RecordPrint
  <2>2. wSpan' = wSpan
    BY <2>1, FoldUnmoved DEF RecordPrint, IInv, Own
  <2>3. published = [epoch |-> wEpoch, span |-> wSpan]
    BY <2>1 DEF RecordPrint, IInv, Own
  <2> QED BY <2>1, <2>2, <2>3 DEF RecordPrint
<1>8. Shared'
  BY DEF RecordPrint, IInv, Shared
<1>9. epoch' = epoch /\ epoch \in Nat
  BY DEF RecordPrint, IInv, Shared
<1>10. Own'
  BY <1>2, <1>3, <1>4, <1>5, <1>6, <1>7, <1>9 DEF Own
<1> QED BY <1>8, <1>10 DEF IInv

\* The re-check lets the call return only while its epoch is open.
LEMMA RecheckIInv == IInv /\ Recheck => IInv'
BY DEF Recheck, IInv, Shared, Own, Record, Returned

\* Taking the mutex changes nothing but where the call stands.
LEMMA LockIInv ==
  ASSUME IInv, Lock
  PROVE  IInv'
<1>1. /\ record' \in Record /\ record'.pc = "publish"
      /\ record'.epoch = record.epoch /\ record'.current = epoch
  BY DEF Lock, IInv, Shared, Own, Record
<1>2. Shared'
  BY DEF Lock, IInv, Shared
<1>3. Own'
  BY <1>1 DEF Lock, IInv, Shared, Own
<1> QED BY <1>2, <1>3 DEF IInv

\* What is published is what the writer keeps.
LEMMA PublishIInv ==
  ASSUME IInv, Publish
  PROVE  IInv'
<1>1. Len(tape) \in Instant /\ tape[Len(tape)] \in Price
  BY DEF Publish, IInv, Own, Instant
<1>2. wSpan \in PriceSpan /\ record.current \in 0..epoch
  BY DEF Publish, IInv, Own, Record
<1>3. SpanToPublish = [epoch |-> SpanToPublish.epoch, span |-> SpanToPublish.span]
  BY DEF SpanToPublish
<1>4. SpanToPublish.epoch \in 0..epoch /\ SpanToPublish.span \in PriceSpan
  BY <1>1, <1>2, OfIsSpan DEF SpanToPublish
<1>5. Shared'
  BY <1>3, <1>4 DEF Publish, IInv, Shared
<1>6. record' \in Record /\ record'.pc = "idle" /\ record'.current = 0
  BY DEF Publish, Record, Returned
<1>7. Own'
  BY <1>3, <1>4, <1>6 DEF Publish, IInv, Shared, Own
<1> QED BY <1>5, <1>7 DEF IInv

\* A bump closes the epoch of whatever is published.
LEMMA BumpIInv ==
  ASSUME IInv, Bump
  PROVE  IInv'
<1>1. Done \in Nat /\ Len(tape) \in Nat
  BY DEF Done, IInv, Own, Record
<1>2. take' \in Take /\ take'.closing = epoch /\ epoch' = epoch + 1
  BY <1>1 DEF Bump, Take, IInv, Shared
<1>3. Shared'
  BY <1>2 DEF Bump, IInv, Shared
<1>4. wEpoch # epoch'
  BY <1>2 DEF Bump, IInv, Shared, Own
<1>5. Own'
  BY <1>2 DEF Bump, writer, IInv, Shared, Own
<1> QED BY <1>3, <1>5 DEF IInv

\* A take removes only a span whose epoch is over.
LEMMA TakeIInv ==
  ASSUME IInv, TakePublished
  PROVE  IInv'
BY DEF TakePublished, Takes, writer, IInv, Shared, Own, Take

\* Nothing the writer knows of the open span is unknown to the reader: the
\* fast path that skips the mutex loses no extreme.
THEOREM NothingUnpublishedAlways == Spec => []NothingUnpublished
<1>1. IInv /\ [Next]_vars => IInv'
  <2> SUFFICES ASSUME IInv, [Next]_vars PROVE IInv'
    OBVIOUS
  <2>1. ASSUME NEW px \in Price, RecordPrint(px) PROVE IInv'
    BY <2>1, PrintIInv
  <2>2. CASE Recheck BY <2>2, RecheckIInv
  <2>3. CASE Lock BY <2>3, LockIInv
  <2>4. CASE Publish BY <2>4, PublishIInv
  <2>5. CASE Bump BY <2>5, BumpIInv
  <2>6. CASE TakePublished BY <2>6, TakeIInv
  <2>7. CASE UNCHANGED vars BY <2>7 DEF vars, IInv, Shared, Own
  <2> QED BY <2>1, <2>2, <2>3, <2>4, <2>5, <2>6, <2>7 DEF Next
<1>2. IInv => NothingUnpublished
  BY DEF IInv, Own, NothingUnpublished
<1> QED BY InitIInv, <1>1, <1>2, PTL DEF Spec
------------------------------------------------------------------------------
(* Summaries.                                                              *)

\* s tells the extremes of the prints a to b, each at the first instant it was
\* reached: what Summary computes, as a relation.
IsSummary(t, a, b, s) ==
  /\ s.highAt \in a..b /\ s.high = t[s.highAt]
  /\ \A j \in a..b : t[j] <= s.high /\ (j < s.highAt => t[j] < s.high)
  /\ s.lowAt \in a..b /\ s.low = t[s.lowAt]
  /\ \A j \in a..b : t[j] >= s.low /\ (j < s.lowAt => t[j] > s.low)

\* A print's price is a number.
LEMMA PricesRead ==
  ASSUME NEW t \in Seq(Price), NEW j \in 1..Len(t)
  PROVE  t[j] \in Nat
<1>1. t[j] \in Price
  OBVIOUS
<1> QED BY <1>1, ExtremesAssumption

\* A summary is not disturbed by a later print.
LEMMA SummaryAppend ==
  ASSUME NEW t \in Seq(Price), NEW px \in Price, NEW a \in Nat \ {0}, NEW b \in 0..Len(t),
         NEW s \in PriceSpan, IsSummary(t, a, b, s)
  PROVE  IsSummary(Append(t, px), a, b, s)
<1> DEFINE u == Append(t, px)
<1>1. \A j \in a..b : u[j] = t[j]
  OBVIOUS
<1> HIDE DEF u
<1> QED BY <1>1 DEF IsSummary, u

\* Folding a print into a summary summarizes the run with the print.
LEMMA SummaryFold ==
  ASSUME NEW t \in Seq(Price), NEW px \in Price, NEW a \in 1..Len(t),
         NEW s \in PriceSpan, IsSummary(t, a, Len(t), s)
  PROVE  IsSummary(Append(t, px), a, Len(t) + 1, Fold(s, px, Len(t) + 1))
<1> DEFINE u == Append(t, px)
           n == Len(t)
           f == Fold(s, px, n + 1)
<1>1. /\ \A j \in a..n : u[j] = t[j] /\ t[j] \in Nat
      /\ u[n + 1] = px /\ px \in Nat /\ n \in Nat /\ a \in 1..n
  <2>1. \A j \in a..n : j \in 1..n
    OBVIOUS
  <2>2. \A j \in a..n : u[j] = t[j]
    BY <2>1
  <2>3. \A j \in a..n : t[j] \in Nat
    BY <2>1, PricesRead
  <2>4. u[n + 1] = px /\ px \in Nat /\ n \in Nat
    BY ExtremesAssumption
  <2> QED BY <2>2, <2>3, <2>4
<1>2. s.high \in Nat /\ s.low \in Nat /\ s.highAt \in Int /\ s.lowAt \in Int
  <2>1. s.high \in Price /\ s.low \in Price /\ s.highAt \in Instant /\ s.lowAt \in Instant
    BY DEF PriceSpan
  <2>2. s.high \in Nat /\ s.low \in Nat
    BY <2>1, ExtremesAssumption
  <2>3. s.highAt \in Int /\ s.lowAt \in Int
    BY <2>1, ExtremesAssumption DEF Instant
  <2> QED BY <2>2, <2>3
<1>3. /\ f.high = IF px > s.high THEN px ELSE s.high
      /\ f.highAt = IF px > s.high THEN n + 1 ELSE s.highAt
      /\ f.low = IF px < s.low THEN px ELSE s.low
      /\ f.lowAt = IF px < s.low THEN n + 1 ELSE s.lowAt
  BY DEF Fold, PriceSpan
<1>4. \A j \in a..(n + 1) : j \in a..n \/ j = n + 1
  BY <1>1
<1>5. /\ s.highAt \in a..n /\ s.high = t[s.highAt]
      /\ \A j \in a..n : t[j] <= s.high /\ (j < s.highAt => t[j] < s.high)
      /\ s.lowAt \in a..n /\ s.low = t[s.lowAt]
      /\ \A j \in a..n : t[j] >= s.low /\ (j < s.lowAt => t[j] > s.low)
  BY DEF IsSummary
<1> HIDE DEF u, f, n
<1>6. /\ f.highAt \in a..(n + 1) /\ f.high = u[f.highAt]
      /\ f.lowAt \in a..(n + 1) /\ f.low = u[f.lowAt]
  BY <1>1, <1>2, <1>3, <1>5
<1>7. ASSUME NEW j \in a..(n + 1)
      PROVE  /\ u[j] <= f.high /\ (j < f.highAt => u[j] < f.high)
             /\ u[j] >= f.low /\ (j < f.lowAt => u[j] > f.low)
  <2>1. CASE j \in a..n
    <3>1. /\ u[j] = t[j] /\ t[j] \in Nat /\ t[j] <= s.high /\ t[j] >= s.low
          /\ j < s.highAt => t[j] < s.high
          /\ j < s.lowAt => t[j] > s.low
      BY <1>1, <1>5, <2>1
    <3> QED BY <1>1, <1>2, <1>3, <2>1, <3>1
  <2>2. CASE j = n + 1
    <3>1. s.highAt < n + 1 /\ s.lowAt < n + 1
      BY <1>1, <1>5
    <3> QED BY <1>1, <1>2, <1>3, <2>2, <3>1
  <2> QED BY <1>4, <2>1, <2>2
<1> QED BY <1>6, <1>7 DEF IsSummary, u, f, n

\* One print is its own summary.
LEMMA SummaryOne ==
  ASSUME NEW t \in Seq(Price), NEW n \in 1..Len(t)
  PROVE  IsSummary(t, n, n, Of(t[n], n))
<1>1. t[n] \in Nat
  BY PricesRead
<1>2. \A j \in n..n : j = n
  OBVIOUS
<1> QED BY <1>1, <1>2 DEF IsSummary, Of

\* The relation determines the summary.
LEMMA SummaryIs ==
  ASSUME NEW a \in Nat \ {0}, NEW b \in 0..Len(tape), tape \in Seq(Price),
         NEW s \in PriceSpan, IsSummary(tape, a, b, s)
  PROVE  s = Summary(a, b)
<1> DEFINE H == {i \in a..b : \A j \in a..b : tape[j] <= tape[i]}
           W == {i \in a..b : \A j \in a..b : tape[j] >= tape[i]}
<1>1. \A j \in a..b : tape[j] \in Nat
  <2>1. \A j \in a..b : j \in 1..Len(tape)
    OBVIOUS
  <2> QED BY <2>1, PricesRead
<1>2. /\ s.highAt \in a..b /\ s.high = tape[s.highAt]
      /\ \A j \in a..b : tape[j] <= s.high /\ (j < s.highAt => tape[j] < s.high)
      /\ s.lowAt \in a..b /\ s.low = tape[s.lowAt]
      /\ \A j \in a..b : tape[j] >= s.low /\ (j < s.lowAt => tape[j] > s.low)
  BY DEF IsSummary
<1>3. s.highAt \in H /\ \A i \in H : s.highAt <= i
  <2>1. s.highAt \in H
    BY <1>2
  <2>2. ASSUME NEW i \in H, ~(s.highAt <= i) PROVE FALSE
    <3>1. i \in a..b /\ tape[s.highAt] <= tape[i]
      BY <1>2, <2>2
    <3>2. i < s.highAt
      BY <1>2, <2>2, <3>1
    <3>3. tape[i] < tape[s.highAt]
      BY <1>2, <3>1, <3>2
    <3> QED BY <1>1, <1>2, <3>1, <3>3
  <2> QED BY <2>1, <2>2
<1>4. s.lowAt \in W /\ \A i \in W : s.lowAt <= i
  <2>1. s.lowAt \in W
    BY <1>2
  <2>2. ASSUME NEW i \in W, ~(s.lowAt <= i) PROVE FALSE
    <3>1. i \in a..b /\ tape[s.lowAt] >= tape[i]
      BY <1>2, <2>2
    <3>2. i < s.lowAt
      BY <1>2, <2>2, <3>1
    <3>3. tape[i] > tape[s.lowAt]
      BY <1>2, <3>1, <3>2
    <3> QED BY <1>1, <1>2, <3>1, <3>3
  <2> QED BY <2>1, <2>2
<1>5. H \subseteq Int /\ W \subseteq Int
  OBVIOUS
<1> HIDE DEF H, W
<1>6. First(H) = s.highAt /\ First(W) = s.lowAt
  <2>1. ASSUME NEW S, NEW m \in S, S \subseteq Int, \A i \in S : m <= i
        PROVE  First(S) = m
    <3>1. First(S) \in S /\ \A j \in S : First(S) <= j
      BY <2>1 DEF First
    <3>2. First(S) <= m /\ m <= First(S) /\ First(S) \in Int /\ m \in Int
      BY <2>1, <3>1
    <3> QED BY <3>2
  <2> QED BY <1>3, <1>4, <1>5, <2>1
<1>7. Summary(a, b) = [high |-> tape[s.highAt], highAt |-> s.highAt,
                       low |-> tape[s.lowAt], lowAt |-> s.lowAt]
  BY <1>6 DEF Summary, H, W
<1>8. s = [high |-> s.high, highAt |-> s.highAt, low |-> s.low, lowAt |-> s.lowAt]
  BY DEF PriceSpan
<1> QED BY <1>2, <1>7, <1>8
----------------------------------------------------------------------------
(* Why SpansCutTape survives both threads.                                 *)

\* The writer holds the mutex for a span the reader has closed since.
Late == record.pc = "publish" /\ record.current < epoch

\* The open epoch's span has been published.
Opened == published # NoSpan /\ published.epoch = epoch

AnswerOf == [done : Nat, begun : Nat, raced : BOOLEAN, answer : PriceSpan \cup {NoSpan}]

Answered(cut) ==
  \A k \in 1..Len(takes) :
    IF takes[k].answer = NoSpan
      THEN cut[k - 1] = cut[k] \/ takes[k].raced
      ELSE /\ cut[k - 1] < cut[k]
           /\ IsSummary(tape, cut[k - 1] + 1, cut[k], takes[k].answer)

\* The takes that have answered consumed the prints to c; the take under way
\* closes a run that ends at b.
Closing(c, b) ==
  /\ c <= b
  /\ take = NoSpan => c = b /\ (published # NoSpan => Opened)
  /\ take # NoSpan =>
       /\ take.closing = epoch - 1
       /\ take.done <= b /\ b <= take.begun
       /\ take.done <= Done /\ take.begun <= Len(tape)
       /\ Opened => take.done < Done
       /\ published # NoSpan /\ ~Opened => published.epoch = take.closing
       /\ published # NoSpan /\ ~Opened /\ ~Late =>
             c < b /\ IsSummary(tape, c + 1, b, published.span)
       /\ published = NoSpan /\ ~Late => c = b

\* The open epoch's run begins after b, and what the writer publishes in it
\* next is the summary of that run.
Opens(b) ==
  /\ published # NoSpan => wSpan # NoSpan /\ published.epoch <= wEpoch
  /\ record.pc # "idle" => record.epoch <= epoch
  /\ record.pc = "publish" => record.epoch <= record.current
  /\ ~Late =>
       /\ Opened => /\ b < Done
                    /\ IsSummary(tape, b + 1, Done, published.span)
                    /\ record.pc # "idle" => record.epoch = epoch
       /\ ~Opened => b = Done
       /\ record.pc # "idle" /\ record.epoch = epoch =>
             b < Len(tape) /\ IsSummary(tape, b + 1, Len(tape), wSpan)
       /\ record.pc # "idle" /\ record.epoch < epoch => b = Len(tape) - 1

\* A publication that comes late is of the run being closed, to its last print.
Lags(c, b) ==
  Late => /\ take # NoSpan /\ record.current = take.closing /\ ~Opened
          /\ b = Len(tape) /\ c < b
          /\ IsSummary(tape, c + 1, b, SpanToPublish.span)

Laid(cut, b) ==
  /\ Answered(cut)
  /\ Closing(cut[Len(takes)], b)
  /\ Opens(b)
  /\ Lags(cut[Len(takes)], b)

CInv ==
  /\ IInv
  /\ takes \in Seq(AnswerOf)
  /\ \E cut \in Cuts : \E b \in 0..Len(tape) : Laid(cut, b)

LEMMA InitCInv == Init => CInv
<1> SUFFICES ASSUME Init PROVE CInv
  OBVIOUS
<1>1. /\ epoch = 0 /\ published = NoSpan /\ wSpan = NoSpan /\ take = NoSpan
      /\ tape = <<>> /\ takes = <<>> /\ record.pc = "idle"
      /\ Len(tape) = 0 /\ Len(takes) = 0
  BY DEF Init, Returned
<1> DEFINE cut == [k \in 0..Len(takes) |-> 0]
<1>2. cut \in Cuts
  BY <1>1 DEF Cuts
<1>3. cut[Len(takes)] = 0 /\ Done = 0 /\ ~Opened /\ ~Late
  BY <1>1 DEF Done, Opened, Late
<1>4. Answered(cut)
  BY <1>1 DEF Answered
<1> HIDE DEF cut
<1>5. Laid(cut, 0)
  BY <1>1, <1>3, <1>4 DEF Laid, Closing, Opens, Lags
<1>6. takes \in Seq(AnswerOf)
  BY <1>1
<1>7. 0 \in 0..Len(tape)
  BY <1>1
<1> QED BY <1>2, <1>5, <1>6, <1>7, InitIInv DEF CInv

\* What the invariant says of the types involved.
LEMMA Kinds ==
  ASSUME IInv
  PROVE  /\ epoch \in Nat /\ wEpoch \in Nat /\ wEpoch <= epoch
         /\ tape \in Seq(Price) /\ Len(tape) \in Nat
         /\ record.epoch \in Nat /\ record.current \in Nat /\ record.current <= epoch
         /\ record.pc \in {"idle", "recheck", "lock", "publish"}
         /\ record.pc # "idle" => wEpoch = record.epoch /\ wSpan # NoSpan /\ Len(tape) > 0
         /\ Done \in Nat /\ Done = (IF record.pc = "idle" THEN Len(tape) ELSE Len(tape) - 1)
         /\ published # NoSpan => published.epoch \in Nat /\ published.span \in PriceSpan
         /\ wSpan # NoSpan => wSpan \in PriceSpan
         /\ take # NoSpan => /\ take.closing \in Nat /\ take.done \in Nat
                             /\ take.begun \in Nat /\ take.closing < epoch
<1>1. /\ record \in Record /\ tape \in Seq(Price) /\ epoch \in Nat
      /\ record.pc # "idle" => Len(tape) > 0
  BY DEF IInv, Own, Shared
<1>2. Done \in Nat /\ Done = (IF record.pc = "idle" THEN Len(tape) ELSE Len(tape) - 1)
  BY <1>1 DEF Done
<1>3. /\ record.epoch \in Nat /\ record.current \in Nat
      /\ record.pc \in {"idle", "recheck", "lock", "publish"}
  BY <1>1 DEF Record
<1>4. wEpoch \in Nat /\ wEpoch <= epoch /\ record.current <= epoch
  BY <1>1 DEF IInv, Own
<1>5. take # NoSpan => /\ take.closing \in Nat /\ take.done \in Nat
                       /\ take.begun \in Nat /\ take.closing < epoch
  BY DEF IInv, Shared, Take
<1>6. published # NoSpan => published.epoch \in Nat /\ published.span \in PriceSpan
  BY DEF IInv, Shared
<1> QED BY <1>1, <1>2, <1>3, <1>4, <1>5, <1>6 DEF IInv, Own

LEMMA CutFacts ==
  ASSUME NEW cut \in Cuts, takes \in Seq(AnswerOf)
  PROVE  /\ \A k \in 0..Len(takes) : cut[k] \in 0..Len(tape)
         /\ Len(takes) \in Nat
         /\ cut[Len(takes)] \in 0..Len(tape)
<1>1. Len(takes) \in Nat
  OBVIOUS
<1>2. cut \in [0..Len(takes) -> 0..Len(tape)]
  BY DEF Cuts
<1> QED BY <1>1, <1>2

\* A cut of the takes so far stays one while the tape grows.
LEMMA CutsGrow ==
  ASSUME NEW cut \in Cuts, takes' = takes,
         Len(tape) \in Nat, Len(tape') \in Nat, Len(tape') >= Len(tape)
  PROVE  cut \in Cuts'
<1>1. 0..Len(tape) \subseteq 0..Len(tape')
  OBVIOUS
<1>2. cut \in [0..Len(takes) -> 0..Len(tape)]
  BY DEF Cuts
<1>3. cut \in [0..Len(takes) -> 0..Len(tape')]
  BY <1>1, <1>2
<1> QED BY <1>3 DEF Cuts

\* What the writer does between two takes: the cut stands, and so does the
\* tape it was made of.
LEMMA WriterCInv ==
  ASSUME CInv, IInv', takes' = takes, NEW cut \in Cuts, NEW b \in 0..Len(tape),
         tape' = tape, Laid(cut, b), NEW c, c = cut[Len(takes)],
         Closing(c, b)', Opens(b)', Lags(c, b)'
  PROVE  CInv'
<1>1. cut \in Cuts' /\ takes' \in Seq(AnswerOf) /\ b \in 0..Len(tape')
  BY CutsGrow, Kinds DEF CInv
<1>2. Answered(cut)'
  BY DEF Answered, Laid
<1>3. Laid(cut, b)'
  BY <1>2 DEF Laid
<1> QED BY <1>1, <1>3 DEF CInv

\* A re-check that returns counts its print as recorded.
LEMMA RecheckCInv ==
  ASSUME CInv, Recheck
  PROVE  CInv'
<1>1. PICK cut \in Cuts, b \in 0..Len(tape) : Laid(cut, b)
  BY DEF CInv
<1>0. PICK c : c = cut[Len(takes)]
  OBVIOUS
<1>2. IInv /\ IInv'
  BY RecheckIInv DEF CInv
<1>3. c \in 0..Len(tape) /\ Len(tape) \in Nat /\ epoch \in Nat /\ Done = Len(tape) - 1
  BY <1>0, <1>1, <1>2, CutFacts, Kinds DEF CInv, Recheck
<1>4. /\ epoch' = epoch /\ published' = published /\ wEpoch' = wEpoch /\ wSpan' = wSpan
      /\ take' = take /\ tape' = tape /\ takes' = takes
      /\ record.pc = "recheck" /\ record'.epoch \in Nat
  BY <1>2 DEF Recheck, IInv, Own, Record
<1>5. Closing(c, b) /\ Opens(b)
  BY <1>0, <1>1 DEF Laid
<1>6. ~Late /\ ~Late' /\ (Opened' <=> Opened)
  <2>1. record'.pc # "publish"
    BY <1>2, <1>4 DEF Recheck, Returned, IInv, Own, Record
  <2> QED BY <1>4, <2>1 DEF Late, Opened
<1>7. CASE epoch = record.epoch
  <2>1. record'.pc = "idle" /\ Done' = Len(tape)
    BY <1>4, <1>7 DEF Recheck, Returned, Done
  <2>2. /\ b < Len(tape) /\ IsSummary(tape, b + 1, Len(tape), wSpan)
        /\ published = [epoch |-> wEpoch, span |-> wSpan] /\ wEpoch = epoch
        /\ published # NoSpan
    <3>1. wEpoch = record.epoch /\ wSpan # NoSpan
      BY <1>2, <1>4 DEF IInv, Own
    <3>2. published = [epoch |-> wEpoch, span |-> wSpan]
      BY <1>2, <1>4, <1>7, <3>1 DEF IInv, Own
    <3>3. published \in Stamped
      BY <1>2, <3>1, <3>2, Kinds DEF Stamped
    <3> QED BY <1>4, <1>5, <1>6, <1>7, <3>1, <3>2, <3>3, NullAssumption DEF Opens
  <2>3. Opened
    BY <2>2 DEF Opened
  <2>4. Closing(c, b)'
    BY <1>2, <1>3, <1>4, <1>5, <1>6, <2>1, <2>3, Kinds DEF Closing
  <2>5. Opens(b)'
    BY <1>4, <1>5, <1>6, <2>1, <2>2, <2>3 DEF Opens
  <2> QED BY <1>1, <1>2, <1>4, <1>6, <2>4, <2>5, <1>0, WriterCInv DEF Lags
<1>8. CASE epoch # record.epoch
  <2>1. record'.pc = "lock" /\ Done' = Done /\ record'.epoch = record.epoch
    BY <1>2, <1>4, <1>8 DEF Recheck, Done, IInv, Own, Record
  <2>2. Closing(c, b)'
    BY <1>4, <1>5, <1>6, <2>1 DEF Closing
  <2>3. Opens(b)'
    BY <1>4, <1>5, <1>6, <2>1 DEF Opens
  <2> QED BY <1>1, <1>2, <1>4, <1>6, <2>2, <2>3, <1>0, WriterCInv DEF Lags
<1> QED BY <1>7, <1>8

\* Nothing can be late while the writer only takes the mutex.
LEMMA LockCInv ==
  ASSUME CInv, Lock
  PROVE  CInv'
<1>1. PICK cut \in Cuts, b \in 0..Len(tape) : Laid(cut, b)
  BY DEF CInv
<1>0. PICK c : c = cut[Len(takes)]
  OBVIOUS
<1>2. IInv /\ IInv'
  BY LockIInv DEF CInv
<1>4. /\ epoch' = epoch /\ published' = published /\ wEpoch' = wEpoch /\ wSpan' = wSpan
      /\ take' = take /\ tape' = tape /\ takes' = takes
      /\ record.pc = "lock" /\ record'.pc = "publish" /\ record'.epoch = record.epoch
      /\ record'.current = epoch
  BY <1>2 DEF Lock, IInv, Own, Record
<1>5. Closing(c, b) /\ Opens(b)
  BY <1>0, <1>1 DEF Laid
<1>6. ~Late /\ ~Late' /\ (Opened' <=> Opened) /\ Done' = Done
  BY <1>2, <1>4, Kinds DEF Late, Opened, Done
<1>7. Closing(c, b)'
  BY <1>4, <1>5, <1>6 DEF Closing
<1>8. Opens(b)'
  BY <1>4, <1>5, <1>6 DEF Opens
<1> QED BY <1>1, <1>2, <1>4, <1>6, <1>7, <1>8, <1>0, WriterCInv DEF Lags

\* What is published is the summary of the open run, or of the one being closed.
LEMMA PublishCInv ==
  ASSUME CInv, Publish
  PROVE  CInv'
<1>1. PICK cut \in Cuts, b \in 0..Len(tape) : Laid(cut, b)
  BY DEF CInv
<1>0. PICK c : c = cut[Len(takes)]
  OBVIOUS
<1> DEFINE n == Len(tape)
           p == SpanToPublish
<1>2. IInv /\ IInv'
  BY PublishIInv DEF CInv
<1>3. /\ c \in 0..n /\ n \in Nat /\ n > 0 /\ epoch \in Nat /\ Done = n - 1
      /\ record.current \in Nat /\ record.current <= epoch /\ record.epoch \in Nat
      /\ tape \in Seq(Price)
  BY <1>0, <1>1, <1>2, CutFacts, Kinds DEF CInv, Publish
<1>4. /\ epoch' = epoch /\ published' = p /\ wEpoch' = p.epoch /\ wSpan' = p.span
      /\ take' = take /\ tape' = tape /\ takes' = takes
      /\ record.pc = "publish" /\ record'.pc = "idle" /\ p.epoch = record.current
  BY DEF Publish, Returned, SpanToPublish
<1>5. Closing(c, b) /\ Opens(b) /\ Lags(c, b)
  BY <1>0, <1>1 DEF Laid
<1>6. /\ p.span # NoSpan /\ p # NoSpan /\ Done' = n /\ ~Late'
  <2>1. /\ wSpan \in PriceSpan /\ tape[n] \in Price /\ n \in Instant
    BY <1>2, <1>4 DEF IInv, Own, Instant
  <2>2. p.span \in PriceSpan
    BY <2>1, OfIsSpan DEF SpanToPublish
  <2>3. p \in Stamped
    BY <1>3, <1>4, <2>2 DEF Stamped, SpanToPublish
  <2> QED BY <1>4, <2>2, <2>3, NullAssumption DEF Done, Late
<1>7. p.span = IF record.current = record.epoch THEN wSpan ELSE Of(tape[n], n)
  BY DEF SpanToPublish
<1>8. p.epoch \in Nat
  BY <1>3, <1>4
<1> HIDE DEF n, p
<1>9. CASE Late
  <2>1. /\ take # NoSpan /\ record.current = take.closing /\ b = n /\ c < b
        /\ IsSummary(tape, c + 1, b, p.span)
    BY <1>5, <1>9 DEF Lags, n, p
  <2>2. ~Opened'
    BY <1>3, <1>4, <1>9 DEF Opened, Late
  <2>3. Closing(c, b)'
    BY <1>3, <1>4, <1>5, <1>6, <2>1, <2>2, <1>2, Kinds DEF Closing, n
  <2>4. Opens(b)'
    BY <1>4, <1>6, <1>8, <2>1, <2>2 DEF Opens
  <2> QED BY <1>1, <1>2, <1>4, <1>6, <2>3, <2>4, <1>0, WriterCInv DEF Lags
<1>10. CASE ~Late
  <2>1. record.current = epoch /\ record.epoch <= epoch
    BY <1>3, <1>4, <1>5, <1>10 DEF Late, Opens
  <2>2. Opened'
    BY <1>4, <1>6, <2>1 DEF Opened
  <2>3. b < n /\ IsSummary(tape, b + 1, n, p.span)
    <3>1. CASE record.epoch = epoch
      BY <1>4, <1>5, <1>7, <1>10, <2>1, <3>1 DEF Opens, n
    <3>2. CASE record.epoch # epoch
      <4>1. b = n - 1
        BY <1>3, <1>4, <1>5, <1>10, <2>1, <3>2 DEF Opens, n
      <4>2. IsSummary(tape, n, n, Of(tape[n], n))
        BY <1>3, SummaryOne DEF n
      <4>3. b + 1 = n
        BY <1>3, <4>1
      <4> QED BY <1>3, <1>7, <2>1, <3>2, <4>1, <4>2, <4>3
    <3> QED BY <3>1, <3>2
  <2>4. take # NoSpan => take.done < Done'
    BY <1>2, <1>3, <1>5, <1>6, Kinds DEF Closing
  <2>5. Closing(c, b)'
    BY <1>2, <1>3, <1>4, <1>5, <1>6, <2>2, <2>4, Kinds DEF Closing
  <2>6. Opens(b)'
    BY <1>4, <1>6, <1>8, <2>2, <2>3 DEF Opens
  <2> QED BY <1>1, <1>2, <1>4, <1>6, <2>5, <2>6, <1>0, WriterCInv DEF Lags
<1> QED BY <1>9, <1>10

\* A print joins the open run.
LEMMA PrintCInv ==
  ASSUME CInv, NEW px \in Price, RecordPrint(px)
  PROVE  CInv'
<1>1. PICK cut \in Cuts, b \in 0..Len(tape) : Laid(cut, b)
  BY DEF CInv
<1>0. PICK c : c = cut[Len(takes)]
  OBVIOUS
<1>00. PICK n : n = Len(tape)
  OBVIOUS
<1>2. IInv /\ IInv' /\ takes \in Seq(AnswerOf)
  BY PrintIInv DEF CInv
<1>3. /\ c \in 0..n /\ n \in Nat /\ epoch \in Nat /\ Done = n /\ b \in 0..n
      /\ tape \in Seq(Price) /\ wEpoch \in Nat /\ wEpoch <= epoch
  BY <1>0, <1>00, <1>1, <1>2, CutFacts, Kinds DEF RecordPrint
<1>4. /\ epoch' = epoch /\ published' = published /\ wEpoch' = epoch
      /\ take' = take /\ takes' = takes /\ tape' = Append(tape, px)
      /\ record.pc = "idle" /\ record'.pc \in {"recheck", "lock"}
      /\ record'.epoch = epoch
      /\ wSpan' = IF wEpoch = epoch /\ wSpan # NoSpan
                    THEN Fold(wSpan, px, n + 1) ELSE Of(px, n + 1)
  BY <1>00 DEF RecordPrint
<1>5. Answered(cut) /\ Closing(c, b) /\ Opens(b)
  BY <1>0, <1>1 DEF Laid
<1>6. ~Late /\ ~Late' /\ (Opened' <=> Opened) /\ Len(tape') = n + 1 /\ Done' = n
  BY <1>00, <1>3, <1>4 DEF Late, Opened, Done
<1>7. \A x \in 1..(n + 1), y \in 0..n, s \in PriceSpan :
        IsSummary(tape, x, y, s) => IsSummary(tape', x, y, s)
  BY <1>00, <1>3, <1>4, SummaryAppend
<1>8. published # NoSpan => published.span \in PriceSpan
  BY <1>2, Kinds
<1>9. cut \in Cuts'
  BY <1>00, <1>1, <1>3, <1>4, <1>6, CutsGrow
<1>10. Answered(cut)'
  <2> SUFFICES ASSUME NEW k \in 1..Len(takes), takes[k].answer # NoSpan
               PROVE  /\ cut[k - 1] < cut[k]
                      /\ IsSummary(tape', cut[k - 1] + 1, cut[k], takes[k].answer)
    BY <1>4, <1>5 DEF Answered
  <2>1. /\ cut[k - 1] < cut[k]
        /\ IsSummary(tape, cut[k - 1] + 1, cut[k], takes[k].answer)
    BY <1>5 DEF Answered
  <2>2. takes[k] \in AnswerOf
    BY <1>2
  <2>3. takes[k].answer \in PriceSpan
    BY <2>2 DEF AnswerOf
  <2>4. cut[k - 1] \in 0..n /\ cut[k] \in 0..n
    <3>1. k - 1 \in 0..Len(takes) /\ k \in 0..Len(takes)
      BY <1>2
    <3> QED BY <1>00, <1>1, <1>2, <3>1, CutFacts
  <2>5. cut[k - 1] + 1 \in 1..(n + 1)
    BY <1>3, <2>4
  <2> QED BY <1>7, <2>1, <2>3, <2>4, <2>5
<1>11. b + 1 \in 1..(n + 1) /\ b \in 0..n /\ c + 1 \in 1..(n + 1) /\ n \in 0..n
  BY <1>3
<1>12. Closing(c, b)'
  <2>1. take # NoSpan => take.begun \in Nat /\ take.done \in Nat
    BY <1>2, Kinds
  <2>2. take # NoSpan => take.begun <= n + 1
    BY <1>00, <1>3, <1>5, <2>1 DEF Closing
  <2>3. published # NoSpan /\ IsSummary(tape, c + 1, b, published.span)
        => IsSummary(tape', c + 1, b, published.span)
    BY <1>7, <1>8, <1>11
  <2> QED BY <1>3, <1>4, <1>5, <1>6, <2>2, <2>3 DEF Closing
<1>13. b < n + 1 /\ IsSummary(tape', b + 1, n + 1, wSpan')
  <2>1. CASE wEpoch = epoch /\ wSpan # NoSpan
    <3>1. published = [epoch |-> wEpoch, span |-> wSpan] /\ wSpan \in PriceSpan
      BY <1>2, <1>4, <2>1 DEF IInv, Own
    <3>2. published \in Stamped
      BY <1>3, <3>1 DEF Stamped
    <3>3. Opened /\ published.span = wSpan
      BY <2>1, <3>1, <3>2, NullAssumption DEF Opened
    <3>4. b < n /\ IsSummary(tape, b + 1, n, wSpan)
      BY <1>3, <1>5, <1>6, <3>3 DEF Opens
    <3>5. b + 1 \in 1..n
      BY <1>3, <3>4
    <3>6. IsSummary(Append(tape, px), b + 1, n + 1, Fold(wSpan, px, n + 1))
      BY <1>00, <1>3, <3>1, <3>4, <3>5, SummaryFold
    <3> QED BY <1>3, <1>4, <2>1, <3>4, <3>6
  <2>2. CASE ~(wEpoch = epoch /\ wSpan # NoSpan)
    <3>1. ~Opened
      <4>1. Opened => wSpan # NoSpan /\ epoch <= wEpoch
        BY <1>5 DEF Opened, Opens
      <4> QED BY <1>3, <2>2, <4>1
    <3>2. b = n
      BY <1>3, <1>5, <1>6, <3>1 DEF Opens
    <3>3. /\ tape' \in Seq(Price) /\ n + 1 \in 1..Len(tape') /\ tape'[n + 1] = px
      BY <1>00, <1>3, <1>4
    <3>4. IsSummary(tape', n + 1, n + 1, Of(px, n + 1))
      BY <3>3, SummaryOne
    <3>5. wSpan' = Of(px, n + 1)
      BY <1>4, <2>2
    <3> QED BY <1>3, <3>2, <3>4, <3>5
  <2> QED BY <2>1, <2>2
<1>14. Opens(b)'
  <2>1. published # NoSpan => wSpan' # NoSpan /\ published.epoch <= epoch
    <3>1. wSpan' # NoSpan
      BY <1>2, <1>4, Kinds DEF IInv, Own
    <3>2. published # NoSpan => published.epoch \in Nat /\ published.epoch <= wEpoch
      BY <1>2, <1>5, Kinds DEF Opens
    <3> QED BY <1>3, <3>1, <3>2
  <2>2. Opened => b < n /\ IsSummary(tape', b + 1, n, published.span)
    <3>1. Opened => b < n /\ IsSummary(tape, b + 1, n, published.span)
      BY <1>3, <1>5, <1>6 DEF Opens
    <3> QED BY <1>7, <1>8, <1>11, <3>1 DEF Opened
  <2>3. ~Opened => b = n
    BY <1>3, <1>5, <1>6 DEF Opens
  <2> QED BY <1>3, <1>4, <1>6, <1>13, <2>1, <2>2, <2>3 DEF Opens
<1>15. Laid(cut, b)'
  BY <1>0, <1>4, <1>6, <1>10, <1>12, <1>14 DEF Laid, Lags
<1>16. b \in 0..Len(tape') /\ takes' \in Seq(AnswerOf)
  BY <1>2, <1>3, <1>4, <1>6
<1> QED BY <1>2, <1>9, <1>15, <1>16 DEF CInv

\* A bump closes the open run: after the print under way only if the writer
\* holds the mutex for it.
LEMMA BumpCInv ==
  ASSUME CInv, Bump
  PROVE  CInv'
<1>1. PICK cut \in Cuts, b \in 0..Len(tape) : Laid(cut, b)
  BY DEF CInv
<1>0. PICK c : c = cut[Len(takes)]
  OBVIOUS
<1>00. PICK n : n = Len(tape)
  OBVIOUS
<1>2. IInv /\ IInv' /\ takes \in Seq(AnswerOf)
  BY BumpIInv DEF CInv
<1>3. /\ c \in 0..n /\ n \in Nat /\ epoch \in Nat /\ b \in 0..n /\ tape \in Seq(Price)
      /\ record.epoch \in Nat /\ record.current \in Nat /\ record.current <= epoch
      /\ record.pc \in {"idle", "recheck", "lock", "publish"}
      /\ Done = IF record.pc = "idle" THEN n ELSE n - 1
      /\ record.pc # "idle" => n > 0
  BY <1>0, <1>00, <1>1, <1>2, CutFacts, Kinds
<1>4. /\ epoch' = epoch + 1 /\ published' = published /\ wEpoch' = wEpoch
      /\ wSpan' = wSpan /\ record' = record /\ tape' = tape /\ takes' = takes
      /\ take = NoSpan /\ take' = [closing |-> epoch, done |-> Done, begun |-> n]
  BY <1>00 DEF Bump, writer
<1>5. Answered(cut) /\ Closing(c, b) /\ Opens(b) /\ Lags(c, b)
  BY <1>0, <1>1 DEF Laid
<1>6. /\ take' # NoSpan /\ take'.closing = epoch /\ take'.done = Done /\ take'.begun = n
      /\ Done' = Done
  <2>1. take' \in Take
    BY <1>3, <1>4 DEF Take
  <2> QED BY <1>4, <2>1, NullAssumption DEF Done
<1>7. ~Late /\ (Late' <=> record.pc = "publish") /\ ~Opened'
  <2>1. ~Late
    BY <1>4, <1>5 DEF Lags
  <2>2. Late' <=> record.pc = "publish"
    BY <1>3, <1>4 DEF Late
  <2>3. published # NoSpan => published.epoch = epoch
    BY <1>4, <1>5 DEF Closing, Opened
  <2> QED BY <1>3, <1>4, <2>1, <2>2, <2>3 DEF Opened
<1>8. /\ c = b /\ b <= Done
      /\ published # NoSpan => Opened
      /\ Opened => b < Done /\ IsSummary(tape, b + 1, Done, published.span)
      /\ published = NoSpan => b = Done
  <2>1. c = b /\ (published # NoSpan => Opened)
    BY <1>4, <1>5 DEF Closing
  <2>2. Opened => b < Done /\ IsSummary(tape, b + 1, Done, published.span)
    BY <1>5, <1>7 DEF Opens
  <2>3. ~Opened => b = Done
    BY <1>5, <1>7 DEF Opens
  <2>4. published = NoSpan => ~Opened
    BY DEF Opened
  <2> QED BY <1>3, <2>1, <2>2, <2>3, <2>4
<1>9. PICK d : d = IF record.pc = "publish" THEN n ELSE Done
  OBVIOUS
<1>10. d \in 0..n /\ Done <= d /\ c <= d
  BY <1>3, <1>8, <1>9
<1>11. Closing(c, d)'
  <2>1. published # NoSpan => published.epoch = epoch
    BY <1>8 DEF Opened
  <2>2. ~Late' => d = Done
    BY <1>7, <1>9
  <2>3. epoch' - 1 = epoch /\ Done <= n
    BY <1>3, <1>4
  <2>4. published # NoSpan /\ ~Late' =>
          c < d /\ IsSummary(tape, c + 1, d, published.span)
    BY <1>8, <2>2
  <2>5. published = NoSpan /\ ~Late' => c = d
    BY <1>8, <2>2
  <2>6. /\ take'.done <= d /\ d <= take'.begun
        /\ take'.done <= Done' /\ take'.begun <= Len(tape')
    <3>1. Done \in Int /\ Done <= Done /\ n <= n /\ Len(tape') = n /\ d <= n
      BY <1>00, <1>3, <1>4, <1>10
    <3> QED BY <1>6, <1>10, <3>1
  <2>7. take'.closing = epoch' - 1 /\ c <= d
    BY <1>6, <1>10, <2>3
  <2> QED BY <1>4, <1>6, <1>7, <2>1, <2>4, <2>5, <2>6, <2>7 DEF Closing
<1>12. Opens(d)'
  <2>1. /\ published # NoSpan => wSpan # NoSpan /\ published.epoch <= wEpoch
        /\ record.pc # "idle" => record.epoch <= epoch
        /\ record.pc = "publish" => record.epoch <= record.current
    BY <1>5 DEF Opens
  <2>2. record.pc # "idle" => record.epoch <= epoch' /\ record.epoch # epoch'
    BY <1>3, <1>4, <2>1
  <2>3. ~Late' => d = Done
    BY <1>7, <1>9
  <2> QED BY <1>00, <1>3, <1>4, <1>6, <1>7, <2>1, <2>2, <2>3 DEF Opens
<1>13. Lags(c, d)'
  <2> SUFFICES ASSUME record.pc = "publish"
               PROVE  /\ record.current = epoch /\ d = n /\ c < d
                      /\ IsSummary(tape, c + 1, d, SpanToPublish.span)
    BY <1>00, <1>4, <1>6, <1>7 DEF Lags, SpanToPublish
  <2>1. record.current = epoch
    BY <1>3, <1>7 DEF Late
  <2>2. d = n /\ c < d
    BY <1>3, <1>8, <1>9
  <2>3. CASE record.epoch = epoch
    BY <1>00, <1>5, <1>7, <1>8, <2>1, <2>2, <2>3 DEF Opens, SpanToPublish
  <2>4. CASE record.epoch # epoch
    <3>1. record.epoch < epoch
      BY <1>3, <1>5, <2>4 DEF Opens
    <3>2. b = n - 1
      BY <1>00, <1>5, <1>7, <3>1 DEF Opens
    <3>3. SpanToPublish.span = Of(tape[n], n)
      BY <1>00, <2>1, <2>4 DEF SpanToPublish
    <3>4. IsSummary(tape, n, n, Of(tape[n], n))
      BY <1>00, <1>3, SummaryOne
    <3>5. c + 1 = n
      BY <1>3, <1>8, <3>2
    <3> QED BY <2>1, <2>2, <3>3, <3>4, <3>5
  <2> QED BY <2>1, <2>2, <2>3, <2>4
<1>14. Answered(cut)'
  BY <1>4, <1>5 DEF Answered
<1>15. Laid(cut, d)' /\ cut \in Cuts' /\ d \in 0..Len(tape') /\ takes' \in Seq(AnswerOf)
  <2>1. Laid(cut, d)'
    BY <1>0, <1>4, <1>11, <1>12, <1>13, <1>14 DEF Laid
  <2>2. cut \in Cuts'
    BY <1>00, <1>1, <1>3, <1>4, CutsGrow
  <2> QED BY <1>00, <1>2, <1>4, <1>10, <2>1, <2>2
<1> QED BY <1>2, <1>15 DEF CInv

\* A take cuts the tape where the run it closed ends.
LEMMA TakeCInv ==
  ASSUME CInv, TakePublished
  PROVE  CInv'
<1>1. PICK cut \in Cuts, b \in 0..Len(tape) : Laid(cut, b)
  BY DEF CInv
<1>0. PICK c : c = cut[Len(takes)]
  OBVIOUS
<1>00. PICK n : n = Len(tape)
  OBVIOUS
<1>01. PICK m : m = Len(takes)
  OBVIOUS
<1>2. IInv /\ IInv' /\ takes \in Seq(AnswerOf)
  BY TakeIInv DEF CInv
<1>3. /\ c \in 0..n /\ n \in Nat /\ m \in Nat /\ b \in 0..n /\ epoch \in Nat
      /\ take.closing \in Nat /\ take.closing < epoch
      /\ take.done \in Nat /\ take.begun \in Nat /\ Done \in Nat
  BY <1>0, <1>00, <1>01, <1>1, <1>2, CutFacts, Kinds DEF TakePublished
<1> DEFINE r == [done |-> take.done, begun |-> take.begun, raced |-> Done > take.done,
                 answer |-> IF Takes(take.closing) THEN published.span ELSE NoSpan]
<1>4. /\ epoch' = epoch /\ wEpoch' = wEpoch /\ wSpan' = wSpan /\ record' = record
      /\ tape' = tape /\ take # NoSpan /\ take' = NoSpan /\ record.pc # "publish"
      /\ published' = IF Takes(take.closing) THEN NoSpan ELSE published
      /\ takes' = Append(takes, r)
  BY DEF TakePublished, writer
<1>5. Answered(cut) /\ Closing(c, b) /\ Opens(b)
  BY <1>0, <1>1 DEF Laid
<1>6. ~Late /\ ~Late' /\ Done' = Done
  BY <1>4 DEF Late, Done
<1>7. Takes(take.closing) <=> published # NoSpan /\ ~Opened
  BY <1>3, <1>4, <1>5 DEF Takes, Opened, Closing
<1>8. Opened' <=> Opened
  BY <1>4, <1>7 DEF Opened
<1>9. published # NoSpan => published.span \in PriceSpan
  BY <1>2, Kinds
<1>10. r \in AnswerOf
  <2>1. r.answer \in PriceSpan \cup {NoSpan}
    BY <1>7, <1>9
  <2> QED BY <1>3, <2>1 DEF AnswerOf
<1>11. IF r.answer = NoSpan THEN c = b \/ r.raced
       ELSE c < b /\ IsSummary(tape, c + 1, b, r.answer)
  <2>1. CASE Takes(take.closing)
    <3>1. r.answer = published.span /\ published # NoSpan /\ ~Opened
      BY <1>7, <2>1
    <3>2. c < b /\ IsSummary(tape, c + 1, b, published.span)
      BY <1>4, <1>5, <1>6, <3>1 DEF Closing
    <3>3. published.span # NoSpan
      BY <1>9, <3>1, NullAssumption
    <3> QED BY <3>1, <3>2, <3>3
  <2>2. CASE ~Takes(take.closing)
    <3>1. CASE published = NoSpan
      BY <1>4, <1>5, <1>6, <2>2, <3>1 DEF Closing
    <3>2. CASE Opened
      BY <1>3, <1>4, <1>5, <2>2, <3>2 DEF Closing
    <3> QED BY <1>7, <2>2, <3>1, <3>2
  <2> QED BY <2>1, <2>2
<1>12. r.done <= b /\ b <= r.begun /\ c <= b
  BY <1>4, <1>5 DEF Closing
<1> HIDE DEF r
<1>13. /\ takes' \in Seq(AnswerOf) /\ Len(takes') = m + 1
       /\ \A k \in 1..m : takes'[k] = takes[k]
       /\ takes'[m + 1] = r
  BY <1>01, <1>2, <1>3, <1>4, <1>10
<1>14. PICK cut2 : cut2 = [k \in 0..(m + 1) |-> IF k = m + 1 THEN b ELSE cut[k]]
  OBVIOUS
<1>15. /\ cut \in [0..m -> 0..n] /\ cut[0] = 0
       /\ \A k \in 1..m : /\ cut[k] \in takes[k].done..takes[k].begun
                          /\ cut[k - 1] <= cut[k]
  BY <1>00, <1>01, <1>1 DEF Cuts
<1>16. /\ cut2 \in [0..(m + 1) -> 0..n] /\ cut2[0] = 0
       /\ cut2[m + 1] = b /\ cut2[m] = c
       /\ \A k \in 0..m : cut2[k] = cut[k]
  <2>1. \A k \in 0..m : k \in 0..(m + 1) /\ k # m + 1
    BY <1>3
  <2>2. \A k \in 0..m : cut2[k] = cut[k]
    BY <1>14, <2>1
  <2>3. cut2[m + 1] = b
    BY <1>3, <1>14
  <2>4. 0 \in 0..m /\ m \in 0..m
    BY <1>3
  <2>5. \A k \in 0..(m + 1) : cut2[k] \in 0..n
    BY <1>0, <1>3, <1>14, <1>15
  <2>6. cut2 \in [0..(m + 1) -> 0..n]
    BY <1>14, <2>5
  <2>7. cut2[0] = 0 /\ cut2[m] = c
    BY <1>0, <1>01, <1>15, <2>2, <2>4
  <2> QED BY <2>2, <2>3, <2>6, <2>7
<1>17. \A k \in 1..(m + 1) : k = m + 1 \/ (k \in 1..m /\ k \in 0..m /\ k - 1 \in 0..m)
  BY <1>3
<1>18. (m + 1) - 1 = m
  BY <1>3
<1>19. cut2 \in Cuts'
  <2>1. \A k \in 1..(m + 1) : /\ cut2[k] \in takes'[k].done..takes'[k].begun
                              /\ cut2[k - 1] <= cut2[k]
    <3> SUFFICES ASSUME NEW k \in 1..(m + 1)
                 PROVE  /\ cut2[k] \in takes'[k].done..takes'[k].begun
                        /\ cut2[k - 1] <= cut2[k]
      OBVIOUS
    <3>1. CASE k = m + 1
      <4>1. r.done \in Nat /\ r.begun \in Nat
        BY <1>10 DEF AnswerOf
      <4> QED BY <1>3, <1>12, <1>13, <1>16, <1>18, <3>1, <4>1
    <3>2. CASE k # m + 1
      BY <1>13, <1>15, <1>16, <1>17, <3>2
    <3> QED BY <3>1, <3>2
  <2> QED BY <1>00, <1>4, <1>13, <1>16, <2>1 DEF Cuts
<1>20. Answered(cut2)'
  <2> SUFFICES ASSUME NEW k \in 1..(m + 1)
               PROVE  IF takes'[k].answer = NoSpan
                        THEN cut2[k - 1] = cut2[k] \/ takes'[k].raced
                        ELSE /\ cut2[k - 1] < cut2[k]
                             /\ IsSummary(tape, cut2[k - 1] + 1, cut2[k], takes'[k].answer)
    BY <1>4, <1>13 DEF Answered
  <2>1. CASE k = m + 1
    BY <1>11, <1>13, <1>16, <1>18, <2>1
  <2>2. CASE k # m + 1
    BY <1>01, <1>5, <1>13, <1>16, <1>17, <2>2 DEF Answered
  <2> QED BY <2>1, <2>2
<1>21. Closing(b, b)'
  <2>1. published' # NoSpan => Opened'
    BY <1>4, <1>7, <1>8
  <2> QED BY <1>3, <1>4, <2>1 DEF Closing
<1>22. Opens(b)'
  <2>1. Opened => published' = published
    BY <1>4, <1>7
  <2>2. published' # NoSpan => published' = published
    BY <1>4
  <2> QED BY <1>4, <1>5, <1>6, <1>8, <2>1, <2>2 DEF Opens
<1>23. Laid(cut2, b)'
  BY <1>6, <1>13, <1>16, <1>20, <1>21, <1>22 DEF Laid, Lags
<1>24. b \in 0..Len(tape')
  BY <1>4
<1> QED BY <1>2, <1>13, <1>19, <1>23, <1>24 DEF CInv

LEMMA NextCInv ==
  ASSUME CInv, [Next]_vars
  PROVE  CInv'
<1>1. ASSUME NEW px \in Price, RecordPrint(px) PROVE CInv'
  BY <1>1, PrintCInv
<1>2. CASE UNCHANGED vars
  <2>1. IInv' /\ takes' \in Seq(AnswerOf) /\ Cuts' = Cuts
    BY <1>2 DEF vars, CInv, IInv, Shared, Own, Cuts
  <2>2. PICK cut \in Cuts, b \in 0..Len(tape) : Laid(cut, b)
    BY DEF CInv
  <2>3. Laid(cut, b)'
    BY <1>2, <2>2 DEF vars, Laid, Answered, Closing, Opens, Lags, Late, Opened, Done,
                      SpanToPublish
  <2>4. b \in 0..Len(tape')
    BY <1>2 DEF vars
  <2> QED BY <2>1, <2>2, <2>3, <2>4 DEF CInv
<1> QED BY <1>1, <1>2, RecheckCInv, LockCInv, PublishCInv, BumpCInv, TakeCInv DEF Next

\* For any prices, prints and takes and any interleaving of the two threads:
\* every print the writer records is in the span of exactly one take, each
\* span is the exact summary of its run of prints, and a take misses prints
\* only when a print overtook it between its bump and its lock.
THEOREM SpansAlwaysCutTape == Spec => []SpansCutTape
<1>1. ASSUME CInv PROVE SpansCutTape
  <2>1. PICK cut \in Cuts, b \in 0..Len(tape) : Laid(cut, b)
    BY <1>1 DEF CInv
  <2>2. ASSUME NEW k \in 1..Len(takes), takes[k].answer # NoSpan
        PROVE  /\ cut[k - 1] < cut[k]
               /\ takes[k].answer = Summary(cut[k - 1] + 1, cut[k])
    <3>1. /\ cut[k - 1] < cut[k]
          /\ IsSummary(tape, cut[k - 1] + 1, cut[k], takes[k].answer)
      BY <2>1, <2>2 DEF Laid, Answered
    <3>2. takes \in Seq(AnswerOf) /\ Len(takes) \in Nat
      BY <1>1 DEF CInv
    <3>3. takes[k].answer \in PriceSpan
      <4>1. takes[k] \in AnswerOf
        BY <2>2, <3>2
      <4> QED BY <2>2, <4>1 DEF AnswerOf
    <3>4. k \in 0..Len(takes) /\ k - 1 \in 0..Len(takes)
      BY <3>2
    <3>5. /\ cut[k - 1] \in 0..Len(tape) /\ cut[k] \in 0..Len(tape)
          /\ tape \in Seq(Price) /\ Len(tape) \in Nat
      BY <1>1, <2>1, <3>2, <3>4, CutFacts, Kinds DEF CInv
    <3>6. cut[k - 1] + 1 \in Nat \ {0}
      BY <3>5
    <3> QED BY <3>1, <3>3, <3>5, <3>6, SummaryIs
  <2>3. \A k \in 1..Len(takes) :
          takes[k].answer = NoSpan => cut[k - 1] = cut[k] \/ takes[k].raced
    BY <2>1 DEF Laid, Answered
  <2> QED BY <2>1, <2>2, <2>3 DEF SpansCutTape
<1>2. CInv => SpansCutTape
  BY <1>1
<1> QED BY InitCInv, NextCInv, <1>2, PTL DEF Spec
----------------------------------------------------------------------------
(* Recursive functions over an interval, and the lots of a book.           *)

\* A set of numbers that is not empty has a least one.
LEMMA NatLeast ==
  ASSUME NEW T \in SUBSET Nat, T # {}
  PROVE  \E x \in T : \A y \in T : x <= y
<1> DEFINE R == {p \in Nat \X Nat : p[1] < p[2]}
<1>1. IsWellFoundedOn(R, Nat)
  BY NatLessThanWellFounded DEF OpToRel
<1>2. \A x, y \in Nat : y < x => <<y, x>> \in R
  OBVIOUS
<1> HIDE DEF R
<1>3. \E x \in T : \A y \in T : ~(<<y, x>> \in R)
  BY <1>1, WFMin
<1>4. PICK x \in T : \A y \in T : ~(<<y, x>> \in R)
  BY <1>3
<1>5. \A y \in T : ~(y < x)
  BY <1>2, <1>4
<1>6. \A y \in T : x <= y
  BY <1>5
<1> QED BY <1>6

\* Induction, over a set of numbers.
LEMMA NatSetInduction ==
  ASSUME NEW S, 0 \in S, \A n \in Nat : n \in S => n + 1 \in S
  PROVE  Nat \subseteq S
<1> SUFFICES ASSUME Nat \ S # {} PROVE FALSE
  OBVIOUS
<1>1. PICK x \in Nat \ S : \A y \in Nat \ S : x <= y
  BY NatLeast
<1>2. x # 0 /\ x - 1 \in Nat /\ x - 1 \in S
  BY <1>1
<1>3. (x - 1) + 1 \in S
  BY <1>2
<1> QED BY <1>1, <1>2, <1>3

\* What the steps of a finite recursion make, from a start and over a set they
\* do not leave.
Iterates(f, S, start, step, n) ==
  /\ f \in [0..n -> S] /\ f[0] = start
  /\ \A k \in 1..n : f[k] = step[k][f[k - 1]]

\* Whatever a finite run of steps does to a set's members, some function takes
\* them one after another: what a recursive function over 0..N needs to exist.
LEMMA IteratesExist ==
  ASSUME NEW S, NEW start \in S, NEW N \in Nat, NEW step \in [1..N -> [S -> S]]
  PROVE  \E f : Iterates(f, S, start, step, N)
<1> DEFINE T == {n \in Nat : n <= N => \E f : Iterates(f, S, start, step, n)}
<1>1. 0 \in T
  <2> DEFINE f == [k \in 0..0 |-> start]
  <2>1. f \in [0..0 -> S] /\ f[0] = start
    OBVIOUS
  <2>2. 1..0 = {}
    OBVIOUS
  <2> HIDE DEF f
  <2>3. Iterates(f, S, start, step, 0)
    BY <2>1, <2>2 DEF Iterates
  <2> QED BY <2>3
<1>2. ASSUME NEW n \in Nat, n \in T
      PROVE  n + 1 \in T
  <2> SUFFICES ASSUME n + 1 <= N
               PROVE  \E f : Iterates(f, S, start, step, n + 1)
    OBVIOUS
  <2>1. PICK f : Iterates(f, S, start, step, n)
    BY <1>2
  <2> DEFINE g == [k \in 0..(n + 1) |-> IF k = n + 1 THEN step[n + 1][f[n]] ELSE f[k]]
  <2>2. f \in [0..n -> S] /\ f[0] = start /\ \A k \in 1..n : f[k] = step[k][f[k - 1]]
    BY <2>1 DEF Iterates
  <2>3. step[n + 1] \in [S -> S] /\ f[n] \in S
    BY <2>2
  <2>4. step[n + 1][f[n]] \in S
    BY <2>3
  <2>5. g \in [0..(n + 1) -> S]
    BY <2>2, <2>4
  <2>6. /\ g[n + 1] = step[n + 1][f[n]]
        /\ \A k \in 0..n : g[k] = f[k]
    OBVIOUS
  <2> HIDE DEF g
  <2>7. ASSUME NEW k \in 1..(n + 1)
        PROVE  g[k] = step[k][g[k - 1]]
    <3>1. CASE k = n + 1
      BY <2>6, <3>1
    <3>2. CASE k \in 1..n
      <4>1. k - 1 \in 0..n /\ k \in 0..n
        BY <3>2
      <4> QED BY <2>2, <2>6, <3>2, <4>1
    <3> QED BY <3>1, <3>2
  <2>8. g[0] = start
    BY <2>2, <2>6
  <2>9. Iterates(g, S, start, step, n + 1)
    BY <2>5, <2>7, <2>8 DEF Iterates
  <2> QED BY <2>9
<1> HIDE DEF T
<1>3. Nat \subseteq T
  BY <1>1, <1>2, NatSetInduction
<1> QED BY <1>3 DEF T

\* Lots: what a side of the book can still execute.
LEMMA LotsOfOne ==
  ASSUME NEW id, NEW q \in Nat
  PROVE  IsFiniteSet({id} \X (1..q)) /\ Cardinality({id} \X (1..q)) = q
<1>1. IsFiniteSet({id}) /\ Cardinality({id}) = 1
  BY FS_Singleton
<1>2. IsFiniteSet(1..q) /\ Cardinality(1..q) = q
  BY FS_Interval
<1>3. /\ IsFiniteSet({id} \X (1..q))
      /\ Cardinality({id} \X (1..q)) = Cardinality({id}) * Cardinality(1..q)
  BY <1>1, <1>2, FS_Product
<1> QED BY <1>1, <1>2, <1>3

Worked(b) == b.working \in [DOMAIN b.working -> OrderAsked]

\* What an order adds to a side.
Share(o, side) == IF o.side = side /\ ~o.reduceOnly THEN o.qty ELSE 0

\* A side's lots are those of the book without an order and that order's own.
LEMMA LotsWithout ==
  ASSUME NEW b, Worked(b), NEW c, NEW id \in DOMAIN b.working, NEW side,
         c.working = Restrict(b.working, DOMAIN b.working \ {id}),
         IsFiniteSet(Lots(c, side))
  PROVE  /\ IsFiniteSet(Lots(b, side)) /\ Leaves(c, side) \in Nat
         /\ Leaves(b, side) = Leaves(c, side) + Share(b.working[id], side)
<1> DEFINE o == b.working[id]
           one == {id} \X (1..o.qty)
<1>1. o \in OrderAsked /\ o.qty \in Nat
  BY DEF Worked, OrderAsked
<1>2. /\ DOMAIN c.working = DOMAIN b.working \ {id}
      /\ \A i \in DOMAIN c.working : c.working[i] = b.working[i]
  BY DEF Restrict
<1>3. Adding(c, side) = Adding(b, side) \ {id}
  BY <1>2 DEF Adding
<1>4. \A i \in Adding(c, side) : c.working[i] = b.working[i] /\ i # id
  BY <1>2 DEF Adding
<1>5. IsFiniteSet(one) /\ Cardinality(one) = o.qty
  BY <1>1, LotsOfOne
<1>6. Cardinality(Lots(c, side)) \in Nat
  BY FS_CardinalityType
<1>7. CASE id \in Adding(b, side)
  <2>1. Lots(b, side) = Lots(c, side) \cup one
    BY <1>3, <1>4, <1>7 DEF Lots
  <2>2. Lots(c, side) \cap one = {}
    BY <1>4 DEF Lots
  <2>3. Cardinality({}) = 0
    BY FS_EmptySet
  <2>4. /\ IsFiniteSet(Lots(b, side))
        /\ Cardinality(Lots(b, side)) = Cardinality(Lots(c, side)) + o.qty
    <3>1. /\ IsFiniteSet(Lots(c, side) \cup one)
          /\ Cardinality(Lots(c, side) \cup one)
               = Cardinality(Lots(c, side)) + Cardinality(one) - Cardinality(Lots(c, side) \cap one)
      BY <1>5, FS_Union
    <3>2. Cardinality(Lots(c, side) \cap one) = 0
      BY <2>2, <2>3
    <3>3. Cardinality(Lots(c, side) \cup one) = Cardinality(Lots(c, side)) + o.qty
      BY <1>1, <1>5, <1>6, <3>1, <3>2
    <3> QED BY <2>1, <3>1, <3>3
  <2>5. Share(o, side) = o.qty
    BY <1>7 DEF Share, Adding
  <2> QED BY <1>6, <2>4, <2>5 DEF Leaves
<1>8. CASE id \notin Adding(b, side)
  <2>1. Lots(b, side) = Lots(c, side)
    BY <1>3, <1>4, <1>8 DEF Lots
  <2>2. Share(o, side) = 0
    BY <1>8 DEF Share, Adding
  <2> QED BY <1>6, <2>1, <2>2 DEF Leaves
<1> QED BY <1>7, <1>8

\* Conversely a book with fewer orders has finitely many lots if it had.
LEMMA LotsShrink ==
  ASSUME NEW b, NEW c, NEW side, DOMAIN c.working \subseteq DOMAIN b.working,
         \A id \in DOMAIN c.working : c.working[id] = b.working[id],
         IsFiniteSet(Lots(b, side))
  PROVE  IsFiniteSet(Lots(c, side))
<1>1. Lots(c, side) \subseteq Lots(b, side)
  BY DEF Lots, Adding
<1> QED BY <1>1, FS_Subset

----------------------------------------------------------------------------
(* One reading of the ledger, and a run of them.                           *)

\* The ledger and its readings.

Reading == [equity : Int, day : Nat]
Verdict == [ledger : Ledger, fired : BOOLEAN]

\* A rule fires at this equity.
Fires(p, r, equity) == ~r.terminated /\ ~r.locked /\ Fired(p, r, equity) # {}

\* The floors an equity is read against do not move with it.
FixedFloors(p) == ~(Enforced(p.trailing) /\ p.basis = "peak")

\* A reading leaves a ledger, and says whether it fired.
LEMMA ObserveTyped ==
  ASSUME NEW p \in Policy, NEW r \in Ledger, NEW e \in Int, NEW d \in Nat
  PROVE  Observe(p, r, e, d) \in Verdict
<1> DEFINE c == DayCrossed(p, r, e, d)
           s == Ratcheted(p, c, e)
<1>1. c \in Ledger
  BY DEF DayCrossed, Ledger, Larger
<1>2. s \in Ledger
  <2> HIDE DEF c
  <2> QED BY <1>1 DEF Ratcheted, Ledger, Larger
<1> DEFINE f == Fired(p, s, e)
<1>3. Observe(p, r, e, d)
        = IF r.terminated THEN [ledger |-> r, fired |-> FALSE]
          ELSE IF s.locked \/ f = {} THEN [ledger |-> s, fired |-> FALSE]
          ELSE [ledger |-> [s EXCEPT !.locked = TRUE, !.terminated = "terminate" \in f],
                fired |-> TRUE]
  BY DEF Observe
<1> HIDE DEF c, s, f
<1>4. ("terminate" \in f) \in BOOLEAN
  OBVIOUS
<1>5. [s EXCEPT !.locked = TRUE, !.terminated = "terminate" \in f] \in Ledger
  BY <1>2, <1>4, Zenon DEF Ledger
<1> QED BY <1>2, <1>3, <1>5 DEF Verdict

\* A reading of the ledger's own day, under floors that stand, moves nothing
\* unless it fires.
LEMMA ObserveStands ==
  ASSUME NEW p \in Policy, FixedFloors(p), NEW r \in Ledger, NEW e \in Int
  PROVE  /\ Observe(p, r, e, r.day).fired <=> Fires(p, r, e)
         /\ ~Fires(p, r, e) => Observe(p, r, e, r.day) = [ledger |-> r, fired |-> FALSE]
<1>1. Ratcheted(p, DayCrossed(p, r, e, r.day), e) = r
  BY DEF Ratcheted, DayCrossed, FixedFloors
<1> DEFINE f == Fired(p, r, e)
<1>2. Observe(p, r, e, r.day)
        = IF r.terminated THEN [ledger |-> r, fired |-> FALSE]
          ELSE IF r.locked \/ f = {} THEN [ledger |-> r, fired |-> FALSE]
          ELSE [ledger |-> [r EXCEPT !.locked = TRUE, !.terminated = "terminate" \in f],
                fired |-> TRUE]
  BY <1>1 DEF Observe
<1> HIDE DEF f
<1>3. r.terminated \in BOOLEAN /\ r.locked \in BOOLEAN
  BY DEF Ledger
<1>4. Fires(p, r, e) <=> ~r.terminated /\ ~r.locked /\ f # {}
  BY DEF Fires, f
<1> QED BY <1>2, <1>3, <1>4

\* A lower equity is below every floor a higher one is below.
LEMMA FiresBelow ==
  ASSUME NEW p \in Policy, NEW r \in Ledger, NEW e \in Int, NEW d \in Int, d <= e,
         Fires(p, r, e)
  PROVE  Fires(p, r, d)
<1> DEFINE Floors == {<<p.trailing, TrailingFloor(p, r)>>,
                      <<p.daily, r.dayOpen - p.daily.amount>>,
                      <<p.overall, r.opening - p.overall.amount>>}
           Under(x) == {floor \in Floors : Enforced(floor[1]) /\ x < floor[2]}
<1>1. \A x : Fired(p, r, x) = {floor[1].action : floor \in Under(x)}
  BY DEF Fired
<1>2. \A floor \in Floors : floor[2] \in Int
  BY DEF Policy, Rule, Ledger, TrailingFloor
<1> HIDE DEF Floors
<1>3. Under(e) \subseteq Under(d)
  BY <1>2
<1>4. Fired(p, r, e) \subseteq Fired(p, r, d)
  BY <1>1, <1>3
<1> QED BY <1>4 DEF Fires

\* A policy without rules has no floor to be under.
LEMMA UnpolicedNeverFires ==
  ASSUME NEW p \in Policy, NEW r, NEW e, Unpoliced(p)
  PROVE  ~Fires(p, r, e)
<1>1. ~Enforced(p.trailing) /\ ~Enforced(p.daily) /\ ~Enforced(p.overall)
  BY DEF Unpoliced
<1>2. Fired(p, r, e) = {}
  BY <1>1 DEF Fired
<1> QED BY <1>2 DEF Fires

\* The judgements of a run of readings, one by one.
LEMMA JudgementsStep ==
  ASSUME NEW p \in Policy, NEW r \in Ledger, NEW readings \in Seq(Reading)
  PROVE  LET J == Judgements(p, r, readings)
         IN  /\ J \in [0..Len(readings) -> Verdict]
             /\ J[0] = [ledger |-> r, fired |-> FALSE]
             /\ \A n \in 1..Len(readings) :
                   J[n] = IF J[n - 1].fired THEN J[n - 1]
                          ELSE Observe(p, J[n - 1].ledger, readings[n].equity, readings[n].day)
<1> DEFINE N == Len(readings)
           start == [ledger |-> r, fired |-> FALSE]
           After(v, n) == IF v.fired THEN v
                          ELSE Observe(p, v.ledger, readings[n].equity, readings[n].day)
           step == [n \in 1..N |-> [v \in Verdict |-> After(v, n)]]
           Follows(so) == so = [n \in 0..N |-> IF n = 0 THEN start
                                               ELSE IF so[n - 1].fired THEN so[n - 1]
                                               ELSE Observe(p, so[n - 1].ledger,
                                                  readings[n].equity, readings[n].day)]
           J == Judgements(p, r, readings)
<1>1. N \in Nat /\ start \in Verdict
  BY DEF Verdict
<1>2. \A n \in 1..N, v \in Verdict : After(v, n) \in Verdict
  <2> SUFFICES ASSUME NEW n \in 1..N, NEW v \in Verdict PROVE After(v, n) \in Verdict
    OBVIOUS
  <2>1. readings[n] \in Reading
    OBVIOUS
  <2>2. v.ledger \in Ledger /\ readings[n].equity \in Int /\ readings[n].day \in Nat
    BY <2>1 DEF Verdict, Reading
  <2>3. Observe(p, v.ledger, readings[n].equity, readings[n].day) \in Verdict
    BY <2>2, ObserveTyped
  <2> QED BY <2>3
<1>3. J = CHOOSE so : Follows(so)
  BY DEF Judgements
<1> HIDE DEF J, After, start
<1>4. step \in [1..N -> [Verdict -> Verdict]]
  BY <1>2
<1>5. PICK f : Iterates(f, Verdict, start, step, N)
  BY <1>1, <1>4, IteratesExist
<1>6. /\ f \in [0..N -> Verdict] /\ f[0] = start
      /\ \A n \in 1..N : f[n] = After(f[n - 1], n)
  <2>1. /\ f \in [0..N -> Verdict] /\ f[0] = start
        /\ \A n \in 1..N : f[n] = step[n][f[n - 1]]
    BY <1>5 DEF Iterates
  <2>2. ASSUME NEW n \in 1..N PROVE step[n][f[n - 1]] = After(f[n - 1], n)
    <3>1. f[n - 1] \in Verdict
      BY <1>1, <2>1
    <3> QED BY <3>1
  <2> QED BY <2>1, <2>2
<1>7. \A n \in 0..N : f[n] = IF n = 0 THEN start ELSE After(f[n - 1], n)
  BY <1>1, <1>6
<1>8. Follows(f)
  BY <1>6, <1>7 DEF After
<1>9. Follows(J)
  BY <1>3, <1>8
<1>10. /\ J = [n \in 0..N |-> J[n]] /\ J[0] = start
       /\ \A n \in 1..N : J[n] = After(J[n - 1], n)
  <2>1. 0 \in 0..N /\ \A n \in 1..N : n \in 0..N /\ n # 0
    BY <1>1
  <2> QED BY <1>9, <2>1 DEF After
<1>11. \A n \in 0..N : J[n] \in Verdict
  <2> DEFINE T == {n \in Nat : n <= N => J[n] \in Verdict}
  <2>1. 0 \in T
    BY <1>1, <1>10
  <2>2. ASSUME NEW n \in Nat, n \in T PROVE n + 1 \in T
    <3> SUFFICES ASSUME n + 1 <= N PROVE J[n + 1] \in Verdict
      OBVIOUS
    <3>1. n + 1 \in 1..N /\ J[n] \in Verdict /\ (n + 1) - 1 = n
      BY <1>1, <2>2
    <3> QED BY <1>2, <1>10, <3>1
  <2> HIDE DEF T
  <2>3. Nat \subseteq T
    BY <2>1, <2>2, NatSetInduction
  <2> QED BY <1>1, <2>3 DEF T
<1>12. J \in [0..N -> Verdict]
  BY <1>10, <1>11
<1> QED BY <1>10, <1>12 DEF After, start, J

\* Readings of the ledger's own day, under floors that stand: the replay fires
\* if one of them does, and else leaves the ledger as it was.
LEMMA ReplayStands ==
  ASSUME NEW p \in Policy, FixedFloors(p), NEW r \in Ledger, NEW readings \in Seq(Reading),
         \A n \in 1..Len(readings) : readings[n].day = r.day
  PROVE  LET so == Replay(p, r, readings)
         IN  /\ so.fired <=> \E n \in 1..Len(readings) : Fires(p, r, readings[n].equity)
             /\ ~so.fired => so.ledger = r
             /\ so \in Verdict
<1> DEFINE N == Len(readings)
           J == Judgements(p, r, readings)
           Sooner(k) == \E n \in 1..k : Fires(p, r, readings[n].equity)
           T == {k \in Nat : k <= N => /\ J[k].fired <=> Sooner(k)
                                       /\ ~J[k].fired => J[k].ledger = r}
<1>1. /\ J \in [0..N -> Verdict] /\ J[0] = [ledger |-> r, fired |-> FALSE]
      /\ \A n \in 1..N : J[n] = IF J[n - 1].fired THEN J[n - 1]
                                ELSE Observe(p, J[n - 1].ledger, readings[n].equity, readings[n].day)
  BY JudgementsStep
<1> HIDE DEF J
<1>2. N \in Nat
  OBVIOUS
<1>3. 0 \in T
  BY <1>1
<1>4. ASSUME NEW k \in Nat, k \in T PROVE k + 1 \in T
  <2> SUFFICES ASSUME k + 1 <= N
               PROVE  /\ J[k + 1].fired <=> Sooner(k + 1)
                      /\ ~J[k + 1].fired => J[k + 1].ledger = r
    OBVIOUS
  <2>1. k + 1 \in 1..N /\ (k + 1) - 1 = k /\ k \in 0..N
    BY <1>2
  <2>2. (J[k].fired <=> Sooner(k)) /\ (~J[k].fired => J[k].ledger = r) /\ J[k] \in Verdict
    BY <1>1, <1>4, <2>1
  <2>3. readings[k + 1].equity \in Int /\ readings[k + 1].day = r.day
    <3>1. readings[k + 1] \in Reading
      BY <2>1
    <3> QED BY <2>1, <3>1 DEF Reading
  <2>4. Sooner(k + 1) <=> Sooner(k) \/ Fires(p, r, readings[k + 1].equity)
    BY <2>1
  <2> HIDE DEF Sooner
  <2>5. CASE J[k].fired
    BY <1>1, <2>1, <2>2, <2>4, <2>5
  <2>6. CASE ~J[k].fired
    <3>1. J[k + 1] = Observe(p, r, readings[k + 1].equity, r.day)
      BY <1>1, <2>1, <2>2, <2>3, <2>6
    <3>2. /\ J[k + 1].fired <=> Fires(p, r, readings[k + 1].equity)
          /\ ~Fires(p, r, readings[k + 1].equity) => J[k + 1].ledger = r
      <4>1. /\ Observe(p, r, readings[k + 1].equity, r.day).fired
               <=> Fires(p, r, readings[k + 1].equity)
            /\ ~Fires(p, r, readings[k + 1].equity)
               => Observe(p, r, readings[k + 1].equity, r.day) = [ledger |-> r, fired |-> FALSE]
        BY <2>3, ObserveStands
      <4> QED BY <3>1, <4>1
    <3> QED BY <2>2, <2>4, <2>6, <3>2
  <2> QED BY <2>2, <2>5, <2>6 DEF Verdict
<1> HIDE DEF T
<1>5. Nat \subseteq T
  BY <1>3, <1>4, NatSetInduction
<1>6. /\ J[N].fired <=> Sooner(N)
      /\ ~J[N].fired => J[N].ledger = r
      /\ J[N] \in Verdict
  BY <1>1, <1>2, <1>5 DEF T
<1> QED BY <1>6 DEF Replay, J

----------------------------------------------------------------------------
(* The book, and the fills of a pass.                                      *)

Books == [pos : Int, cash : Int, mark : Nat,
          working : UNION {[ids -> OrderAsked] : ids \in SUBSET Order}]

\* The books are one set, which a recursive function over them needs.
LEMMA IsBookIs == \A b : IsBook(b) <=> b \in Books
<1> SUFFICES ASSUME NEW b PROVE IsBook(b) <=> b \in Books
  OBVIOUS
<1>1. ASSUME IsBook(b) PROVE b \in Books
  <2>1. b.working \in UNION {[ids -> OrderAsked] : ids \in SUBSET Order}
    BY <1>1 DEF IsBook
  <2> QED BY <1>1, <2>1 DEF IsBook, Books
<1>2. ASSUME b \in Books PROVE IsBook(b)
  <2>1. PICK ids \in SUBSET Order : b.working \in [ids -> OrderAsked]
    BY <1>2 DEF Books
  <2>2. DOMAIN b.working = ids
    BY <2>1
  <2> QED BY <1>2, <2>1, <2>2 DEF IsBook, Books
<1> QED BY <1>1, <1>2

\* An order fills for no more than it asks, and whole unless it may only
\* reduce.
LEMMA FillQtyNat ==
  ASSUME NEW pos \in Int, NEW o \in OrderAsked
  PROVE  /\ FillQty(pos, o) \in Nat /\ FillQty(pos, o) <= o.qty
         /\ ~o.reduceOnly => FillQty(pos, o) = o.qty
BY DEF FillQty, OrderAsked, Smaller, Size

\* A fill moves the position by no more than the order, and the cash.
LEMMA FilledBook ==
  ASSUME NEW b, IsBook(b), NEW o \in OrderAsked, NEW px \in Nat
  PROVE  /\ IsBook(Filled(b, o, px))
         /\ Filled(b, o, px).working = b.working
         /\ Filled(b, o, px).mark = b.mark
         /\ ~o.reduceOnly => Filled(b, o, px).pos = b.pos + o.side * o.qty
<1> DEFINE qty == FillQty(b.pos, o)
           f == Filled(b, o, px)
<1>1. b.pos \in Int /\ b.cash \in Int /\ b.mark \in Nat
  BY DEF IsBook
<1>2. qty \in Nat /\ (~o.reduceOnly => qty = o.qty)
  BY <1>1, FillQtyNat
<1>3. f = [b EXCEPT !.pos = @ + o.side * qty, !.cash = @ - o.side * qty * px]
  BY DEF Filled
<1> HIDE DEF qty, f
<1>4. o.side * qty \in Int
  BY <1>2 DEF OrderAsked
<1>5. o.side * qty * px \in Int
  BY <1>4
<1>6. b.pos + o.side * qty \in Int /\ b.cash - o.side * qty * px \in Int
  BY <1>1, <1>4, <1>5
<1>7. /\ f \in [pos : Int, cash : Int, mark : Nat, working : {b.working}]
      /\ f.pos = b.pos + o.side * qty /\ f.mark = b.mark /\ f.working = b.working
  BY <1>3, <1>6 DEF IsBook
<1>8. IsBook(f)
  BY <1>7 DEF IsBook
<1> QED BY <1>2, <1>7, <1>8 DEF f

\* A book keeps everything else of an order it loses.
LEMMA WithoutBook ==
  ASSUME NEW b, IsBook(b), NEW id
  PROVE  /\ IsBook(Without(b, id))
         /\ Without(b, id).working = Restrict(b.working, DOMAIN b.working \ {id})
         /\ Without(b, id).pos = b.pos /\ Without(b, id).mark = b.mark
         /\ DOMAIN Without(b, id).working = DOMAIN b.working \ {id}
         /\ \A i \in DOMAIN b.working \ {id} : Without(b, id).working[i] = b.working[i]
<1> DEFINE w == Restrict(b.working, DOMAIN b.working \ {id})
           c == Without(b, id)
<1>1. c = [b EXCEPT !.working = w]
  BY DEF Without
<1>2. /\ w \in [DOMAIN b.working \ {id} -> OrderAsked]
      /\ \A i \in DOMAIN b.working \ {id} : w[i] = b.working[i]
  BY DEF Restrict, IsBook
<1> HIDE DEF w, c
<1>3. /\ c \in [pos : Int, cash : Int, mark : Nat, working : {w}]
      /\ c.working = w /\ c.pos = b.pos /\ c.mark = b.mark
  BY <1>1 DEF IsBook
<1>4. IsBook(c)
  BY <1>2, <1>3 DEF IsBook
<1> QED BY <1>2, <1>3, <1>4 DEF c, w

\* One fill of a pass.
FilledOut(b, id, px) == Without(Filled(b, b.working[id], px), id)

\* c is b after its order id has filled and left.
Leaving(b, id, c) ==
  /\ IsBook(c) /\ c.mark = b.mark
  /\ c.working = Restrict(b.working, DOMAIN b.working \ {id})
  /\ DOMAIN c.working = DOMAIN b.working \ {id}
  /\ \A i \in DOMAIN b.working \ {id} : c.working[i] = b.working[i]
  /\ ~b.working[id].reduceOnly => c.pos = b.pos + b.working[id].side * b.working[id].qty

\* A fill of a pass is a fill and a loss.
LEMMA FilledOutBook ==
  ASSUME NEW b, IsBook(b), NEW id \in DOMAIN b.working, NEW px \in Nat
  PROVE  Leaving(b, id, FilledOut(b, id, px))
<1> DEFINE f == Filled(b, b.working[id], px)
<1>1. b.working[id] \in OrderAsked
  BY DEF IsBook
<1>2. /\ IsBook(f) /\ f.working = b.working /\ f.mark = b.mark
      /\ ~b.working[id].reduceOnly => f.pos = b.pos + b.working[id].side * b.working[id].qty
  BY <1>1, FilledBook
<1>3. FilledOut(b, id, px) = Without(f, id)
  BY DEF FilledOut
<1> HIDE DEF f
<1>4. /\ IsBook(Without(f, id))
      /\ Without(f, id).working = Restrict(f.working, DOMAIN f.working \ {id})
      /\ Without(f, id).pos = f.pos /\ Without(f, id).mark = f.mark
      /\ DOMAIN Without(f, id).working = DOMAIN f.working \ {id}
      /\ \A i \in DOMAIN f.working \ {id} : Without(f, id).working[i] = f.working[i]
  BY <1>2, WithoutBook
<1> QED BY <1>2, <1>3, <1>4 DEF Leaving

\* The fills of a pass, one by one: each finds its order on the book.
OneByOne(F, b, ids, px, N) ==
  /\ F[0] = b
  /\ \A n \in 0..N : /\ IsBook(F[n]) /\ F[n].mark = b.mark
                     /\ DOMAIN F[n].working = DOMAIN b.working \ {ids[k] : k \in 1..n}
                     /\ \A i \in DOMAIN F[n].working : F[n].working[i] = b.working[i]
  /\ \A n \in 1..N : /\ ids[n] \in DOMAIN F[n - 1].working
                     /\ F[n] = FilledOut(F[n - 1], ids[n], px)

\* The fills of a pass are what its recursion says, and each finds its order
\* on the book the ones before it left.
LEMMA FillsStep ==
  ASSUME NEW b, IsBook(b), NEW N \in Nat, NEW ids \in Injection(1..N, DOMAIN b.working),
         NEW px \in Nat
  PROVE  Len(ids) = N /\ OneByOne(Fills(b, ids, px), b, ids, px, N)
<1> DEFINE step == [n \in 1..N |-> [c \in Books |->
                      IF ids[n] \in DOMAIN c.working THEN FilledOut(c, ids[n], px) ELSE c]]
           Follows(so) == so = [n \in 0..N |->
                            IF n = 0 THEN b
                            ELSE Without(Filled(so[n - 1], so[n - 1].working[ids[n]], px), ids[n])]
           F == Fills(b, ids, px)
<1>1. /\ ids \in [1..N -> DOMAIN b.working]
      /\ \A j, k \in 1..N : ids[j] = ids[k] => j = k
  BY DEF Injection, IsInjective
<1>2. Len(ids) = N
  BY <1>1
<1>3. b \in Books
  BY IsBookIs
<1>4. step \in [1..N -> [Books -> Books]]
  <2>1. ASSUME NEW n \in 1..N, NEW c \in Books, ids[n] \in DOMAIN c.working
        PROVE  FilledOut(c, ids[n], px) \in Books
    BY <2>1, IsBookIs, FilledOutBook DEF Leaving
  <2> QED BY <2>1
<1>5. PICK f : Iterates(f, Books, b, step, N)
  BY <1>3, <1>4, IteratesExist
<1>6. /\ f \in [0..N -> Books] /\ f[0] = b
      /\ \A n \in 1..N : f[n] = step[n][f[n - 1]]
  BY <1>5 DEF Iterates
<1>7. \A n \in 1..N, c \in Books : ids[n] \in DOMAIN c.working =>
         step[n][c] = FilledOut(c, ids[n], px)
  OBVIOUS
<1> HIDE DEF step
<1> DEFINE Right(n) == /\ IsBook(f[n]) /\ f[n].mark = b.mark
                       /\ DOMAIN f[n].working = DOMAIN b.working \ {ids[k] : k \in 1..n}
                       /\ \A i \in DOMAIN f[n].working : f[n].working[i] = b.working[i]
           T == {n \in Nat : n <= N => Right(n)}
<1>8. ASSUME NEW n \in 1..N, Right(n - 1)
      PROVE  /\ ids[n] \in DOMAIN f[n - 1].working
             /\ f[n] = FilledOut(f[n - 1], ids[n], px)
             /\ Right(n)
  <2>1. n - 1 \in 0..N /\ 1..n = 1..(n - 1) \cup {n} /\ n \notin 1..(n - 1)
    OBVIOUS
  <2>2. ids[n] \in DOMAIN b.working /\ \A k \in 1..(n - 1) : k \in 1..N /\ ids[k] # ids[n]
    <3>1. \A k \in 1..(n - 1) : k \in 1..N /\ k # n
      OBVIOUS
    <3> QED BY <1>1, <3>1
  <2>3. ids[n] \in DOMAIN f[n - 1].working
    BY <1>8, <2>2
  <2>4. f[n] = FilledOut(f[n - 1], ids[n], px)
    BY <1>6, <1>7, <2>1, <2>3
  <2>5. IsBook(f[n - 1])
    BY <1>8
  <2> DEFINE c == f[n - 1]
             d == FilledOut(c, ids[n], px)
  <2>6. Leaving(c, ids[n], d)
    BY <2>3, <2>5, FilledOutBook
  <2>10. /\ IsBook(d) /\ d.mark = c.mark
        /\ DOMAIN d.working = DOMAIN c.working \ {ids[n]}
        /\ \A i \in DOMAIN c.working \ {ids[n]} : d.working[i] = c.working[i]
    BY <2>6 DEF Leaving
  <2> HIDE DEF d
  <2>7. {ids[k] : k \in 1..n} = {ids[k] : k \in 1..(n - 1)} \cup {ids[n]}
    BY <2>1
  <2>8. DOMAIN f[n].working = DOMAIN b.working \ {ids[k] : k \in 1..n}
    BY <1>8, <2>4, <2>10, <2>7 DEF d
  <2>9. \A i \in DOMAIN f[n].working : f[n].working[i] = b.working[i]
    BY <1>8, <2>4, <2>10 DEF d
  <2>11. IsBook(f[n]) /\ f[n].mark = b.mark
    BY <1>8, <2>4, <2>10 DEF d
  <2> QED BY <2>3, <2>4, <2>8, <2>9, <2>11
<1>9. 0 \in T
  <2>1. {ids[k] : k \in 1..0} = {}
    OBVIOUS
  <2> QED BY <1>6, <2>1
<1>10. ASSUME NEW n \in Nat, n \in T PROVE n + 1 \in T
  <2> HIDE DEF Right
  <2> SUFFICES ASSUME n + 1 <= N PROVE Right(n + 1)
    OBVIOUS
  <2>1. n + 1 \in 1..N /\ (n + 1) - 1 = n
    OBVIOUS
  <2>2. Right((n + 1) - 1)
    BY <1>10, <2>1
  <2> QED BY <1>8, <2>1, <2>2
<1> HIDE DEF T
<1>11. Nat \subseteq T
  BY <1>9, <1>10, NatSetInduction
<1>12. \A n \in 0..N : Right(n)
  BY <1>11 DEF T
<1>13. \A n \in 1..N : /\ ids[n] \in DOMAIN f[n - 1].working
                       /\ f[n] = FilledOut(f[n - 1], ids[n], px)
  <2> HIDE DEF Right
  <2>1. \A n \in 1..N : n - 1 \in 0..N
    OBVIOUS
  <2> QED BY <1>8, <1>12, <2>1
<1>14. Follows(f)
  <2>1. f = [n \in 0..N |-> f[n]]
    BY <1>6
  <2>2. \A n \in 0..N : f[n] = IF n = 0 THEN b ELSE FilledOut(f[n - 1], ids[n], px)
    <3>1. \A n \in 0..N : n # 0 => n \in 1..N
      OBVIOUS
    <3> QED BY <1>6, <1>13, <3>1
  <2>3. \A n \in 0..N : f[n] = IF n = 0 THEN b
            ELSE Without(Filled(f[n - 1], f[n - 1].working[ids[n]], px), ids[n])
    BY <2>2 DEF FilledOut
  <2> QED BY <2>1, <2>3, Zenon
<1>15. F = CHOOSE so : Follows(so)
  BY <1>2 DEF Fills
<1> HIDE DEF F
<1>16. Follows(F)
  BY <1>14, <1>15
<1>17. \A n \in 0..N : F[n] = f[n]
  <2> DEFINE U == {n \in Nat : n <= N => F[n] = f[n]}
  <2>1. /\ F[0] = b
        /\ \A n \in 1..N : F[n] = FilledOut(F[n - 1], ids[n], px)
    <3>1. 0 \in 0..N /\ \A n \in 1..N : n \in 0..N /\ n # 0
      OBVIOUS
    <3> QED BY <1>16, <3>1 DEF FilledOut
  <2>2. 0 \in U
    BY <1>6, <2>1
  <2>3. ASSUME NEW n \in Nat, n \in U PROVE n + 1 \in U
    <3> SUFFICES ASSUME n + 1 <= N PROVE F[n + 1] = f[n + 1]
      OBVIOUS
    <3>1. n + 1 \in 1..N /\ (n + 1) - 1 = n /\ F[n] = f[n]
      BY <2>3
    <3> QED BY <1>13, <2>1, <3>1
  <2> HIDE DEF U
  <2>4. Nat \subseteq U
    BY <2>2, <2>3, NatSetInduction
  <2> QED BY <2>4 DEF U
<1>18. \A n \in 0..N : /\ IsBook(F[n]) /\ F[n].mark = b.mark
                       /\ DOMAIN F[n].working = DOMAIN b.working \ {ids[k] : k \in 1..n}
                       /\ \A i \in DOMAIN F[n].working : F[n].working[i] = b.working[i]
  BY <1>12, <1>17
<1>19. \A n \in 1..N : /\ ids[n] \in DOMAIN F[n - 1].working
                       /\ F[n] = FilledOut(F[n - 1], ids[n], px)
  <2>1. \A n \in 1..N : n \in 0..N /\ n - 1 \in 0..N
    OBVIOUS
  <2> QED BY <1>13, <1>17, <2>1
<1>20. F[0] = b
  BY <1>6, <1>17
<1> QED BY <1>2, <1>18, <1>19, <1>20 DEF F, OneByOne

\* c has no orders but those of b.
Thinned(b, c) ==
  /\ IsBook(c) /\ DOMAIN c.working \subseteq DOMAIN b.working
  /\ \A i \in DOMAIN c.working : c.working[i] = b.working[i]

\* A swept book is the old one without some of its orders.
LEMMA SweptBook ==
  ASSUME NEW b, IsBook(b), NEW N \in Nat, NEW ids \in Injection(1..N, DOMAIN b.working),
         NEW px \in Nat
  PROVE  Thinned(b, Swept(b, ids, px))
<1> DEFINE F == Fills(b, ids, px)
<1>1. Len(ids) = N /\ OneByOne(F, b, ids, px, N)
  BY FillsStep
<1>2. N \in 0..N
  OBVIOUS
<1>3. Swept(b, ids, px) = F[N]
  BY <1>1 DEF Swept
<1> HIDE DEF F
<1> QED BY <1>1, <1>2, <1>3 DEF OneByOne, Thinned

----------------------------------------------------------------------------
(* The extremes of a path, and equity at its places.                       *)

\* The extremes of an interval stand for all of it.

\* The low of an interval is there, and no price is under it.
LEMMA LowestIs ==
  ASSUME NEW path \in Seq(Nat), path # <<>>
  PROVE  Lowest(path) \in DOMAIN path /\ \A j \in DOMAIN path : path[Lowest(path)] <= path[j]
<1>1. DOMAIN path = 1..Len(path) /\ Len(path) \in Nat /\ 1 \in DOMAIN path
  OBVIOUS
<1> DEFINE V == {path[j] : j \in DOMAIN path}
<1>2. V \in SUBSET Nat /\ V # {}
  BY <1>1
<1>3. PICK v \in V : \A w \in V : v <= w
  BY <1>2, NatLeast
<1> DEFINE P == {j \in DOMAIN path : path[j] = v}
<1>4. P \in SUBSET Nat /\ P # {}
  BY <1>1
<1>5. PICK i \in P : \A j \in P : i <= j
  BY <1>4, NatLeast
<1>6. \A j \in DOMAIN path : path[j] > path[i] \/ (path[j] = path[i] /\ i <= j)
  <2> SUFFICES ASSUME NEW j \in DOMAIN path
               PROVE  path[j] > path[i] \/ (path[j] = path[i] /\ i <= j)
    OBVIOUS
  <2>1. path[j] \in Nat /\ path[i] \in Nat /\ path[i] = v /\ v <= path[j]
    BY <1>3, <1>5
  <2>2. path[j] = v => i <= j
    BY <1>5
  <2> QED BY <2>1, <2>2
<1>7. LET l == Lowest(path) IN
        /\ l \in DOMAIN path
        /\ \A j \in DOMAIN path : path[j] > path[l] \/ (path[j] = path[l] /\ l <= j)
  BY <1>5, <1>6 DEF Lowest
<1>8. \A j \in DOMAIN path : path[j] \in Nat
  OBVIOUS
<1> HIDE DEF V, P
<1> QED BY <1>7, <1>8

\* The high of an interval is there, and no price is over it.
LEMMA HighestIs ==
  ASSUME NEW path \in Seq(Nat), path # <<>>
  PROVE  Highest(path) \in DOMAIN path /\ \A j \in DOMAIN path : path[Highest(path)] >= path[j]
<1>1. DOMAIN path = 1..Len(path) /\ Len(path) \in Nat \ {0}
  OBVIOUS
<1>2. \A j \in DOMAIN path : path[j] \in Nat
  OBVIOUS
<1> DEFINE T == {n \in Nat : n + 1 <= Len(path) =>
                    \E i \in 1..(n + 1) : \A j \in 1..(n + 1) : path[j] <= path[i]}
<1>3. 0 \in T
  <2>1. \A j \in 1..1 : j = 1
    OBVIOUS
  <2>2. path[1] <= path[1]
    BY <1>1, <1>2
  <2> QED BY <2>1, <2>2
<1>4. ASSUME NEW n \in Nat, n \in T PROVE n + 1 \in T
  <2> SUFFICES ASSUME (n + 1) + 1 <= Len(path)
               PROVE  \E i \in 1..((n + 1) + 1) :
                         \A j \in 1..((n + 1) + 1) : path[j] <= path[i]
    OBVIOUS
  <2>1. PICK i \in 1..(n + 1) : \A j \in 1..(n + 1) : path[j] <= path[i]
    BY <1>1, <1>4
  <2> DEFINE m == (n + 1) + 1
  <2>2. m \in DOMAIN path /\ i \in DOMAIN path /\ \A j \in 1..m : j \in 1..(n + 1) \/ j = m
    BY <1>1
  <2>3. path[m] \in Nat /\ path[i] \in Nat /\ \A j \in 1..(n + 1) : path[j] \in Nat
    BY <1>1, <1>2, <2>2
  <2>4. CASE path[m] <= path[i]
    <3>1. \A j \in 1..m : path[j] <= path[i]
      BY <2>1, <2>2, <2>4
    <3>2. i \in 1..m
      OBVIOUS
    <3> HIDE DEF m
    <3>3. \E k \in 1..m : \A j \in 1..m : path[j] <= path[k]
      BY <3>1, <3>2
    <3> QED BY <3>3 DEF m
  <2>5. CASE path[i] < path[m]
    <3>1. \A j \in 1..m : path[j] <= path[m]
      BY <2>1, <2>2, <2>3, <2>5
    <3>2. m \in 1..m
      OBVIOUS
    <3> HIDE DEF m
    <3>3. \E k \in 1..m : \A j \in 1..m : path[j] <= path[k]
      BY <3>1, <3>2
    <3> QED BY <3>3 DEF m
  <2>6. path[m] <= path[i] \/ path[i] < path[m]
    BY <2>3
  <2> QED BY <2>4, <2>5, <2>6, Zenon
<1> HIDE DEF T
<1>5. Nat \subseteq T
  BY <1>3, <1>4, NatSetInduction
<1>6. PICK h \in DOMAIN path : \A j \in DOMAIN path : path[j] <= path[h]
  <2>1. Len(path) - 1 \in T
    BY <1>1, <1>5
  <2>2. (Len(path) - 1) + 1 = Len(path)
    BY <1>1
  <2>3. (Len(path) - 1) + 1 <= Len(path) =>
           \E i \in 1..((Len(path) - 1) + 1) :
              \A j \in 1..((Len(path) - 1) + 1) : path[j] <= path[i]
    BY <2>1 DEF T
  <2>4. \E i \in 1..Len(path) : \A j \in 1..Len(path) : path[j] <= path[i]
    BY <1>1, <2>2, <2>3
  <2> QED BY <1>1, <2>4
<1> DEFINE P == {j \in DOMAIN path : path[j] = path[h]}
<1>7. P \in SUBSET Nat /\ P # {}
  BY <1>1
<1>8. PICK i \in P : \A j \in P : i <= j
  BY <1>7, NatLeast
<1>9. \A j \in DOMAIN path : path[j] < path[i] \/ (path[j] = path[i] /\ i <= j)
  <2> SUFFICES ASSUME NEW j \in DOMAIN path
               PROVE  path[j] < path[i] \/ (path[j] = path[i] /\ i <= j)
    OBVIOUS
  <2>1. path[j] \in Nat /\ path[i] \in Nat /\ path[i] = path[h] /\ path[j] <= path[h]
    BY <1>2, <1>6, <1>8
  <2>2. path[j] = path[h] => i <= j
    BY <1>8
  <2> QED BY <2>1, <2>2
<1>10. LET l == Highest(path) IN
         /\ l \in DOMAIN path
         /\ \A j \in DOMAIN path : path[j] < path[l] \/ (path[j] = path[l] /\ l <= j)
  BY <1>8, <1>9 DEF Highest
<1> HIDE DEF P
<1> QED BY <1>2, <1>10

\* The places that are judged are those of the high and the low.
LEMMA ExtremesAre ==
  ASSUME NEW path \in Seq(Nat), path # <<>>
  PROVE  /\ Extremes(path) \in Seq(DOMAIN path)
         /\ \A i \in {Highest(path), Lowest(path)} :
               \E n \in 1..Len(Extremes(path)) : Extremes(path)[n] = i
<1> DEFINE h == Highest(path)
           l == Lowest(path)
           e == Extremes(path)
<1>1. h \in DOMAIN path /\ l \in DOMAIN path /\ DOMAIN path \subseteq Nat
  BY HighestIs, LowestIs
<1>2. e = IF h = l THEN <<h>> ELSE <<Smaller(h, l), Larger(h, l)>>
  BY DEF Extremes
<1> HIDE DEF h, l, e
<1> SUFFICES e \in Seq(DOMAIN path) /\ \A i \in {h, l} : \E n \in 1..Len(e) : e[n] = i
  BY DEF h, l, e
<1>3. CASE h = l
  <2>1. e = <<h>>
    BY <1>2, <1>3
  <2>2. e \in Seq(DOMAIN path) /\ Len(e) = 1 /\ e[1] = h
    BY <1>1, <2>1
  <2> QED BY <1>3, <2>2
<1>4. CASE h # l
  <2>1. e = <<h, l>> \/ e = <<l, h>>
    BY <1>1, <1>2, <1>4 DEF Smaller, Larger
  <2>2. /\ <<h, l>> \in Seq(DOMAIN path) /\ <<l, h>> \in Seq(DOMAIN path)
        /\ Len(<<h, l>>) = 2 /\ Len(<<l, h>>) = 2
    BY <1>1
  <2>4. e \in Seq(DOMAIN path) /\ Len(e) = 2
    BY <2>1, <2>2
  <2>5. {e[1], e[2]} = {h, l}
    BY <2>1
  <2>3. 1 \in 1..2 /\ 2 \in 1..2
    OBVIOUS
  <2> QED BY <2>4, <2>5, <2>3
<1> QED BY <1>3, <1>4

\* A fraction of a position between two prices is worth no less than at one of
\* them.
LEMMA EquityLinear ==
  ASSUME NEW pos \in Int, NEW low \in Nat, NEW px \in Nat, NEW high \in Nat,
         low <= px, px <= high
  PROVE  pos * low <= pos * px \/ pos * high <= pos * px
<1>1. CASE pos >= 0
  BY <1>1
<1>2. CASE pos < 0
  BY <1>2
<1> QED BY <1>1, <1>2

\* Readings of an interval.
ReadAt(rs, b, path, days, places) ==
  /\ rs \in Seq(Reading) /\ Len(rs) = Len(places)
  /\ \A n \in 1..Len(places) : /\ places[n] \in DOMAIN path
                               /\ rs[n].equity = Equity(b, path[places[n]])
                               /\ rs[n].day = days[places[n]]

\* The readings of an interval are of the periods its places fall in.
LEMMA ReadingsTyped ==
  ASSUME NEW b, b.pos \in Int, b.cash \in Int, NEW path \in Seq(Nat),
         NEW days \in [DOMAIN path -> Nat], NEW places \in Seq(DOMAIN path)
  PROVE  ReadAt(Readings(b, path, days, places), b, path, days, places)
<1>1. \A i \in DOMAIN path : path[i] \in Nat
  OBVIOUS
<1>2. \A i \in DOMAIN path : Equity(b, path[i]) \in Int
  <2> SUFFICES ASSUME NEW i \in DOMAIN path PROVE Equity(b, path[i]) \in Int
    OBVIOUS
  <2>1. b.pos * path[i] \in Int
    BY <1>1
  <2> QED BY <2>1 DEF Equity
<1>3. \A n \in 1..Len(places) : places[n] \in DOMAIN path
  OBVIOUS
<1> DEFINE rs == [n \in 1..Len(places) |-> [equity |-> Equity(b, path[places[n]]),
                                            day |-> days[places[n]]]]
<1>4. Readings(b, path, days, places) = rs
  BY DEF Readings
<1>5. rs \in [1..Len(places) -> Reading]
  BY <1>2, <1>3 DEF Reading
<1>6. rs \in Seq(Reading) /\ Len(rs) = Len(places)
  <2> HIDE DEF rs
  <2>1. Len(places) \in Nat
    OBVIOUS
  <2> QED BY <1>5, <2>1
<1>7. \A n \in 1..Len(places) : /\ rs[n].equity = Equity(b, path[places[n]])
                                /\ rs[n].day = days[places[n]]
  OBVIOUS
<1> HIDE DEF rs
<1> QED BY <1>3, <1>4, <1>6, <1>7 DEF ReadAt

----------------------------------------------------------------------------
(* Judging at the extremes and judging at every print.                     *)

\* What a pass finds at the extremes and at the close is what it would have
\* found at every print, if no floor moved inside the interval.

\* The account fires at one of these prices or at its close.
AtPrices(p, r, b, path) == \E i \in DOMAIN path : Fires(p, r, Equity(b, path[i]))
AtClose(p, r, b) == Fires(p, r, Equity(b, b.mark))

\* Where the floors stand, equity is under one at some print exactly when it
\* is at an extreme: it falls with the price or rises with it.
LEMMA ExtremesSuffice ==
  ASSUME NEW p \in Policy, NEW r \in Ledger, NEW b, b.pos \in Int, b.cash \in Int,
         NEW path \in Seq(Nat), path # <<>>, AtPrices(p, r, b, path)
  PROVE  Fires(p, r, Equity(b, path[Highest(path)])) \/ Fires(p, r, Equity(b, path[Lowest(path)]))
<1> DEFINE h == path[Highest(path)]
           l == path[Lowest(path)]
<1>1. PICK i \in DOMAIN path : Fires(p, r, Equity(b, path[i]))
  BY DEF AtPrices
<1>2. /\ path[i] \in Nat /\ h \in Nat /\ l \in Nat
      /\ l <= path[i] /\ path[i] <= h
  <2>1. \A j \in DOMAIN path : path[j] \in Nat
    OBVIOUS
  <2> QED BY <2>1, HighestIs, LowestIs
<1> DEFINE x == path[i]
<1> HIDE DEF h, l, x
<1>3. b.pos * l <= b.pos * x \/ b.pos * h <= b.pos * x
  BY <1>2, EquityLinear DEF x
<1>4. b.pos * l \in Int /\ b.pos * h \in Int /\ b.pos * x \in Int
  BY <1>2 DEF x
<1>5. /\ Equity(b, l) \in Int /\ Equity(b, h) \in Int /\ Equity(b, x) \in Int
      /\ Equity(b, l) <= Equity(b, x) \/ Equity(b, h) <= Equity(b, x)
  <2> DEFINE pl == b.pos * l
             ph == b.pos * h
             px == b.pos * x
  <2>1. pl \in Int /\ ph \in Int /\ px \in Int /\ (pl <= px \/ ph <= px)
    BY <1>3, <1>4
  <2>2. Equity(b, l) = b.cash + pl /\ Equity(b, h) = b.cash + ph /\ Equity(b, x) = b.cash + px
    BY DEF Equity
  <2> HIDE DEF pl, ph, px
  <2> QED BY <2>1, <2>2
<1>6. Fires(p, r, Equity(b, x))
  BY <1>1 DEF x
<1>7. Fires(p, r, Equity(b, l)) \/ Fires(p, r, Equity(b, h))
  BY <1>5, <1>6, FiresBelow
<1> QED BY <1>7 DEF h, l

\* An interval of the ledger's own day, as a pass reads it.
SameDay(path, days, closing) ==
  /\ path \in Seq(Nat) /\ days \in [DOMAIN path -> Nat] /\ closing \in Nat
  /\ \A i \in DOMAIN path : days[i] = ledger.day
  /\ closing = ledger.day

\* Reading every print finds a breach exactly when equity is under a floor at
\* one of them, or at the close.
LEMMA WalkedIs ==
  ASSUME policy \in Policy, FixedFloors(policy), ledger \in Ledger,
         NEW b, IsBook(b), NEW path, NEW days, NEW closing, SameDay(path, days, closing)
  PROVE  Walked(b, path, days, closing)
           <=> AtPrices(policy, ledger, b, path) \/ AtClose(policy, ledger, b)
<1> DEFINE places == [i \in DOMAIN path |-> i]
           rs == Readings(b, path, days, places)
           last == [equity |-> Equity(b, b.mark), day |-> closing]
           all == Append(rs, last)
           N == Len(path)
<1>1. /\ path \in Seq(Nat) /\ days \in [DOMAIN path -> Nat] /\ closing \in Nat
      /\ \A i \in DOMAIN path : days[i] = ledger.day
      /\ closing = ledger.day /\ N \in Nat /\ DOMAIN path = 1..N
  BY DEF SameDay
<1>2. places \in Seq(DOMAIN path) /\ Len(places) = N /\ \A i \in 1..N : places[i] = i
  BY <1>1
<1>3. b.pos \in Int /\ b.cash \in Int /\ b.mark \in Nat
  BY DEF IsBook
<1> HIDE DEF places
<1>4. /\ rs \in Seq(Reading) /\ Len(rs) = N
      /\ \A n \in 1..N : rs[n].equity = Equity(b, path[n]) /\ rs[n].day = days[n]
  <2>1. /\ rs \in Seq(Reading) /\ Len(rs) = Len(places)
        /\ \A n \in 1..Len(places) : /\ rs[n].equity = Equity(b, path[places[n]])
                                     /\ rs[n].day = days[places[n]]
    <3>1. ReadAt(rs, b, path, days, places)
      BY <1>1, <1>2, <1>3, ReadingsTyped
    <3> HIDE DEF rs
    <3> QED BY <3>1 DEF ReadAt
  <2> HIDE DEF rs
  <2> QED BY <1>2, <2>1
<1>5. Equity(b, b.mark) \in Int
  <2>1. b.pos * b.mark \in Int
    BY <1>3
  <2> QED BY <1>3, <2>1 DEF Equity
<1>6. last \in Reading
  BY <1>1, <1>5 DEF Reading
<1> HIDE DEF rs
<1>7. /\ all \in Seq(Reading) /\ Len(all) = N + 1
      /\ \A n \in 1..N : all[n].equity = Equity(b, path[n]) /\ all[n].day = days[n]
      /\ all[N + 1].equity = Equity(b, b.mark) /\ all[N + 1].day = closing
  <2>1. last.equity = Equity(b, b.mark) /\ last.day = closing
    OBVIOUS
  <2> HIDE DEF last
  <2>2. /\ all \in Seq(Reading) /\ Len(all) = N + 1
        /\ \A n \in 1..N : all[n] = rs[n]
        /\ all[N + 1] = last
    BY <1>1, <1>4, <1>6
  <2> HIDE DEF all
  <2> QED BY <1>4, <2>1, <2>2
<1> HIDE DEF all
<1>8. \A n \in 1..Len(all) : all[n].day = ledger.day
  <2>1. \A n \in 1..Len(all) : n \in 1..N \/ n = N + 1
    BY <1>1, <1>7
  <2> QED BY <1>1, <1>7, <2>1
<1>9. Replay(policy, ledger, all).fired
        <=> \E n \in 1..Len(all) : Fires(policy, ledger, all[n].equity)
  BY <1>7, <1>8, ReplayStands
<1>10. (\E n \in 1..Len(all) : Fires(policy, ledger, all[n].equity))
        <=> AtPrices(policy, ledger, b, path) \/ AtClose(policy, ledger, b)
  <2>1. \A n \in 1..Len(all) : n \in 1..N \/ n = N + 1
    BY <1>1, <1>7
  <2>2. N + 1 \in 1..Len(all) /\ \A n \in 1..N : n \in 1..Len(all)
    BY <1>1, <1>7
  <2>3. all[N + 1].equity = Equity(b, b.mark) /\ \A n \in 1..N : all[n].equity = Equity(b, path[n])
    BY <1>7
  <2> QED BY <1>1, <2>1, <2>2, <2>3 DEF AtPrices, AtClose
<1>11. Walked(b, path, days, closing) = Replay(policy, ledger, all).fired
  BY DEF Walked, all, rs, places, last
<1> QED BY <1>9, <1>10, <1>11

\* So does reading the extremes.
LEMMA JudgedIs ==
  ASSUME policy \in Policy, FixedFloors(policy), ledger \in Ledger,
         NEW b, IsBook(b), NEW path, NEW days, NEW closing, SameDay(path, days, closing)
  PROVE  Judged(b, path, days, closing).fired
           <=> AtPrices(policy, ledger, b, path) \/ AtClose(policy, ledger, b)
<1> DEFINE places == Extremes(path)
           rs == Readings(b, path, days, places)
           extreme == Replay(policy, ledger, rs)
           close == Observe(policy, extreme.ledger, Equity(b, b.mark), closing)
<1>1. /\ path \in Seq(Nat) /\ days \in [DOMAIN path -> Nat] /\ closing \in Nat
      /\ \A i \in DOMAIN path : days[i] = ledger.day
      /\ closing = ledger.day
  BY DEF SameDay
<1>2. places \in Seq(DOMAIN path)
  <2>1. CASE path = <<>>
    BY <2>1 DEF Extremes
  <2>2. CASE path # <<>>
    BY <1>1, <2>2, ExtremesAre
  <2> QED BY <2>1, <2>2
<1>3. b.pos \in Int /\ b.cash \in Int /\ b.mark \in Nat
  BY DEF IsBook
<1>4. Judged(b, path, days, closing).fired <=> extreme.fired \/ close.fired
  BY DEF Judged
<1> HIDE DEF places
<1>5. /\ rs \in Seq(Reading) /\ Len(rs) = Len(places)
      /\ \A n \in 1..Len(places) :
            /\ places[n] \in DOMAIN path
            /\ rs[n].equity = Equity(b, path[places[n]])
            /\ rs[n].day = days[places[n]]
  <2>1. ReadAt(rs, b, path, days, places)
    BY <1>1, <1>2, <1>3, ReadingsTyped
  <2> HIDE DEF rs
  <2> QED BY <2>1 DEF ReadAt
<1> HIDE DEF rs
<1>6. \A n \in 1..Len(rs) : rs[n].day = ledger.day
  BY <1>1, <1>5
<1>7. /\ extreme.fired <=> \E n \in 1..Len(rs) : Fires(policy, ledger, rs[n].equity)
      /\ ~extreme.fired => extreme.ledger = ledger
  BY <1>5, <1>6, ReplayStands
<1> HIDE DEF extreme
<1>8. Equity(b, b.mark) \in Int
  <2>1. b.pos * b.mark \in Int
    BY <1>3
  <2> QED BY <1>3, <2>1 DEF Equity
<1>9. ~extreme.fired => (close.fired <=> AtClose(policy, ledger, b))
  <2> SUFFICES ASSUME ~extreme.fired PROVE close.fired <=> AtClose(policy, ledger, b)
    OBVIOUS
  <2>1. close = Observe(policy, ledger, Equity(b, b.mark), ledger.day)
    BY <1>1, <1>7
  <2>2. Observe(policy, ledger, Equity(b, b.mark), ledger.day).fired
          <=> Fires(policy, ledger, Equity(b, b.mark))
    BY <1>8, ObserveStands
  <2> QED BY <2>1, <2>2 DEF AtClose
<1>10. extreme.fired <=> AtPrices(policy, ledger, b, path)
  <2>1. ASSUME extreme.fired PROVE AtPrices(policy, ledger, b, path)
    BY <1>5, <1>7, <2>1 DEF AtPrices
  <2>2. ASSUME AtPrices(policy, ledger, b, path) PROVE extreme.fired
    <3>1. path # <<>>
      BY <2>2 DEF AtPrices
    <3>2. PICK i \in {Highest(path), Lowest(path)} : Fires(policy, ledger, Equity(b, path[i]))
      BY <1>1, <1>3, <2>2, <3>1, ExtremesSuffice
    <3>3. PICK n \in 1..Len(places) : places[n] = i
      BY <1>1, <3>1, ExtremesAre DEF places
    <3>4. rs[n].equity = Equity(b, path[i]) /\ n \in 1..Len(rs)
      BY <1>5, <3>3
    <3> QED BY <1>7, <3>2, <3>4
  <2> QED BY <2>1, <2>2
<1> HIDE DEF close
<1> QED BY <1>4, <1>9, <1>10

----------------------------------------------------------------------------
(* Module Entry is well typed up to what a pass does.                      *)

EntryInv ==
  /\ EntryTypeOK
  /\ \A leg \in Leg : command[leg] # Idle => command[leg].id \notin unsent

Commands == [stage : Stages, id : Order, asked : Submit]

\* An account opens well typed.
LEMMA EntryInvInit == EntryInit => EntryInv
<1> SUFFICES ASSUME EntryInit PROVE EntryInv
  OBVIOUS
<1>1. policy \in Policy
  BY RiskAssumption DEF EntryInit
<1>2. ledger \in Ledger
  BY DEF EntryInit, NewLedger, Ledger
<1>3. book = [pos |-> 0, cash |-> 0, mark |-> FirstMark, working |-> <<>>] /\ FirstMark \in Nat
  BY EntryAssumption DEF EntryInit
<1>4. <<>> \in [{} -> OrderAsked] /\ DOMAIN <<>> = {}
  OBVIOUS
<1>5. IsBook(book)
  BY <1>3, <1>4 DEF IsBook
<1>6. unsent \subseteq Order \ DOMAIN book.working
  BY <1>3, <1>4 DEF EntryInit
<1>7. /\ command \in [Leg -> {Idle} \cup [stage : Stages, id : Order, asked : Submit]]
      /\ \A leg \in Leg : command[leg] = Idle
  BY DEF EntryInit
<1>8. day \in [Boat -> 0..LastDay] /\ pass \in [crossed : BOOLEAN, judged : BOOLEAN, walked : BOOLEAN]
  BY EntryAssumption DEF EntryInit
<1>9. policy \in Policies /\ stale \subseteq Leg /\ unseen \in BOOLEAN
  BY DEF EntryInit
<1> QED BY <1>2, <1>5, <1>6, <1>7, <1>8, <1>9 DEF EntryInv, EntryTypeOK

\* What is remembered of the cap checks stays well typed.
LEMMA ChecksTyped == EntryInv /\ [EntryNext]_entryVars => stale' \subseteq Leg /\ unseen' \in BOOLEAN
<1> SUFFICES ASSUME EntryInv, [EntryNext]_entryVars PROVE stale' \subseteq Leg /\ unseen' \in BOOLEAN
  OBVIOUS
<1>1. stale \subseteq Leg /\ unseen \in BOOLEAN /\ Entering \subseteq Leg
  BY DEF EntryInv, EntryTypeOK, Entering
<1>2. ASSUME UNCHANGED <<stale, unseen>> PROVE stale' \subseteq Leg /\ unseen' \in BOOLEAN
  BY <1>1, <1>2
<1>3. CASE UNCHANGED entryVars
  BY <1>2, <1>3 DEF entryVars
<1>4. ASSUME NEW leg \in Leg,
             (\E id \in Order, asked \in Submit : CheckLock(leg, id, asked)) \/ CheckCap(leg)
      PROVE  stale' \subseteq Leg /\ unseen' \in BOOLEAN
  BY <1>2, <1>4 DEF CheckLock, CheckCap
<1>5. ASSUME NEW leg \in Leg, Act(leg) PROVE stale' \subseteq Leg /\ unseen' \in BOOLEAN
  <2>1. /\ stale' = Entering \ {leg}
        /\ unseen' = (unseen \/ command[leg].asked.reduceOnly \/ leg \in stale)
    BY <1>5 DEF Act
  <2> QED BY <1>1, <2>1
<1>6. ASSUME NEW leg \in Leg, Refuse(leg) PROVE stale' \subseteq Leg /\ unseen' \in BOOLEAN
  BY <1>1, <1>6 DEF Refuse
<1>7. ASSUME NEW leg \in Leg, NEW id \in Order, Cancel(leg, id)
      PROVE  stale' \subseteq Leg /\ unseen' \in BOOLEAN
  BY <1>2, <1>7 DEF Cancel
<1>8. ASSUME NEW leg \in Leg, NEW id \in Order, NEW qty, Modify(leg, id, qty)
      PROVE  stale' \subseteq Leg /\ unseen' \in BOOLEAN
  <2>1. stale' = stale /\ unseen' = (unseen \/ qty > book.working[id].qty)
    BY <1>8 DEF Modify
  <2> QED BY <1>1, <2>1
<1>9. ASSUME NEW boat, NEW path, NEW ids, NEW turn, Pass(boat, path, ids, turn)
      PROVE  stale' \subseteq Leg /\ unseen' \in BOOLEAN
  <2>1. \E fired : /\ stale' = IF fired THEN Entering ELSE stale
                   /\ unseen' = (unseen /\ ~fired)
    BY <1>9 DEF Pass
  <2> QED BY <1>1, <2>1
<1> QED BY <1>3, <1>4, <1>5, <1>6, <1>7, <1>8, <1>9 DEF EntryNext

\* A command that is not idle carries its id and what it asks.
LEMMA CommandIs ==
  ASSUME EntryInv, NEW leg \in Leg, ~At(leg, "idle")
  PROVE  /\ command[leg] \in Commands /\ command[leg].id \in Order \ unsent
         /\ command[leg].asked \in Submit /\ command[leg].asked \in OrderAsked
<1>1. command[leg] \in {Idle} \cup Commands
  BY DEF EntryInv, EntryTypeOK, Commands
<1>2. command[leg] # Idle
  BY DEF At, Idle
<1>3. command[leg] \in Commands
  BY <1>1, <1>2
<1>4. command[leg].id \notin unsent
  BY <1>2 DEF EntryInv
<1>5. command[leg].asked \in Submit
  BY <1>3 DEF Commands
<1>6. command[leg].asked \in OrderAsked
  BY <1>5, EntryAssumption DEF OrderAsked
<1> QED BY <1>3, <1>4, <1>5, <1>6 DEF Commands

\* A submit's steps up to the engine leave the book alone.
LEMMA ChecksKeep ==
  ASSUME EntryInv, NEW leg \in Leg,
         \/ \E id \in Order, asked \in Submit : CheckLock(leg, id, asked)
         \/ CheckCap(leg) \/ Refuse(leg)
  PROVE  EntryInv' /\ UNCHANGED <<policy, ledger, book, day, pass>>
<1>0. /\ UNCHANGED <<policy, ledger, book, day, pass>>
      /\ stale' \subseteq Leg /\ unseen' \in BOOLEAN
  <2>1. EntryNext
    BY DEF EntryNext
  <2> QED BY <2>1, ChecksTyped DEF CheckLock, CheckCap, Refuse, Sweeping
<1> DEFINE Told == /\ unsent' \subseteq unsent /\ DOMAIN command' = Leg
                   /\ \A l \in Leg : \/ command'[l] = command[l]
                                     \/ command'[l] = Idle
                                     \/ /\ command'[l] \in Commands
                                        /\ command'[l].id \notin unsent'
<1>1. Told
  <2>1. command \in [Leg -> {Idle} \cup Commands]
    BY DEF EntryInv, EntryTypeOK, Commands
  <2>2. ASSUME NEW id \in Order, NEW asked \in Submit, CheckLock(leg, id, asked)
        PROVE  Told
    <3> DEFINE c == [stage |-> "checking", id |-> id, asked |-> asked]
    <3>1. c \in Commands /\ c.id = id
      BY DEF Commands, Stages
    <3>2. unsent' = unsent \ {id}
      BY <2>2 DEF CheckLock
    <3>3. command' = command \/ command' = [command EXCEPT ![leg] = c]
      BY <2>2 DEF CheckLock, Command
    <3>4. id \notin unsent'
      BY <3>2
    <3> HIDE DEF c
    <3> QED BY <2>1, <3>1, <3>2, <3>3, <3>4
  <2>3. CASE CheckCap(leg)
    <3> DEFINE c == [command[leg] EXCEPT !.stage = "entering"]
    <3>1. command[leg] \in Commands /\ command[leg].id \notin unsent
      BY <2>3, CommandIs DEF CheckCap, At
    <3>2. c \in Commands /\ c.id = command[leg].id
      BY <3>1 DEF Commands, Stages
    <3>3. command' = [command EXCEPT ![leg] = Idle] \/ command' = [command EXCEPT ![leg] = c]
      BY <2>3 DEF CheckCap, Command, Staged
    <3>4. unsent' = unsent
      BY <2>3 DEF CheckCap
    <3> HIDE DEF c
    <3> QED BY <2>1, <3>1, <3>2, <3>3, <3>4
  <2>4. CASE Refuse(leg)
    BY <2>1, <2>4 DEF Refuse, Command
  <2> QED BY <2>2, <2>3, <2>4
<1>2. command' \in [Leg -> {Idle} \cup Commands]
  <2>1. \A l \in Leg : command'[l] \in {Idle} \cup Commands
    BY <1>1 DEF EntryInv, EntryTypeOK, Commands
  <2>2. command' = [l \in Leg |-> command'[l]]
    BY DEF CheckLock, CheckCap, Refuse, Staged, Command, EntryInv, EntryTypeOK
  <2> QED BY <2>1, <2>2, Zenon
<1>3. \A l \in Leg : command'[l] # Idle => command'[l].id \notin unsent'
  BY <1>1 DEF EntryInv
<1> QED BY <1>0, <1>1, <1>2, <1>3 DEF EntryInv, EntryTypeOK, Commands

\* The engine takes an order, or the account's own commands change one.
LEMMA BookStepsKeep ==
  ASSUME EntryInv, NEW leg \in Leg,
         \/ Act(leg)
         \/ \E id \in Order : Cancel(leg, id) \/ \E qty \in Resizes : Modify(leg, id, qty)
  PROVE  EntryInv' /\ UNCHANGED <<policy, ledger, day, pass>>
<1>0. /\ UNCHANGED <<policy, ledger, day, pass, unsent>>
      /\ stale' \subseteq Leg /\ unseen' \in BOOLEAN
  <2>1. EntryNext
    BY DEF EntryNext
  <2> QED BY <2>1, ChecksTyped DEF Act, Cancel, Modify, Sweeping
<1>1. IsBook(book) /\ unsent \subseteq Order \ DOMAIN book.working
  BY DEF EntryInv, EntryTypeOK
<1>2. command \in [Leg -> {Idle} \cup Commands]
  BY DEF EntryInv, EntryTypeOK, Commands
<1>3. command' = command \/ command' = [command EXCEPT ![leg] = Idle]
  BY DEF Act, Cancel, Modify, Command
<1>4. /\ command' \in [Leg -> {Idle} \cup Commands]
      /\ \A l \in Leg : command'[l] # Idle => command'[l].id \notin unsent'
  BY <1>0, <1>2, <1>3 DEF EntryInv
<1> DEFINE Booked == IsBook(book') /\ unsent' \subseteq Order \ DOMAIN book'.working
<1>5. Booked
  <2>1. CASE Act(leg)
    <3> DEFINE o == command[leg].asked
               id == command[leg].id
               w == [i \in DOMAIN book.working \cup {id} |->
                       IF i \in DOMAIN book.working THEN book.working[i] ELSE o]
    <3>1. id \in Order \ unsent /\ o \in OrderAsked
      BY <2>1, CommandIs DEF Act, At
    <3>2. CASE book' = Filled(book, o, book.mark)
      <4>1. book.mark \in Nat
        BY <1>1 DEF IsBook
      <4> QED BY <1>0, <1>1, <3>1, <3>2, <4>1, FilledBook
    <3>3. CASE book' = Rested(book, id, o)
      <4>1. w \in [DOMAIN book.working \cup {id} -> OrderAsked]
        <5> HIDE DEF o, id
        <5> QED BY <1>1, <3>1 DEF IsBook
      <4>2. book' = [book EXCEPT !.working = w]
        BY <3>3 DEF Rested
      <4> HIDE DEF w
      <4>3. book' \in [pos : Int, cash : Int, mark : Nat, working : {w}] /\ book'.working = w
        BY <1>1, <4>2 DEF IsBook
      <4>4. DOMAIN w = DOMAIN book.working \cup {id}
        BY <4>1
      <4> QED BY <1>0, <1>1, <3>1, <4>1, <4>3, <4>4 DEF IsBook
    <3> QED BY <2>1, <3>2, <3>3 DEF Act
  <2>2. ASSUME NEW id \in Order, Cancel(leg, id) PROVE Booked
    <3>1. book' = Without(book, id)
      BY <2>2 DEF Cancel
    <3>2. IsBook(Without(book, id)) /\ DOMAIN Without(book, id).working \subseteq DOMAIN book.working
      <4>1. /\ IsBook(Without(book, id))
            /\ DOMAIN Without(book, id).working = DOMAIN book.working \ {id}
        BY <1>1, WithoutBook
      <4> QED BY <4>1
    <3> QED BY <1>0, <1>1, <3>1, <3>2
  <2>3. ASSUME NEW id \in Order, NEW qty \in Resizes, Modify(leg, id, qty) PROVE Booked
    <3>1. id \in DOMAIN book.working /\ book' = [book EXCEPT !.working[id].qty = qty]
      BY <2>3 DEF Modify
    <3> DEFINE w == [book.working EXCEPT ![id].qty = qty]
    <3>2. qty \in Nat \ {0}
      BY EntryAssumption
    <3>3. w \in [DOMAIN book.working -> OrderAsked]
      <4>1. book.working[id] \in OrderAsked
        BY <1>1, <3>1 DEF IsBook
      <4>2. [book.working[id] EXCEPT !.qty = qty] \in OrderAsked
        BY <3>2, <4>1 DEF OrderAsked
      <4> QED BY <1>1, <4>2 DEF IsBook
    <3>4. book' = [book EXCEPT !.working = w]
      BY <3>1
    <3> HIDE DEF w
    <3>5. book' \in [pos : Int, cash : Int, mark : Nat, working : {w}] /\ book'.working = w
      BY <1>1, <3>4 DEF IsBook
    <3> QED BY <1>0, <1>1, <3>3, <3>5 DEF IsBook
  <2> QED BY <2>1, <2>2, <2>3
<1> QED BY <1>0, <1>4, <1>5 DEF EntryInv, EntryTypeOK, Commands

----------------------------------------------------------------------------
(* A pass.                                                                 *)

Closes(boat, path, turn) == day[boat] + (IF turn <= Len(path) + 1 THEN 1 ELSE 0)
Dates(boat, path, turn) == [i \in DOMAIN path |-> day[boat] + (IF turn <= i THEN 1 ELSE 0)]
Marked(b, path) == IF path = <<>> THEN b ELSE [b EXCEPT !.mark = Last(path)]
Decided(b, path, days, closing) ==
  IF Unpoliced(policy) THEN [ledger |-> ledger, fired |-> FALSE]
  ELSE Judged(b, path, days, closing)

\* What a pass does, once it has priced its fills.
Passed(b, path, days, closing) ==
  /\ ledger' = Decided(b, path, days, closing).ledger
  /\ book' = IF Decided(b, path, days, closing).fired THEN Liquidated(b) ELSE b
  /\ pass' = [crossed |-> \E d \in Range(days) \cup {closing} : d # ledger.day,
              judged |-> Decided(b, path, days, closing).fired,
              walked |-> Walked(b, path, days, closing)]
  /\ stale' = IF Decided(b, path, days, closing).fired THEN Entering ELSE stale
  /\ unseen' = (unseen /\ ~Decided(b, path, days, closing).fired)

\* A pass sweeps the book at some price of its interval, marks it and judges
\* it.
LEMMA PassIs ==
  ASSUME NEW boat, NEW path, NEW ids, NEW turn, Pass(boat, path, ids, turn)
  PROVE  \E px \in (IF ids = <<>> THEN {book.mark} ELSE Range(path)) :
            Passed(Marked(Swept(book, ids, px), path), path,
                   Dates(boat, path, turn), Closes(boat, path, turn))
BY DEF Pass, Passed, Marked, Dates, Closes, Decided

\* A mark changes no order and no position.
LEMMA MarkedBook ==
  ASSUME NEW b, IsBook(b), NEW path \in Seq(Nat)
  PROVE  IsBook(Marked(b, path)) /\ Marked(b, path).working = b.working
         /\ Marked(b, path).pos = b.pos
<1>1. CASE path = <<>>
  BY <1>1 DEF Marked
<1>2. CASE path # <<>>
  <2>1. Last(path) \in Nat
    BY <1>2 DEF Last
  <2>2. Marked(b, path) = [b EXCEPT !.mark = Last(path)]
    BY <1>2 DEF Marked
  <2> QED BY <2>1, <2>2 DEF IsBook
<1> QED BY <1>1, <1>2

\* Equity is a number, whatever the position owes.
LEMMA EquityInt ==
  ASSUME NEW b, b.pos \in Int, b.cash \in Int, NEW px \in Nat
  PROVE  Equity(b, px) \in Int
<1>1. b.pos * px \in Int
  OBVIOUS
<1> QED BY <1>1 DEF Equity

\* A liquidated book is flat and empty.
LEMMA LiquidatedBook ==
  ASSUME NEW b, IsBook(b)
  PROVE  /\ IsBook(Liquidated(b)) /\ Liquidated(b).pos = 0
         /\ Liquidated(b).working = <<>> /\ DOMAIN Liquidated(b).working = {}
<1>1. b.pos \in Int /\ b.cash \in Int /\ b.mark \in Nat
  BY DEF IsBook
<1>2. Equity(b, b.mark) \in Int
  BY <1>1, EquityInt
<1> DEFINE worth == Equity(b, b.mark)
<1>5. Liquidated(b) = [b EXCEPT !.pos = 0, !.cash = worth, !.working = <<>>]
  BY DEF Liquidated
<1>6. worth \in Int
  BY <1>2
<1> HIDE DEF worth
<1>7. b = [pos |-> b.pos, cash |-> b.cash, mark |-> b.mark, working |-> b.working]
  BY DEF IsBook
<1>8. Liquidated(b) = [pos |-> 0, cash |-> worth, mark |-> b.mark, working |-> <<>>]
  BY <1>5, <1>7
<1>3. /\ Liquidated(b) \in [pos : Int, cash : Int, mark : Nat, working : {<<>>}]
      /\ Liquidated(b).pos = 0 /\ Liquidated(b).working = <<>>
  BY <1>1, <1>6, <1>8
<1>4. <<>> \in [{} -> OrderAsked] /\ DOMAIN <<>> = {}
  OBVIOUS
<1> QED BY <1>3, <1>4 DEF IsBook

\* A replay answers as its last reading does.
LEMMA ReplayTyped ==
  ASSUME NEW p \in Policy, NEW r \in Ledger, NEW readings \in Seq(Reading)
  PROVE  Replay(p, r, readings) \in Verdict
<1> DEFINE J == Judgements(p, r, readings)
<1>1. J \in [0..Len(readings) -> Verdict]
  BY JudgementsStep
<1>2. Len(readings) \in 0..Len(readings)
  OBVIOUS
<1> HIDE DEF J
<1>3. J[Len(readings)] \in Verdict
  BY <1>1, <1>2
<1> QED BY <1>3 DEF Replay, J

\* What a pass decides is a ledger and whether it fired.
LEMMA DecidedTyped ==
  ASSUME policy \in Policy, ledger \in Ledger, NEW b, IsBook(b), NEW path \in Seq(Nat),
         NEW days \in [DOMAIN path -> Nat], NEW closing \in Nat
  PROVE  Decided(b, path, days, closing) \in Verdict
<1>1. b.pos \in Int /\ b.cash \in Int /\ b.mark \in Nat
  BY DEF IsBook
<1>2. Extremes(path) \in Seq(DOMAIN path)
  <2>1. CASE path = <<>>
    BY <2>1 DEF Extremes
  <2>2. CASE path # <<>>
    BY <2>2, ExtremesAre
  <2> QED BY <2>1, <2>2
<1> DEFINE rs == Readings(b, path, days, Extremes(path))
           extreme == Replay(policy, ledger, rs)
           close == Observe(policy, extreme.ledger, Equity(b, b.mark), closing)
<1>3. rs \in Seq(Reading)
  <2>1. ReadAt(rs, b, path, days, Extremes(path))
    BY <1>1, <1>2, ReadingsTyped
  <2> HIDE DEF rs
  <2> QED BY <2>1 DEF ReadAt
<1>4. Judged(b, path, days, closing) = [ledger |-> close.ledger, fired |-> extreme.fired \/ close.fired]
  BY DEF Judged
<1> HIDE DEF rs
<1>5. extreme \in Verdict
  BY <1>3, ReplayTyped
<1> HIDE DEF extreme
<1>6. extreme.ledger \in Ledger /\ Equity(b, b.mark) \in Int
  BY <1>1, <1>5, EquityInt DEF Verdict
<1>7. close \in Verdict
  BY <1>6, ObserveTyped
<1> HIDE DEF close
<1> DEFINE fired == extreme.fired \/ close.fired
<1>8. fired \in BOOLEAN /\ close.ledger \in Ledger
  BY <1>7 DEF Verdict
<1>10. Judged(b, path, days, closing) = [ledger |-> close.ledger, fired |-> fired]
  BY <1>4
<1> HIDE DEF fired
<1>9. Judged(b, path, days, closing) \in Verdict
  BY <1>8, <1>10 DEF Verdict
<1> QED BY <1>9 DEF Decided, Verdict

\* So is what reading every print would have decided.
LEMMA WalkedTyped ==
  ASSUME policy \in Policy, ledger \in Ledger, NEW b, IsBook(b), NEW path \in Seq(Nat),
         NEW days \in [DOMAIN path -> Nat], NEW closing \in Nat
  PROVE  Walked(b, path, days, closing) \in BOOLEAN
<1>1. b.pos \in Int /\ b.cash \in Int /\ b.mark \in Nat
  BY DEF IsBook
<1> DEFINE places == [i \in DOMAIN path |-> i]
           rs == Readings(b, path, days, places)
           last == [equity |-> Equity(b, b.mark), day |-> closing]
<1>2. places \in Seq(DOMAIN path)
  OBVIOUS
<1>3. rs \in Seq(Reading)
  <2> HIDE DEF places
  <2>1. ReadAt(rs, b, path, days, places)
    BY <1>1, <1>2, ReadingsTyped
  <2> HIDE DEF rs
  <2> QED BY <2>1 DEF ReadAt
<1>4. last \in Reading
  BY <1>1, EquityInt DEF Reading
<1> DEFINE all == Append(rs, last)
<1>5. Walked(b, path, days, closing) = Replay(policy, ledger, all).fired
  BY DEF Walked
<1> HIDE DEF rs, last
<1>6. all \in Seq(Reading)
  BY <1>3, <1>4
<1> HIDE DEF all
<1>7. Replay(policy, ledger, all) \in Verdict
  BY <1>6, ReplayTyped
<1> QED BY <1>5, <1>7 DEF Verdict

\* What a pass prices its fills at, and the book they leave.
LEMMA PassBook ==
  ASSUME EntryInv, NEW boat \in Boat, NEW path \in Paths, NEW N \in Nat,
         NEW ids \in Injection(1..N, DOMAIN book.working),
         NEW turn \in 1..(Len(path) + 2), Pass(boat, path, ids, turn)
  PROVE  \E px \in Nat : \E b : /\ b = Marked(Swept(book, ids, px), path)
                                /\ Thinned(book, b)
                                /\ Passed(b, path, Dates(boat, path, turn), Closes(boat, path, turn))
<1>1. path \in Seq(Nat)
  BY EntryAssumption
<1>2. IsBook(book) /\ book.mark \in Nat
  BY DEF EntryInv, EntryTypeOK, IsBook
<1>3. PICK px \in (IF ids = <<>> THEN {book.mark} ELSE Range(path)) :
            Passed(Marked(Swept(book, ids, px), path), path,
                   Dates(boat, path, turn), Closes(boat, path, turn))
  BY PassIs
<1>4. px \in Nat
  <2>1. Range(path) \subseteq Nat
    BY <1>1 DEF Range
  <2> QED BY <1>2, <2>1
<1> DEFINE c == Swept(book, ids, px)
<1>5. Thinned(book, c)
  BY <1>2, <1>4, SweptBook
<1> HIDE DEF c
<1>6. IsBook(Marked(c, path)) /\ Marked(c, path).working = c.working
  BY <1>1, <1>5, MarkedBook DEF Thinned
<1>7. Thinned(book, Marked(c, path))
  BY <1>5, <1>6 DEF Thinned
<1> QED BY <1>3, <1>4, <1>7 DEF c

\* The readings of a pass are dated by the boat's own clock.
LEMMA PassTimes ==
  ASSUME EntryInv, NEW boat \in Boat, NEW path \in Paths, NEW ids,
         NEW turn \in 1..(Len(path) + 2), Pass(boat, path, ids, turn)
  PROVE  /\ path \in Seq(Nat) /\ policy \in Policy /\ ledger \in Ledger
         /\ Dates(boat, path, turn) \in [DOMAIN path -> Nat]
         /\ Closes(boat, path, turn) \in 0..LastDay
<1>1. path \in Seq(Nat) /\ policy \in Policy /\ ledger \in Ledger
  BY EntryAssumption, RiskAssumption DEF EntryInv, EntryTypeOK
<1>2. day[boat] \in Nat /\ LastDay \in Nat
  BY EntryAssumption DEF EntryInv, EntryTypeOK
<1>3. Closes(boat, path, turn) <= LastDay
  BY DEF Pass, Closes
<1>4. Closes(boat, path, turn) \in Nat
  BY <1>2 DEF Closes
<1> QED BY <1>1, <1>2, <1>3, <1>4 DEF Dates

\* A pass keeps the types, whatever it fills and whatever it decides.
LEMMA PassKeeps ==
  ASSUME EntryInv, NEW boat \in Boat, NEW path \in Paths, NEW N \in Nat,
         NEW ids \in Injection(1..N, DOMAIN book.working),
         NEW turn \in 1..(Len(path) + 2), Pass(boat, path, ids, turn),
         stale' \subseteq Leg, unseen' \in BOOLEAN
  PROVE  EntryInv'
<1> DEFINE days == Dates(boat, path, turn)
           closing == Closes(boat, path, turn)
<1>1. PICK b : Thinned(book, b) /\ Passed(b, path, days, closing)
  BY PassBook
<1>2. /\ path \in Seq(Nat) /\ policy \in Policy /\ ledger \in Ledger
      /\ days \in [DOMAIN path -> Nat] /\ closing \in 0..LastDay /\ closing \in Nat
  BY PassTimes
<1> HIDE DEF days, closing
<1>3. IsBook(b) /\ DOMAIN b.working \subseteq DOMAIN book.working
  BY <1>1 DEF Thinned
<1> DEFINE v == Decided(b, path, days, closing)
<1>4. v \in Verdict /\ Walked(b, path, days, closing) \in BOOLEAN
  BY <1>2, <1>3, DecidedTyped, WalkedTyped
<1> HIDE DEF v
<1>5. /\ ledger' = v.ledger /\ book' = (IF v.fired THEN Liquidated(b) ELSE b)
      /\ pass' = [crossed |-> \E d \in Range(days) \cup {closing} : d # ledger.day,
                  judged |-> v.fired, walked |-> Walked(b, path, days, closing)]
  BY <1>1 DEF Passed, v
<1>6. ledger' \in Ledger
  BY <1>4, <1>5 DEF Verdict
<1>7. IsBook(book') /\ DOMAIN book'.working \subseteq DOMAIN book.working
  BY <1>3, <1>4, <1>5, LiquidatedBook DEF Verdict
<1>8. pass' \in [crossed : BOOLEAN, judged : BOOLEAN, walked : BOOLEAN]
  <2>1. (\E d \in Range(days) \cup {closing} : d # ledger.day) \in BOOLEAN
    OBVIOUS
  <2>2. v.fired \in BOOLEAN
    BY <1>4 DEF Verdict
  <2> QED BY <1>4, <1>5, <2>1, <2>2, Zenon
<1>9. day' \in [Boat -> 0..LastDay] /\ UNCHANGED <<policy, unsent, command>>
  <2>1. day' = [day EXCEPT ![boat] = closing] /\ UNCHANGED <<policy, unsent, command>>
    BY DEF Pass, Closes, closing
  <2>2. day \in [Boat -> 0..LastDay]
    BY DEF EntryInv, EntryTypeOK
  <2> QED BY <1>2, <2>1, <2>2
<1> QED BY <1>6, <1>7, <1>8, <1>9 DEF EntryInv, EntryTypeOK

\* Judging at the extremes and at the close misses nothing where no floor moves.
LEMMA PassWatches ==
  ASSUME EntryInv, NEW boat \in Boat, NEW path \in Paths, NEW N \in Nat,
         NEW ids \in Injection(1..N, DOMAIN book.working),
         NEW turn \in 1..(Len(path) + 2), Pass(boat, path, ids, turn)
  PROVE  FixedFloorsWatched'
<1> DEFINE days == Dates(boat, path, turn)
           closing == Closes(boat, path, turn)
<1>1. PICK b : Thinned(book, b) /\ Passed(b, path, days, closing)
  BY PassBook
<1>2. /\ path \in Seq(Nat) /\ policy \in Policy /\ ledger \in Ledger
      /\ days \in [DOMAIN path -> Nat] /\ closing \in 0..LastDay /\ closing \in Nat
  BY PassTimes
<1> HIDE DEF days, closing
<1>3. IsBook(b)
  BY <1>1 DEF Thinned
<1>4. policy' = policy
  BY DEF Pass
<1> DEFINE v == Decided(b, path, days, closing)
           w == Walked(b, path, days, closing)
<1>5. v \in Verdict /\ w \in BOOLEAN
  BY <1>2, <1>3, DecidedTyped, WalkedTyped
<1>6. /\ pass'.judged = v.fired /\ pass'.walked = w
      /\ pass'.crossed = (\E d \in Range(days) \cup {closing} : d # ledger.day)
  BY <1>1 DEF Passed
<1> HIDE DEF v, w
<1> SUFFICES ASSUME FixedFloors(policy), ~pass'.crossed PROVE v.fired <=> w
  BY <1>4, <1>5, <1>6 DEF FixedFloorsWatched, FixedFloors, TickResolution, Verdict
<1>7. SameDay(path, days, closing)
  <2>1. \A d \in Range(days) \cup {closing} : d = ledger.day
    BY <1>6
  <2>2. \A i \in DOMAIN path : days[i] \in Range(days)
    BY <1>2 DEF Range
  <2> QED BY <1>2, <2>1, <2>2 DEF SameDay
<1> DEFINE breach == AtPrices(policy, ledger, b, path) \/ AtClose(policy, ledger, b)
<1>8. w <=> breach
  BY <1>2, <1>3, <1>7, WalkedIs DEF w
<1>9. v.fired <=> breach
  <2>1. CASE Unpoliced(policy)
    <3>1. ~breach
      BY <1>2, <2>1, UnpolicedNeverFires DEF AtPrices, AtClose
    <3>2. v.fired = FALSE
      BY <2>1 DEF v, Decided
    <3> QED BY <3>1, <3>2
  <2>2. CASE ~Unpoliced(policy)
    <3>1. v = Judged(b, path, days, closing)
      BY <2>2 DEF v, Decided
    <3> QED BY <1>2, <1>3, <1>7, <3>1, JudgedIs
  <2> QED BY <2>1, <2>2
<1> QED BY <1>8, <1>9

\* Every step keeps the types and what is said of the last pass.
LEMMA EntryInvStep ==
  EntryInv /\ [EntryNext]_entryVars => EntryInv' /\ (FixedFloorsWatched => FixedFloorsWatched')
<1> SUFFICES ASSUME EntryInv, [EntryNext]_entryVars
             PROVE  EntryInv' /\ (FixedFloorsWatched => FixedFloorsWatched')
  OBVIOUS
<1>0. ASSUME UNCHANGED <<policy, pass>> PROVE FixedFloorsWatched => FixedFloorsWatched'
  BY <1>0 DEF FixedFloorsWatched, TickResolution
<1>1. CASE UNCHANGED entryVars
  <2>1. EntryInv'
    BY <1>1 DEF entryVars, EntryInv, EntryTypeOK, IsBook
  <2> QED BY <1>0, <1>1, <2>1 DEF entryVars
<1>2. ASSUME NEW leg \in Leg, NEW id \in Order, NEW asked \in Submit, CheckLock(leg, id, asked)
      PROVE  EntryInv' /\ (FixedFloorsWatched => FixedFloorsWatched')
  BY <1>0, <1>2, ChecksKeep
<1>3. ASSUME NEW leg \in Leg, CheckCap(leg) \/ Refuse(leg)
      PROVE  EntryInv' /\ (FixedFloorsWatched => FixedFloorsWatched')
  BY <1>0, <1>3, ChecksKeep
<1>4. ASSUME NEW leg \in Leg,
             \/ Act(leg)
             \/ \E id \in Order : Cancel(leg, id) \/ \E qty \in Resizes : Modify(leg, id, qty)
      PROVE  EntryInv' /\ (FixedFloorsWatched => FixedFloorsWatched')
  BY <1>0, <1>4, BookStepsKeep
<1>5. ASSUME NEW boat \in Boat, NEW path \in Paths, NEW n \in 0..Cardinality(DOMAIN book.working),
             NEW ids \in Injection(1..n, DOMAIN book.working), NEW turn \in 1..(Len(path) + 2),
             Pass(boat, path, ids, turn)
      PROVE  EntryInv' /\ FixedFloorsWatched'
  <2>1. n \in Nat
    OBVIOUS
  <2>2. stale' \subseteq Leg /\ unseen' \in BOOLEAN
    BY ChecksTyped
  <2> QED BY <1>5, <2>1, <2>2, PassKeeps, PassWatches
<1> QED BY <1>1, <1>2, <1>3, <1>4, <1>5 DEF EntryNext

\* Before the first pass there is nothing to miss.
LEMMA FixedFloorsWatchedInit == EntryInit => FixedFloorsWatched
BY DEF EntryInit, FixedFloorsWatched, TickResolution

\* For any policies, prices, orders, sockets and boats: under a policy whose
\* floors the interval did not move, judging a pass at its extremes and its
\* close found a breach exactly when reading the account at every print would
\* have (sweeper.rs:1085-1092).
THEOREM FixedFloorsAlwaysWatched == EntrySpec => []FixedFloorsWatched
<1>1. EntryInit => EntryInv /\ FixedFloorsWatched
  BY EntryInvInit, FixedFloorsWatchedInit
<1>2. (EntryInv /\ FixedFloorsWatched) /\ [EntryNext]_entryVars => (EntryInv /\ FixedFloorsWatched)'
  BY EntryInvStep
<1> QED BY <1>1, <1>2, PTL DEF EntrySpec

----------------------------------------------------------------------------
(* The position cap: how far a book reaches.                               *)

Countable(b) ==
  /\ IsBook(b) /\ \A id \in DOMAIN b.working : ~b.working[id].reduceOnly
  /\ IsFiniteSet(Lots(b, 1)) /\ IsFiniteSet(Lots(b, -1))

\* Up and down to where the book reaches if one side fills first.
High(b) == b.pos + Leaves(b, 1)
Low(b) == b.pos - Leaves(b, -1)

\* c reaches no further than b.
Tighter(b, c) == Countable(c) /\ High(c) <= High(b) /\ Low(b) <= Low(c)

Room(b, up, down) == High(b) + up <= policy.cap /\ -policy.cap <= Low(b) - down

\* A submit entering the engine whose cap check counted the book as it stands.
Counted(leg) ==
  At(leg, "entering") /\ leg \notin stale /\ ~command[leg].asked.reduceOnly

\* While no size escaped the checks, the book has room for whatever side fills
\* first, and for any one of the counted orders on top.
CapInv ==
  ~unseen =>
    /\ Countable(book)
    /\ policy.cap > 0 =>
         /\ Room(book, 0, 0)
         /\ \A leg \in Leg : Counted(leg) =>
               Room(book, Share(command[leg].asked, 1), Share(command[leg].asked, -1))

\* How far a book reaches is a number, and its position lies between.
LEMMA Reaches ==
  ASSUME NEW b, Countable(b)
  PROVE  /\ Leaves(b, 1) \in Nat /\ Leaves(b, -1) \in Nat /\ b.pos \in Int
         /\ High(b) \in Int /\ Low(b) \in Int /\ Low(b) <= b.pos /\ b.pos <= High(b)
<1>1. Leaves(b, 1) \in Nat /\ Leaves(b, -1) \in Nat
  BY FS_CardinalityType DEF Countable, Leaves
<1>2. b.pos \in Int
  BY DEF Countable, IsBook
<1> QED BY <1>1, <1>2 DEF High, Low

\* An order adds no more than it asks.
LEMMA ShareNat ==
  ASSUME NEW o \in OrderAsked, NEW side
  PROVE  Share(o, side) \in Nat /\ Share(o, side) <= o.qty
BY DEF Share, OrderAsked

\* Reaching no further is transitive.
LEMMA TighterTrans ==
  ASSUME NEW a, NEW b, NEW c, Countable(a), Tighter(a, b), Tighter(b, c)
  PROVE  Tighter(a, c)
<1>1. Countable(b) /\ Countable(c)
  BY DEF Tighter
<1>2. /\ High(a) \in Int /\ Low(a) \in Int /\ High(b) \in Int /\ Low(b) \in Int
      /\ High(c) \in Int /\ Low(c) \in Int
  BY <1>1, Reaches
<1> QED BY <1>1, <1>2 DEF Tighter

\* What fits a book fits one that reaches no further.
LEMMA TighterFits ==
  ASSUME policy \in Policy, NEW b, NEW c, Countable(b), Tighter(b, c),
         NEW up \in Nat, NEW down \in Nat, Room(b, up, down)
  PROVE  Room(c, up, down)
<1>1. Countable(c)
  BY DEF Tighter
<1>2. High(b) \in Int /\ Low(b) \in Int /\ High(c) \in Int /\ Low(c) \in Int
  BY <1>1, Reaches
<1>3. policy.cap \in Nat
  BY DEF Policy
<1> QED BY <1>2, <1>3 DEF Tighter, Room

\* A book with the same orders and position reaches as far.
LEMMA SameReach ==
  ASSUME NEW b, NEW c, Countable(b), IsBook(c), c.working = b.working, c.pos = b.pos
  PROVE  Tighter(b, c)
<1>1. \A side : Lots(c, side) = Lots(b, side)
  BY DEF Lots, Adding
<1>2. Countable(c)
  BY <1>1 DEF Countable
<1>3. High(c) = High(b) /\ Low(c) = Low(b)
  BY <1>1 DEF High, Low, Leaves
<1>4. High(b) \in Int /\ Low(b) \in Int
  BY Reaches
<1> QED BY <1>2, <1>3, <1>4 DEF Tighter

\* What an order leaves behind when it is taken from the book.
LEMMA TakenOut ==
  ASSUME NEW b, Countable(b), NEW id \in DOMAIN b.working, NEW c, IsBook(c),
         c.working = Restrict(b.working, DOMAIN b.working \ {id})
  PROVE  /\ Countable(c)
         /\ Leaves(b, 1) = Leaves(c, 1) + Share(b.working[id], 1)
         /\ Leaves(b, -1) = Leaves(c, -1) + Share(b.working[id], -1)
<1>1. /\ DOMAIN c.working \subseteq DOMAIN b.working
      /\ \A i \in DOMAIN c.working : c.working[i] = b.working[i]
  BY DEF Restrict
<1>2. IsFiniteSet(Lots(b, 1)) /\ IsFiniteSet(Lots(b, -1)) /\ Worked(b)
  BY DEF Countable, Worked, IsBook
<1>3. IsFiniteSet(Lots(c, 1)) /\ IsFiniteSet(Lots(c, -1))
  BY <1>1, <1>2, LotsShrink
<1>4. Countable(c)
  BY <1>1, <1>3 DEF Countable
<1>5. /\ Leaves(b, 1) = Leaves(c, 1) + Share(b.working[id], 1)
      /\ Leaves(b, -1) = Leaves(c, -1) + Share(b.working[id], -1)
  BY <1>2, <1>3, LotsWithout
<1> QED BY <1>4, <1>5

\* An order that fills moves the position by what it stops adding: the book
\* reaches no further on either side.
LEMMA LeavingTighter ==
  ASSUME NEW b, Countable(b), NEW id \in DOMAIN b.working, NEW c, Leaving(b, id, c)
  PROVE  Tighter(b, c)
<1> DEFINE o == b.working[id]
<1>1. o \in OrderAsked /\ ~o.reduceOnly
  BY DEF Countable, IsBook
<1>2. IsBook(c) /\ c.working = Restrict(b.working, DOMAIN b.working \ {id})
  BY DEF Leaving
<1>3. /\ Countable(c)
      /\ Leaves(b, 1) = Leaves(c, 1) + Share(o, 1)
      /\ Leaves(b, -1) = Leaves(c, -1) + Share(o, -1)
  BY <1>2, TakenOut
<1>4. c.pos = b.pos + o.side * o.qty
  BY <1>1 DEF Leaving
<1>5. /\ Leaves(c, 1) \in Nat /\ Leaves(c, -1) \in Nat /\ b.pos \in Int
  BY <1>3, Reaches
<1>6. o.qty \in Nat /\ o.side \in {1, -1}
  BY <1>1 DEF OrderAsked
<1> HIDE DEF o
<1>7. CASE o.side = 1
  <2>1. Share(o, 1) = o.qty /\ Share(o, -1) = 0 /\ c.pos = b.pos + o.qty
    BY <1>1, <1>4, <1>5, <1>6, <1>7 DEF Share
  <2> QED BY <1>3, <1>5, <1>6, <2>1 DEF Tighter, High, Low
<1>8. CASE o.side = -1
  <2>1. Share(o, 1) = 0 /\ Share(o, -1) = o.qty /\ c.pos = b.pos - o.qty
    BY <1>1, <1>4, <1>5, <1>6, <1>8 DEF Share
  <2> QED BY <1>3, <1>5, <1>6, <2>1 DEF Tighter, High, Low
<1> QED BY <1>6, <1>7, <1>8

\* A cancel takes from one side only.
LEMMA CancelledTighter ==
  ASSUME NEW b, Countable(b), NEW id \in DOMAIN b.working
  PROVE  Tighter(b, Without(b, id))
<1> DEFINE c == Without(b, id)
           o == b.working[id]
<1>1. IsBook(b) /\ o \in OrderAsked
  BY DEF Countable, IsBook
<1>2. /\ IsBook(c) /\ c.working = Restrict(b.working, DOMAIN b.working \ {id})
      /\ c.pos = b.pos
  BY <1>1, WithoutBook
<1> HIDE DEF c
<1>3. /\ Countable(c)
      /\ Leaves(b, 1) = Leaves(c, 1) + Share(o, 1)
      /\ Leaves(b, -1) = Leaves(c, -1) + Share(o, -1)
  BY <1>2, TakenOut
<1>4. Share(o, 1) \in Nat /\ Share(o, -1) \in Nat
  BY <1>1, ShareNat
<1> HIDE DEF o
<1>5. Leaves(c, 1) \in Nat /\ Leaves(c, -1) \in Nat /\ b.pos \in Int
  BY <1>3, Reaches
<1>6. Tighter(b, c)
  BY <1>2, <1>3, <1>4, <1>5 DEF Tighter, High, Low
<1> QED BY <1>6 DEF c

\* However many orders a pass fills, and in whatever order, the book reaches
\* no further than before it.
LEMMA SweptTighter ==
  ASSUME NEW b, Countable(b), NEW N \in Nat, NEW ids \in Injection(1..N, DOMAIN b.working),
         NEW px \in Nat
  PROVE  Tighter(b, Swept(b, ids, px))
<1> DEFINE F == Fills(b, ids, px)
           T == {n \in Nat : n <= N => Tighter(b, F[n])}
<1>1. IsBook(b)
  BY DEF Countable
<1>2. Len(ids) = N /\ OneByOne(F, b, ids, px, N)
  BY <1>1, FillsStep
<1> HIDE DEF F
<1>3. F[0] = b
  BY <1>2 DEF OneByOne
<1>4. \A n \in 1..N : /\ ids[n] \in DOMAIN F[n - 1].working
                      /\ F[n] = FilledOut(F[n - 1], ids[n], px)
  BY <1>2 DEF OneByOne
<1>5. 0 \in T
  BY <1>1, <1>3, SameReach
<1>6. ASSUME NEW n \in Nat, n \in T, n + 1 <= N PROVE Tighter(b, F[n + 1])
  <2> DEFINE c == F[n]
             d == F[n + 1]
  <2>1. n + 1 \in 1..N /\ (n + 1) - 1 = n
    BY <1>6
  <2>2. ids[n + 1] \in DOMAIN c.working /\ d = FilledOut(c, ids[n + 1], px)
    BY <1>4, <2>1
  <2>3. Tighter(b, c)
    BY <1>6
  <2> HIDE DEF c, d
  <2>4. Countable(c) /\ IsBook(c)
    BY <2>3 DEF Tighter, Countable
  <2>5. Leaving(c, ids[n + 1], d)
    BY <2>2, <2>4, FilledOutBook
  <2>6. Tighter(c, d)
    BY <2>2, <2>4, <2>5, LeavingTighter
  <2>7. Tighter(b, d)
    BY <2>3, <2>6, TighterTrans
  <2> QED BY <2>7 DEF d
<1>7. \A n \in Nat : n \in T => n + 1 \in T
  BY <1>6
<1> HIDE DEF T
<1>8. N \in T
  BY <1>5, <1>7, NatSetInduction
<1>9. Tighter(b, F[N])
  BY <1>8 DEF T
<1> QED BY <1>2, <1>9 DEF Swept, F

\* What an order adds when it joins a book.
LEMMA PutIn ==
  ASSUME NEW c, Worked(c), NEW id \in DOMAIN c.working, NEW d, Countable(d),
         d.working = Restrict(c.working, DOMAIN c.working \ {id})
  PROVE  /\ IsFiniteSet(Lots(c, 1)) /\ IsFiniteSet(Lots(c, -1))
         /\ Leaves(c, 1) = Leaves(d, 1) + Share(c.working[id], 1)
         /\ Leaves(c, -1) = Leaves(d, -1) + Share(c.working[id], -1)
<1>1. IsFiniteSet(Lots(d, 1)) /\ IsFiniteSet(Lots(d, -1))
  BY DEF Countable
<1> QED BY <1>1, LotsWithout

\* A modify that grows no order.
LEMMA ResizedTighter ==
  ASSUME NEW b, Countable(b), NEW id \in DOMAIN b.working, NEW c, IsBook(c),
         c.pos = b.pos, DOMAIN c.working = DOMAIN b.working,
         c.working[id].side = b.working[id].side,
         c.working[id].reduceOnly = b.working[id].reduceOnly,
         c.working[id].qty <= b.working[id].qty,
         \A i \in DOMAIN b.working \ {id} : c.working[i] = b.working[i]
  PROVE  Tighter(b, c)
<1> DEFINE o == b.working[id]
           p == c.working[id]
           d == Without(b, id)
<1>1. IsBook(b) /\ o \in OrderAsked /\ p \in OrderAsked
  BY DEF Countable, IsBook
<1>2. p.side = o.side /\ p.reduceOnly = o.reduceOnly /\ p.qty <= o.qty
  OBVIOUS
<1>3. IsBook(d) /\ d.working = Restrict(b.working, DOMAIN b.working \ {id})
  BY <1>1, WithoutBook
<1> HIDE DEF d
<1>4. /\ Countable(d)
      /\ Leaves(b, 1) = Leaves(d, 1) + Share(o, 1)
      /\ Leaves(b, -1) = Leaves(d, -1) + Share(o, -1)
  BY <1>3, TakenOut
<1>5. d.working = Restrict(c.working, DOMAIN c.working \ {id})
  BY <1>3 DEF Restrict
<1>6. Worked(c)
  BY DEF Worked, IsBook
<1>7. /\ IsFiniteSet(Lots(c, 1)) /\ Leaves(c, 1) = Leaves(d, 1) + Share(p, 1)
      /\ IsFiniteSet(Lots(c, -1)) /\ Leaves(c, -1) = Leaves(d, -1) + Share(p, -1)
  BY <1>4, <1>5, <1>6, PutIn
<1>8. ASSUME NEW i \in DOMAIN c.working PROVE ~c.working[i].reduceOnly
  <2>1. \A j \in DOMAIN b.working : ~b.working[j].reduceOnly
    BY DEF Countable
  <2>2. CASE i = id
    BY <1>2, <2>1, <2>2
  <2>3. CASE i # id
    BY <2>1, <2>3
  <2> QED BY <2>2, <2>3
<1>9. Countable(c)
  BY <1>7, <1>8 DEF Countable
<1>10. o.qty \in Nat /\ p.qty \in Nat
  BY <1>1 DEF OrderAsked
<1> HIDE DEF o, p
<1>11. /\ Share(p, 1) \in Nat /\ Share(o, 1) \in Nat /\ Share(p, 1) <= Share(o, 1)
       /\ Share(p, -1) \in Nat /\ Share(o, -1) \in Nat /\ Share(p, -1) <= Share(o, -1)
  BY <1>2, <1>10 DEF Share
<1>12. Leaves(d, 1) \in Nat /\ Leaves(d, -1) \in Nat /\ b.pos \in Int
  BY <1>4, Reaches DEF Countable, IsBook
<1> QED BY <1>4, <1>7, <1>9, <1>11, <1>12 DEF Tighter, High, Low

----------------------------------------------------------------------------
(* The cap check and what it leaves room for.                              *)

\* An empty book can execute nothing.
LEMMA NoLots ==
  ASSUME NEW b, IsBook(b), DOMAIN b.working = {}
  PROVE  Countable(b) /\ Leaves(b, 1) = 0 /\ Leaves(b, -1) = 0
<1>1. Lots(b, 1) = {} /\ Lots(b, -1) = {}
  BY DEF Lots, Adding
<1>2. IsFiniteSet({}) /\ Cardinality({}) = 0
  BY FS_EmptySet
<1> QED BY <1>1, <1>2 DEF Countable, Leaves

\* The policy is one an account may be opened under.
LEMMA CapIsInt == EntryInv => policy \in Policy /\ policy \in Policies /\ policy.cap \in Nat
<1>1. EntryInv => policy \in Policies
  BY DEF EntryInv, EntryTypeOK
<1>2. EntryInv => policy \in Policy
  BY <1>1, RiskAssumption
<1> QED BY <1>1, <1>2 DEF Policy

\* A new account is flat and empty, which fits any cap.
LEMMA CapInvInit == EntryInit => CapInv
<1> SUFFICES ASSUME EntryInit PROVE CapInv
  OBVIOUS
<1>1. EntryInv
  BY EntryInvInit
<1>2. IsBook(book) /\ policy.cap \in Nat
  BY <1>1, CapIsInt DEF EntryInv, EntryTypeOK
<1>3. book.pos = 0 /\ book.working = <<>>
  BY DEF EntryInit
<1>4. Countable(book) /\ Leaves(book, 1) = 0 /\ Leaves(book, -1) = 0
  BY <1>2, <1>3, NoLots
<1>5. Room(book, 0, 0)
  BY <1>2, <1>3, <1>4 DEF Room, High, Low
<1>6. \A leg \in Leg : ~Counted(leg)
  BY DEF EntryInit, Counted, At, Idle
<1> QED BY <1>4, <1>5, <1>6 DEF CapInv

\* What a command entering the engine asks of the room.
Asked(leg, side) == Share(command[leg].asked, side)

\* What an entering command asks for is an order.
LEMMA AskedNat ==
  ASSUME EntryInv, NEW leg \in Leg, Counted(leg)
  PROVE  Asked(leg, 1) \in Nat /\ Asked(leg, -1) \in Nat
<1>1. command[leg].asked \in OrderAsked
  BY CommandIs DEF Counted, At
<1> QED BY <1>1, ShareNat DEF Asked

\* A step that reaches no further, and has no other order counted, keeps the
\* room.
LEMMA TighterKeeps ==
  ASSUME EntryInv, CapInv, ~unseen, Tighter(book, book'), policy' = policy,
         \A leg \in Leg : Counted(leg)' => Counted(leg) /\ command'[leg] = command[leg]
  PROVE  CapInv'
<1>1. Countable(book) /\ Countable(book')
  BY DEF CapInv, Tighter
<1>2. policy \in Policy
  BY CapIsInt
<1> SUFFICES ASSUME policy.cap > 0
             PROVE  /\ Room(book', 0, 0)
                    /\ \A leg \in Leg : Counted(leg)' => Room(book', Asked(leg, 1), Asked(leg, -1))
  BY <1>1 DEF CapInv, Room, Asked
<1>3. Room(book, 0, 0)
  BY DEF CapInv
<1>4. Room(book', 0, 0)
  BY <1>1, <1>2, <1>3, TighterFits
<1>5. ASSUME NEW leg \in Leg, Counted(leg)' PROVE Room(book', Asked(leg, 1), Asked(leg, -1))
  <2>1. Counted(leg)
    BY <1>5
  <2>2. Room(book, Asked(leg, 1), Asked(leg, -1))
    BY <2>1 DEF CapInv, Asked
  <2>3. Asked(leg, 1) \in Nat /\ Asked(leg, -1) \in Nat
    BY <2>1, AskedNat
  <2> QED BY <1>1, <1>2, <2>2, <2>3, TighterFits
<1> QED BY <1>4, <1>5

\* The cap check leaves room for what it passes.
LEMMA CheckCapKeeps ==
  ASSUME EntryInv, CapInv, NEW leg \in Leg, CheckCap(leg)
  PROVE  CapInv'
<1> SUFFICES ASSUME ~unseen PROVE CapInv'
  BY DEF CheckCap, CapInv
<1> DEFINE o == command[leg].asked
<1>1. o \in OrderAsked
  BY CommandIs DEF CheckCap, At
<1>2. UNCHANGED <<policy, book, stale, unseen>> /\ Countable(book)
  BY DEF CheckCap, Sweeping, CapInv
<1>3. command \in [Leg -> {Idle} \cup Commands]
  BY DEF EntryInv, EntryTypeOK, Commands
<1>4. command[leg] \in Commands
  BY CommandIs DEF CheckCap, At
<1>5. CASE OverCap(o)
  <2>1. command' = [command EXCEPT ![leg] = Idle]
    BY <1>5 DEF CheckCap, Command
  <2>2. \A l \in Leg : Counted(l)' => Counted(l) /\ command'[l] = command[l]
    BY <1>2, <1>3, <2>1 DEF Counted, At, Idle
  <2>3. Tighter(book, book')
    BY <1>2, SameReach DEF Countable
  <2> QED BY <1>2, <2>2, <2>3, TighterKeeps
<1>6. CASE ~OverCap(o)
  <2> DEFINE c == [command[leg] EXCEPT !.stage = "entering"]
  <2>1. command' = [command EXCEPT ![leg] = c] /\ c.asked = o
    BY <1>4, <1>6 DEF CheckCap, Staged, Command, Commands
  <2> HIDE DEF c
  <2>2. \A l \in Leg : l # leg => command'[l] = command[l]
    BY <1>3, <2>1
  <2>3. command'[leg].asked = o
    BY <1>3, <2>1
  <2>4. ASSUME policy.cap > 0, ~o.reduceOnly PROVE Room(book, Share(o, 1), Share(o, -1))
    <3> HIDE DEF o
    <3>1. Projected(book, o) <= policy.cap
      <4>1. ~(Projected(book, o) > policy.cap)
        BY <1>6, <2>4 DEF OverCap
      <4>2. Projected(book, o) \in Int
        <5>1. /\ Leaves(book, 1) \in Nat /\ Leaves(book, -1) \in Nat /\ book.pos \in Int
          BY <1>2, Reaches
        <5>2. o.qty \in Nat
          BY <1>1 DEF OrderAsked
        <5> QED BY <5>1, <5>2 DEF Projected, Larger, Size
      <4>3. policy.cap \in Nat
        BY CapIsInt
      <4> QED BY <4>1, <4>2, <4>3
    <3>2. /\ Leaves(book, 1) \in Nat /\ Leaves(book, -1) \in Nat /\ book.pos \in Int
      BY <1>2, Reaches
    <3>3. policy.cap \in Nat
      BY CapIsInt
    <3>4. o.qty \in Nat /\ o.side \in {1, -1}
      BY <1>1 DEF OrderAsked
    <3>5. /\ Share(o, 1) = IF o.side = 1 THEN o.qty ELSE 0
          /\ Share(o, -1) = IF o.side = -1 THEN o.qty ELSE 0
      BY <2>4 DEF Share
    <3> DEFINE up == book.pos + (Leaves(book, 1) + Share(o, 1))
               down == book.pos - (Leaves(book, -1) + Share(o, -1))
    <3>6. up \in Int /\ down \in Int
      BY <3>2, <3>4, <3>5
    <3>7. Projected(book, o) = Larger(Size(up), Size(down))
      BY <3>5 DEF Projected
    <3> HIDE DEF up, down
    <3>8. up <= policy.cap /\ -policy.cap <= down
      BY <3>1, <3>3, <3>6, <3>7 DEF Larger, Size
    <3> QED BY <3>2, <3>3, <3>4, <3>5, <3>8 DEF Room, High, Low, up, down
  <2>5. \A l \in Leg : l # leg => (Counted(l)' <=> Counted(l))
    BY <1>2, <2>2 DEF Counted, At
  <2>7. Counted(leg)' => ~o.reduceOnly
    BY <2>3 DEF Counted
  <2> HIDE DEF o
  <2>6. ASSUME policy'.cap > 0, NEW l \in Leg, Counted(l)'
        PROVE  Room(book, Share(command'[l].asked, 1), Share(command'[l].asked, -1))
    <3>1. CASE l = leg
      BY <1>2, <2>3, <2>4, <2>6, <2>7, <3>1
    <3>2. CASE l # leg
      BY <1>2, <2>2, <2>5, <2>6, <3>2 DEF CapInv
    <3> QED BY <3>1, <3>2
  <2> QED BY <1>2, <2>6 DEF CapInv, Room, Countable, High, Low, Leaves, Lots, Adding, Worked
<1> QED BY <1>5, <1>6

----------------------------------------------------------------------------
(* The engine, the account's commands and the sweep keep the room.         *)

\* The engine takes a counted order: no other one entering is counted any more.
\* One that was not counted leaves size the checks have not seen.
LEMMA ActKeeps ==
  ASSUME EntryInv, CapInv, NEW leg \in Leg, Act(leg)
  PROVE  CapInv'
<1> DEFINE o == command[leg].asked
           id == command[leg].id
<1>0. unseen' = (unseen \/ o.reduceOnly \/ leg \in stale)
  BY DEF Act
<1> SUFFICES ASSUME ~unseen, ~o.reduceOnly, leg \notin stale PROVE CapInv'
  BY <1>0 DEF CapInv
<1>1. o \in OrderAsked /\ ~o.reduceOnly /\ id \in Order
  BY CommandIs DEF Act, At
<1>2. Counted(leg) /\ policy' = policy /\ Countable(book) /\ IsBook(book)
  BY DEF Act, Counted, Sweeping, CapInv, Countable
<1>3. \A l \in Leg : ~Counted(l)'
  <2>1. stale' = Entering \ {leg}
    BY DEF Act
  <2>2. command' = [command EXCEPT ![leg] = Idle] /\ DOMAIN command = Leg
    BY DEF Act, Command, EntryInv, EntryTypeOK
  <2>3. ~At(leg, "entering")'
    BY <2>2 DEF At, Idle
  <2>4. ASSUME NEW l \in Leg, l # leg, At(l, "entering")' PROVE l \in stale'
    <3>1. command'[l] = command[l]
      BY <2>2, <2>4
    <3>2. l \in Entering
      BY <2>4, <3>1 DEF Entering, At
    <3> QED BY <2>1, <2>4, <3>2
  <2> QED BY <2>3, <2>4 DEF Counted
<1>4. policy.cap \in Nat
  BY CapIsInt
<1>5. policy.cap > 0 => Room(book, Share(o, 1), Share(o, -1))
  BY <1>2 DEF CapInv
<1>6. o.qty \in Nat /\ o.side \in {1, -1}
  BY <1>1 DEF OrderAsked
<1>7. /\ Leaves(book, 1) \in Nat /\ Leaves(book, -1) \in Nat /\ book.pos \in Int
  BY <1>2, Reaches
<1>8. /\ Share(o, 1) = (IF o.side = 1 THEN o.qty ELSE 0)
      /\ Share(o, -1) = (IF o.side = -1 THEN o.qty ELSE 0)
  BY <1>1 DEF Share
<1> HIDE DEF o, id
<1> SUFFICES Countable(book') /\ (policy.cap > 0 => Room(book', 0, 0))
  BY <1>2, <1>3 DEF CapInv, Room
<1>9. CASE book' = Filled(book, o, book.mark)
  <2>1. /\ IsBook(book') /\ book'.working = book.working
        /\ book'.pos = book.pos + o.side * o.qty
    <3>1. book.mark \in Nat
      BY <1>2 DEF IsBook
    <3> QED BY <1>1, <1>2, <1>9, <3>1, FilledBook
  <2>2. \A side : Lots(book', side) = Lots(book, side)
    BY <2>1 DEF Lots, Adding
  <2>3. Leaves(book', 1) = Leaves(book, 1) /\ Leaves(book', -1) = Leaves(book, -1)
    BY <2>2 DEF Leaves
  <2>4. Countable(book')
    BY <1>2, <2>1, <2>2 DEF Countable
  <2>5. o.side * o.qty = Share(o, 1) - Share(o, -1)
    <3>1. CASE o.side = 1
      BY <1>6, <1>8, <3>1
    <3>2. CASE o.side = -1
      BY <1>6, <1>8, <3>2
    <3> QED BY <1>6, <3>1, <3>2
  <2>6. Share(o, 1) \in Nat /\ Share(o, -1) \in Nat
    BY <1>6, <1>8
  <2>7. book'.pos = book.pos + Share(o, 1) - Share(o, -1)
    BY <1>6, <1>7, <2>1, <2>5, <2>6
  <2> QED BY <1>4, <1>5, <1>7, <2>3, <2>4, <2>6, <2>7 DEF Room, High, Low
<1>10. CASE book' = Rested(book, id, o)
  <2> DEFINE w == [i \in DOMAIN book.working \cup {id} |->
                     IF i \in DOMAIN book.working THEN book.working[i] ELSE o]
  <2>1. book' = [book EXCEPT !.working = w]
    BY <1>10 DEF Rested
  <2>2. IsBook(book')
    BY BookStepsKeep DEF EntryInv, EntryTypeOK
  <2>3. DOMAIN w = DOMAIN book.working \cup {id}
    OBVIOUS
  <2>4. \A i \in DOMAIN book.working : w[i] = book.working[i]
    OBVIOUS
  <2>5. id \notin DOMAIN book.working => w[id] = o
    OBVIOUS
  <2> HIDE DEF w
  <2>6. book'.working = w /\ book'.pos = book.pos
    BY <1>2, <2>1 DEF IsBook
  <2>7. CASE id \in DOMAIN book.working
    <3>1. w = book.working
      <4>1. \A i \in DOMAIN book.working : i \in DOMAIN w /\ w[i] = book.working[i]
        BY <2>3, <2>4
      <4>2. DOMAIN w = DOMAIN book.working
        BY <2>3, <2>7
      <4>3. w = [i \in DOMAIN w |-> w[i]] /\ book.working = [i \in DOMAIN book.working |-> book.working[i]]
        BY <1>2, <2>2, <2>6 DEF IsBook
      <4> QED BY <4>1, <4>2, <4>3
    <3>2. Tighter(book, book')
      BY <1>2, <2>2, <2>6, <3>1, SameReach
    <3>3. /\ policy \in Policy /\ Share(o, 1) \in Nat /\ Share(o, -1) \in Nat
      BY <1>6, <1>8, CapIsInt
    <3>4. policy.cap > 0 => Room(book, 0, 0)
      BY DEF CapInv
    <3>5. policy.cap > 0 => Room(book', 0, 0)
      BY <1>2, <3>2, <3>3, <3>4, TighterFits
    <3> QED BY <3>2, <3>5 DEF Tighter
  <2>8. CASE id \notin DOMAIN book.working
    <3>1. book'.working[id] = o /\ id \in DOMAIN book'.working
      BY <2>3, <2>5, <2>6, <2>8
    <3>2. book.working = Restrict(book'.working, DOMAIN book'.working \ {id})
      <4>1. DOMAIN book'.working \ {id} = DOMAIN book.working
        BY <2>3, <2>6, <2>8
      <4>2. book.working = [i \in DOMAIN book.working |-> book.working[i]]
        BY <1>2 DEF IsBook
      <4>3. \A i \in DOMAIN book.working : book'.working[i] = book.working[i]
        BY <2>4, <2>6
      <4> QED BY <4>1, <4>2, <4>3 DEF Restrict
    <3>3. Worked(book')
      BY <2>2 DEF IsBook, Worked
    <3>4. /\ IsFiniteSet(Lots(book', 1)) /\ IsFiniteSet(Lots(book', -1))
          /\ Leaves(book', 1) = Leaves(book, 1) + Share(book'.working[id], 1)
          /\ Leaves(book', -1) = Leaves(book, -1) + Share(book'.working[id], -1)
      BY <1>2, <3>1, <3>2, <3>3, PutIn
    <3>5. \A i \in DOMAIN book'.working : ~book'.working[i].reduceOnly
      <4>1. \A i \in DOMAIN book.working : ~book.working[i].reduceOnly
        BY <1>2 DEF Countable
      <4> QED BY <1>1, <2>3, <2>4, <2>6, <3>1, <4>1 DEF o
    <3>6. Countable(book')
      BY <2>2, <3>4, <3>5 DEF Countable
    <3>7. Share(o, 1) \in Nat /\ Share(o, -1) \in Nat
      BY <1>6, <1>8
    <3> QED BY <1>4, <1>5, <1>7, <2>6, <3>1, <3>4, <3>6, <3>7 DEF Room, High, Low
  <2> QED BY <2>7, <2>8
<1> QED BY <1>9, <1>10 DEF Act, o, id

\* A cancel keeps the room.
LEMMA CancelKeeps ==
  ASSUME EntryInv, CapInv, NEW leg \in Leg, NEW id \in Order, Cancel(leg, id)
  PROVE  CapInv'
<1> SUFFICES ASSUME ~unseen PROVE CapInv'
  BY DEF Cancel, CapInv
<1>1. book' = Without(book, id) /\ id \in DOMAIN book.working
  BY DEF Cancel
<1>2. UNCHANGED <<policy, command, stale>>
  BY DEF Cancel, Sweeping
<1>3. Tighter(book, book')
  BY <1>1, CancelledTighter DEF CapInv
<1>4. \A l \in Leg : Counted(l)' => Counted(l) /\ command'[l] = command[l]
  BY <1>2 DEF Counted, At
<1> QED BY <1>2, <1>3, <1>4, TighterKeeps

\* A modify that grows no order keeps the room; one that grows it is not seen.
LEMMA ModifyKeeps ==
  ASSUME EntryInv, CapInv, NEW leg \in Leg, NEW id \in Order, NEW qty \in Resizes,
         Modify(leg, id, qty)
  PROVE  CapInv'
<1>0. unseen' = (unseen \/ qty > book.working[id].qty)
  BY DEF Modify
<1> SUFFICES ASSUME ~unseen, ~(qty > book.working[id].qty) PROVE CapInv'
  BY <1>0 DEF CapInv
<1>1. book' = [book EXCEPT !.working[id].qty = qty] /\ id \in DOMAIN book.working
  BY DEF Modify
<1>2. UNCHANGED <<policy, command, stale>>
  BY DEF Modify, Sweeping
<1>3. IsBook(book') /\ IsBook(book) /\ Countable(book)
  <2>1. EntryInv'
    BY BookStepsKeep
  <2> QED BY <2>1 DEF EntryInv, EntryTypeOK, CapInv
<1> DEFINE w == [book.working EXCEPT ![id].qty = qty]
<1>4. book' = [book EXCEPT !.working = w]
  BY <1>1
<1>5. /\ DOMAIN w = DOMAIN book.working
      /\ \A i \in DOMAIN book.working \ {id} : w[i] = book.working[i]
      /\ w[id] = [book.working[id] EXCEPT !.qty = qty]
  BY <1>1, <1>3 DEF IsBook
<1>6. book.working[id] \in OrderAsked
  BY <1>1, <1>3 DEF IsBook
<1>7. w[id].side = book.working[id].side /\ w[id].reduceOnly = book.working[id].reduceOnly
  BY <1>5, <1>6 DEF OrderAsked
<1> HIDE DEF w
<1>8. book'.working = w /\ book'.pos = book.pos
  BY <1>3, <1>4 DEF IsBook
<1>9. book'.working[id].qty <= book.working[id].qty
  <2>1. qty \in Nat /\ book.working[id].qty \in Nat
    BY <1>6, EntryAssumption DEF OrderAsked
  <2>2. book'.working[id].qty = qty
    BY <1>5, <1>6, <1>8 DEF OrderAsked
  <2> QED BY <2>1, <2>2
<1>10. Tighter(book, book')
  BY <1>1, <1>3, <1>5, <1>7, <1>8, <1>9, ResizedTighter
<1>11. \A l \in Leg : Counted(l)' => Counted(l) /\ command'[l] = command[l]
  BY <1>2 DEF Counted, At
<1> QED BY <1>2, <1>10, <1>11, TighterKeeps

\* A liquidated book is flat and empty, and the checks of the orders entering
\* are of another one.
LEMMA LiquidatedKeeps ==
  ASSUME EntryInv, NEW b, IsBook(b), book' = Liquidated(b), UNCHANGED <<policy, command>>,
         stale' = Entering
  PROVE  CapInv'
<1>1. IsBook(book') /\ book'.pos = 0 /\ DOMAIN book'.working = {}
  BY LiquidatedBook
<1>2. Countable(book') /\ Leaves(book', 1) = 0 /\ Leaves(book', -1) = 0
  BY <1>1, NoLots
<1>3. policy.cap \in Nat
  BY CapIsInt
<1>4. High(book') = 0 /\ Low(book') = 0
  BY <1>1, <1>2 DEF High, Low
<1>5. \A leg \in Leg : ~Counted(leg)'
  BY DEF Counted, At, Entering
<1>6. policy.cap > 0 => Room(book', 0, 0)
  BY <1>3, <1>4 DEF Room
<1> QED BY <1>2, <1>5, <1>6 DEF CapInv, Room

\* A pass keeps the room: its fills, or the liquidation its verdict calls for.
LEMMA PassKeepsCap ==
  ASSUME EntryInv, CapInv, NEW boat \in Boat, NEW path \in Paths, NEW N \in Nat,
         NEW ids \in Injection(1..N, DOMAIN book.working),
         NEW turn \in 1..(Len(path) + 2), Pass(boat, path, ids, turn)
  PROVE  CapInv'
<1>1. path \in Seq(Nat) /\ policy \in Policy
  BY PassTimes
<1>2. UNCHANGED <<policy, command>>
  BY DEF Pass
<1>3. book.mark \in Nat /\ IsBook(book)
  BY DEF EntryInv, EntryTypeOK, IsBook
<1>4. PICK px \in (IF ids = <<>> THEN {book.mark} ELSE Range(path)) :
            Passed(Marked(Swept(book, ids, px), path), path,
                   Dates(boat, path, turn), Closes(boat, path, turn))
  BY PassIs
<1>5. px \in Nat
  <2>1. Range(path) \subseteq Nat
    BY <1>1 DEF Range
  <2> QED BY <1>3, <2>1
<1> DEFINE c == Swept(book, ids, px)
           b == Marked(c, path)
<1>6. Countable(book) => Tighter(book, c)
  BY <1>5, SweptTighter
<1>7. IsBook(c)
  <2>1. Thinned(book, c)
    BY <1>3, <1>5, SweptBook
  <2> HIDE DEF c
  <2> QED BY <2>1 DEF Thinned
<1> HIDE DEF c
<1>8. IsBook(b) /\ b.working = c.working /\ b.pos = c.pos
  BY <1>1, <1>7, MarkedBook
<1> HIDE DEF b
<1>9. PICK fired : /\ book' = IF fired THEN Liquidated(b) ELSE b
                   /\ stale' = IF fired THEN Entering ELSE stale
                   /\ unseen' = (unseen /\ ~fired)
  <2>1. Passed(b, path, Dates(boat, path, turn), Closes(boat, path, turn))
    BY <1>4 DEF b, c
  <2> QED BY <2>1 DEF Passed
<1>10. CASE fired
  BY <1>2, <1>8, <1>9, <1>10, LiquidatedKeeps
<1>11. CASE ~fired /\ unseen
  BY <1>9, <1>11 DEF CapInv
<1>12. CASE ~fired /\ ~unseen
  <2>1. Countable(book)
    BY <1>12 DEF CapInv
  <2>2. Tighter(book, c) /\ Countable(c)
    BY <1>6, <2>1 DEF Tighter
  <2>3. Tighter(c, b)
    BY <1>8, <2>2, SameReach
  <2>4. Tighter(book, book')
    BY <1>9, <1>12, <2>1, <2>2, <2>3, TighterTrans
  <2>5. \A l \in Leg : Counted(l)' => Counted(l) /\ command'[l] = command[l]
    BY <1>2, <1>9, <1>12 DEF Counted, At
  <2> QED BY <1>2, <1>12, <2>4, <2>5, TighterKeeps
<1> QED BY <1>10, <1>11, <1>12

\* A submit's other steps change no book and let nothing into the engine.
LEMMA WaitingKeeps ==
  ASSUME EntryInv, CapInv, NEW leg \in Leg,
         (\E id \in Order, asked \in Submit : CheckLock(leg, id, asked)) \/ Refuse(leg)
  PROVE  CapInv'
<1>0. unseen' = unseen
  BY DEF CheckLock, Refuse
<1> SUFFICES ASSUME ~unseen PROVE CapInv'
  BY <1>0 DEF CapInv
<1>1. UNCHANGED <<policy, book>>
  BY DEF CheckLock, Refuse, Sweeping
<1>2. \/ command' = command
      \/ \E c : c.stage # "entering" /\ command' = [command EXCEPT ![leg] = c]
  BY DEF CheckLock, Refuse, Command, Idle
<1>3. DOMAIN command = Leg
  BY DEF EntryInv, EntryTypeOK
<1>4. \A l \in Leg : Counted(l)' => Counted(l) /\ command'[l] = command[l]
  <2>1. \A l \in Leg : At(l, "entering")' => At(l, "entering") /\ command'[l] = command[l]
    BY <1>2, <1>3 DEF At
  <2>2. ASSUME NEW l \in Leg, Counted(l)' PROVE l \notin stale
    <3>1. At(l, "entering") /\ l \notin stale'
      BY <2>1, <2>2 DEF Counted
    <3>2. stale' = stale \/ (Refuse(leg) /\ stale' = stale \ {leg})
      BY DEF CheckLock, Refuse
    <3>3. Refuse(leg) => ~At(leg, "entering")'
      BY <1>3 DEF Refuse, Command, At, Idle
    <3> QED BY <2>2, <3>1, <3>2, <3>3 DEF Counted
  <2> QED BY <2>1, <2>2 DEF Counted
<1>5. Tighter(book, book')
  <2>1. Countable(book)
    BY DEF CapInv
  <2>2. Tighter(book, book)
    BY <2>1, SameReach DEF Countable
  <2> QED BY <1>1, <2>2
<1> QED BY <1>1, <1>4, <1>5, TighterKeeps

\* Every step keeps the room.
LEMMA CapInvStep ==
  ASSUME EntryInv, CapInv, [EntryNext]_entryVars
  PROVE  CapInv'
<1>1. CASE UNCHANGED entryVars /\ unseen
  BY <1>1 DEF entryVars, CapInv
<1>2. CASE UNCHANGED entryVars /\ ~unseen
  <2>1. UNCHANGED <<policy, book, command, stale>>
    BY <1>2 DEF entryVars
  <2>2. \A l \in Leg : Counted(l)' => Counted(l) /\ command'[l] = command[l]
    BY <2>1 DEF Counted, At
  <2>3. Tighter(book, book)
    <3>1. Countable(book)
      BY <1>2 DEF CapInv
    <3> QED BY <3>1, SameReach DEF Countable
  <2>4. Tighter(book, book')
    BY <2>1, <2>3
  <2> QED BY <1>2, <2>1, <2>2, <2>4, TighterKeeps
<1>3. CASE EntryNext
  <2>1. ASSUME NEW leg \in Leg, NEW id \in Order, NEW asked \in Submit, CheckLock(leg, id, asked)
        PROVE  CapInv'
    BY <2>1, WaitingKeeps
  <2>2. ASSUME NEW leg \in Leg, CheckCap(leg) \/ Act(leg) \/ Refuse(leg) PROVE CapInv'
    BY <2>2, CheckCapKeeps, ActKeeps, WaitingKeeps
  <2>3. ASSUME NEW leg \in Leg, NEW id \in Order, Cancel(leg, id) PROVE CapInv'
    BY <2>3, CancelKeeps
  <2>4. ASSUME NEW leg \in Leg, NEW id \in Order, NEW qty \in Resizes, Modify(leg, id, qty)
        PROVE  CapInv'
    BY <2>4, ModifyKeeps
  <2>5. ASSUME NEW boat \in Boat, NEW path \in Paths, NEW n \in 0..Cardinality(DOMAIN book.working),
               NEW ids \in Injection(1..n, DOMAIN book.working), NEW turn \in 1..(Len(path) + 2),
               Pass(boat, path, ids, turn)
        PROVE  CapInv'
    <3>1. n \in Nat
      OBVIOUS
    <3> QED BY <2>5, <3>1, PassKeepsCap
  <2> QED BY <1>3, <2>1, <2>2, <2>3, <2>4, <2>5 DEF EntryNext
<1> QED BY <1>1, <1>2, <1>3 DEF entryVars

\* Room for every order is room for the position.
LEMMA CapInvSafe == EntryInv /\ CapInv => CapHolds
<1> SUFFICES ASSUME EntryInv, CapInv, policy.cap > 0, ~unseen PROVE Size(book.pos) <= policy.cap
  BY DEF CapHolds
<1>1. Countable(book) /\ Room(book, 0, 0)
  BY DEF CapInv
<1>2. book.pos \in Int /\ Low(book) <= book.pos /\ book.pos <= High(book)
      /\ High(book) \in Int /\ Low(book) \in Int
  BY <1>1, Reaches
<1>3. policy.cap \in Nat
  BY CapIsInt
<1> QED BY <1>1, <1>2, <1>3 DEF Room, Size

\* For any policies, orders, sockets, boats and prices: whatever order the
\* working orders fill in, and whatever fills, cancels, sweeps and liquidations
\* come between a submit's cap check and the engine, the position stays inside
\* the policy's cap (config.md:391-394) for as long as every order in the book
\* was counted by a check of the book it joined. The traffic is any the code
\* admits: several sockets, reduce-only orders, resizes upward and orders larger
\* than the cap. What the checks miss is in `unseen`, until a breach empties the
\* book: then the cap holds again.
THEOREM CapAlwaysHolds == EntrySpec => []CapHolds
<1>1. EntryInit => EntryInv /\ CapInv
  BY EntryInvInit, CapInvInit
<1>2. EntryInv /\ CapInv /\ [EntryNext]_entryVars => EntryInv' /\ CapInv'
  BY EntryInvStep, CapInvStep
<1>3. EntryInv /\ CapInv => CapHolds
  BY CapInvSafe
<1> QED BY <1>1, <1>2, <1>3, PTL DEF EntrySpec
=============================================================================
