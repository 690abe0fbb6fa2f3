--------------------------- MODULE Outbound_proofs ---------------------------
(***************************************************************************)
(* No permit is lost or returned twice and no answer misleads, for any     *)
(* number of commands and any size of budget, lanes and channel.           *)
(*                                                                         *)
(* IInv has three parts.  Loads: what each lane carries, what is reserved  *)
(* for whom, and the budgets' sums.  Stations and Places: each command is  *)
(* at the one place its fate names, in the order the peer sent it, and     *)
(* holds a slot there.  Told: what is on its way to the peer is in the     *)
(* same order, behind what the peer heard and ahead of what is not         *)
(* decided; the peer is told only of what was done.                        *)
(***************************************************************************)
EXTENDS Outbound, SequenceTheorems, FiniteSetTheorems, TLAPS

AnyFrame == Frame \cup {NoFrame}

Typed ==
  /\ fate \in [Commands -> Fates] /\ heard \subseteq Commands
  /\ walked \subseteq Commands
  /\ queue \in Seq(Commands) /\ Len(queue) <= QueueRoom
  /\ worker \in Worker /\ page \in Page
  /\ sweep \in [reserved : 0..Worst, frames : 0..Worst]
  /\ bytes \in Nat /\ tickets \in Nat /\ slots \in Nat
  /\ held \in Seq(Frame) /\ prio \in Seq(Frame)
  /\ out \in Seq(Frame) /\ Len(out) <= Room
  /\ pump \in Carrier /\ writer \in Carrier
  /\ loop \in {"reading", "announcing", "closing", "leaving", "gone"}
  /\ notified \in BOOLEAN /\ peer \in {"reading", "stopped", "gone"}
  /\ sweeps \in 0..MaxInputs

\* Each lane carries frames of its own kinds, and who carries nothing has none
\* in hand.
Onto(frames, kinds) == \A i \in DOMAIN frames : frames[i].kind \in kinds
Carries(c) == IF c.step = "carrying" THEN c.frame \in Frame ELSE c.frame = NoFrame
Lanes ==
  /\ Onto(held, Charged)
  /\ Onto(out, Charged \cup {"beat", "final", "close"})
  /\ Onto(prio, Ticketed \cup {"close"})
  /\ pump.frame.kind \in Charged \cup {"none"}
  /\ Carries(pump) /\ Carries(writer)

\* Only what is being published is reserved for, and it fits.
Reserved ==
  /\ worker.step # "publishing" => worker.reserved = 0
  /\ worker.step = "publishing" => worker.frames \in 1..worker.reserved
  /\ sweep.frames <= sweep.reserved

\* The commands read are the first ones sent.  Those queued wait in the order
\* they were sent, behind the one the dispatcher has; a page in flight or
\* walked is of a command whose fate it is to be paged.
Busy == worker.step \in {"deciding", "publishing"}
ReadInOrder == \A c, d \in Commands : c < d /\ fate[d] # "unread" => fate[c] # "unread"
Queued == /\ \A i, j \in DOMAIN queue : i < j => queue[i] < queue[j]
          /\ \A i \in DOMAIN queue : fate[queue[i]] = "queued"
Deciding == /\ Busy => /\ worker.cmd \in Commands
                       /\ \A i \in DOMAIN queue : worker.cmd < queue[i]
            /\ ~Busy => worker.cmd = 0
            /\ worker.step = "deciding" => fate[worker.cmd] = "deciding"
            /\ worker.step = "publishing" => fate[worker.cmd] \in {"refused", "acted"}
Paging == /\ page.step # "none" => /\ page.cmd \in Commands \ walked
                                   /\ fate[page.cmd] = "paging"
          /\ \A c \in walked : fate[c] = "paging"
Stations == ReadInOrder /\ Queued /\ Deciding /\ Paging

\* The commands these frames answer, and those up to which the peer has heard.
Said(frames) == {frames[i].cmd : i \in {j \in DOMAIN frames : frames[j].kind = "answer"}}
UpTo(S, T) == \A c \in S, d \in T : c <= d
Sorted(frames) == \A i, j \in DOMAIN frames :
  i < j /\ frames[i].kind = "answer" /\ frames[j].kind = "answer" =>
    frames[i].cmd <= frames[j].cmd

Carried(c) == Said(<<c.frame>>)
Spoken == heard \cup Carried(writer) \cup Said(out) \cup Carried(pump) \cup Said(held)

InLine ==
  /\ Sorted(out) /\ Sorted(held)
  /\ UpTo(heard, Carried(writer) \cup Said(out) \cup Carried(pump) \cup Said(held))
  /\ UpTo(Carried(writer), Said(out) \cup Carried(pump) \cup Said(held))
  /\ UpTo(Said(out), Carried(pump) \cup Said(held))
  /\ UpTo(Carried(pump), Said(held))

\* Ahead of what is not decided.
Decided == \A c \in Spoken :
  /\ c \in Commands /\ fate[c] \in {"refused", "acted"}
  /\ Busy => c < worker.cmd
  /\ \A i \in DOMAIN queue : c < queue[i]

PumpStays == pump.step = "ended" => ~Listening \/ loop \in {"leaving", "gone"}
ActedIsTold == \A c \in Commands :
  fate[c] = "acted" /\ Listening /\ loop \notin {"leaving", "gone"} =>
    c = worker.cmd \/ c \in Spoken

Told == InLine /\ Decided /\ RetryIsSafe /\ PumpStays /\ ActedIsTold
----------------------------------------------------------------------------
(* Counting frames.                                                        *)

LEMMA CountType ==
  ASSUME NEW s \in Seq(AnyFrame), NEW kinds
  PROVE  /\ IsFiniteSet({i \in DOMAIN s : s[i].kind \in kinds})
         /\ Count(s, kinds) \in Nat
<1>1. DOMAIN s = 1..Len(s) /\ Len(s) \in Nat
  BY LenProperties
<1>2. IsFiniteSet(1..Len(s))
  BY <1>1, FS_Interval
<1>3. {i \in DOMAIN s : s[i].kind \in kinds} \subseteq 1..Len(s)
  BY <1>1
<1> QED
  BY <1>2, <1>3, FS_Subset, FS_CardinalityType DEF Count

LEMMA CountNone ==
  ASSUME NEW s \in Seq(AnyFrame), NEW kinds, \A i \in DOMAIN s : s[i].kind \notin kinds
  PROVE  Count(s, kinds) = 0
<1>1. {i \in DOMAIN s : s[i].kind \in kinds} = {}
  OBVIOUS
<1> QED
  BY <1>1, FS_EmptySet DEF Count

LEMMA CountOne ==
  ASSUME NEW f \in AnyFrame, NEW kinds
  PROVE  Count(<<f>>, kinds) = IF f.kind \in kinds THEN 1 ELSE 0
<1>1. CASE f.kind \in kinds
  <2>1. {i \in DOMAIN <<f>> : <<f>>[i].kind \in kinds} = {1}
    BY <1>1
  <2> QED
    BY <1>1, <2>1, FS_Singleton DEF Count
<1>2. CASE f.kind \notin kinds
  <2>1. {i \in DOMAIN <<f>> : <<f>>[i].kind \in kinds} = {}
    BY <1>2
  <2> QED
    BY <1>2, <2>1, FS_EmptySet DEF Count
<1> QED
  BY <1>1, <1>2

LEMMA CountCopies ==
  ASSUME NEW f \in AnyFrame, NEW kinds, f.kind \in kinds, NEW n \in Nat
  PROVE  Count([i \in 1..n |-> f], kinds) = n
<1>1. {j \in DOMAIN [i \in 1..n |-> f] : [i \in 1..n |-> f][j].kind \in kinds} = 1..n
  OBVIOUS
<1>2. Cardinality(1..n) = n
  BY FS_Interval
<1> QED
  BY <1>1, <1>2 DEF Count

LEMMA DisjointUnion ==
  ASSUME NEW S, NEW T, IsFiniteSet(S), IsFiniteSet(T), S \cap T = {}
  PROVE  Cardinality(S \cup T) = Cardinality(S) + Cardinality(T)
<1>1. Cardinality(S \cup T) = Cardinality(S) + Cardinality(T) - Cardinality(S \cap T)
  BY FS_Union
<1>2. Cardinality(S) \in Nat /\ Cardinality(T) \in Nat /\ Cardinality(S \cap T) = 0
  BY FS_CardinalityType, FS_EmptySet
<1> QED
  BY <1>1, <1>2

LEMMA CountConcat ==
  ASSUME NEW s \in Seq(AnyFrame), NEW t \in Seq(AnyFrame), NEW kinds
  PROVE  Count(s \o t, kinds) = Count(s, kinds) + Count(t, kinds)
<1> DEFINE In(r) == {i \in DOMAIN r : r[i].kind \in kinds}
           Late == {i + Len(s) : i \in In(t)}
           shift == [i \in In(t) |-> i + Len(s)]
<1>1. /\ Len(s) \in Nat /\ Len(t) \in Nat /\ DOMAIN s = 1..Len(s) /\ DOMAIN t = 1..Len(t)
      /\ s \o t \in Seq(AnyFrame) /\ DOMAIN (s \o t) = 1..(Len(s) + Len(t))
      /\ \A i \in 1..(Len(s) + Len(t)) : (s \o t)[i] = IF i <= Len(s) THEN s[i] ELSE t[i - Len(s)]
  BY LenProperties, ConcatProperties
<1>2. In(s \o t) = In(s) \cup Late
  <2>1. ASSUME NEW i \in In(s \o t) PROVE i \in In(s) \cup Late
    <3>1. CASE i <= Len(s)
      BY <1>1, <3>1
    <3>2. CASE ~(i <= Len(s))
      <4>1. i - Len(s) \in In(t) /\ i = (i - Len(s)) + Len(s)
        BY <1>1, <3>2
      <4> QED BY <4>1
    <3> QED BY <3>1, <3>2
  <2>2. ASSUME NEW i \in In(s) PROVE i \in In(s \o t)
    BY <1>1
  <2>3. ASSUME NEW i \in In(t) PROVE i + Len(s) \in In(s \o t)
    <3>1. i \in 1..Len(t) /\ t[i].kind \in kinds
      BY <1>1
    <3>2. i + Len(s) \in 1..(Len(s) + Len(t)) /\ ~(i + Len(s) <= Len(s)) /\ (i + Len(s)) - Len(s) = i
      BY <1>1, <3>1
    <3> QED BY <1>1, <3>1, <3>2
  <2> QED BY <2>1, <2>2, <2>3
<1>3. In(s) \cap Late = {}
  BY <1>1
<1>4. IsFiniteSet(In(s)) /\ IsFiniteSet(In(t))
  BY CountType
<1>5. IsFiniteSet(Late) /\ Cardinality(Late) = Cardinality(In(t))
  <2>1. shift \in Bijection(In(t), Late)
    <3>1. shift \in [In(t) -> Late]
      OBVIOUS
    <3>2. \A i, j \in In(t) : shift[i] = shift[j] => i = j
      BY <1>1
    <3>3. \A k \in Late : \E i \in In(t) : shift[i] = k
      OBVIOUS
    <3> QED BY <3>1, <3>2, <3>3 DEF Bijection, Injection, Surjection, IsInjective
  <2>2. ExistsBijection(In(t), Late)
    BY <2>1 DEF ExistsBijection
  <2> QED BY <1>4, <2>2, FS_Bijection
<1>6. /\ Count(s \o t, kinds) = Cardinality(In(s \o t))
      /\ Count(s, kinds) = Cardinality(In(s)) /\ Count(t, kinds) = Cardinality(In(t))
  BY DEF Count
<1> HIDE DEF In, Late
<1>7. Cardinality(In(s) \cup Late) = Cardinality(In(s)) + Cardinality(Late)
  BY <1>3, <1>4, <1>5, DisjointUnion
<1> QED
  BY <1>2, <1>5, <1>6, <1>7

\* A sequence is its first frame and the rest.
LEMMA HeadAndTail ==
  ASSUME NEW S, NEW s \in Seq(S), s # <<>>
  PROVE  /\ Head(s) \in S /\ Tail(s) \in Seq(S) /\ s = <<Head(s)>> \o Tail(s)
         /\ s[1] = Head(s) /\ Len(s) \in Nat \ {0} /\ Len(Tail(s)) = Len(s) - 1
<1>1. /\ Head(s) \in S /\ Tail(s) \in Seq(S) /\ Len(Tail(s)) = Len(s) - 1
      /\ \A i \in 1..Len(Tail(s)) : Tail(s)[i] = s[i + 1]
  BY HeadTailProperties
<1>2. Len(s) \in Nat \ {0} /\ s[1] = Head(s)
  BY EmptySeq, LenProperties
<1>3. <<Head(s)>> \in Seq(S) /\ Len(<<Head(s)>>) = 1
  BY <1>1
<1>4. /\ <<Head(s)>> \o Tail(s) \in Seq(S)
      /\ Len(<<Head(s)>> \o Tail(s)) = 1 + (Len(s) - 1)
      /\ \A i \in 1..(1 + (Len(s) - 1)) : (<<Head(s)>> \o Tail(s))[i] =
            IF i <= 1 THEN <<Head(s)>>[i] ELSE Tail(s)[i - 1]
  BY <1>1, <1>3, ConcatProperties
<1>5. \A i \in 1..Len(s) : s[i] = (<<Head(s)>> \o Tail(s))[i]
  <2> TAKE i \in 1..Len(s)
  <2>1. i \in 1..(1 + (Len(s) - 1))
    BY <1>2
  <2>2. CASE i = 1
    BY <1>2, <1>4, <2>1, <2>2
  <2>3. CASE i # 1
    <3>1. i - 1 \in 1..Len(Tail(s)) /\ ~(i <= 1) /\ (i - 1) + 1 = i
      BY <1>1, <1>2, <2>3
    <3> QED BY <1>1, <1>4, <2>1, <3>1
  <2> QED BY <2>2, <2>3
<1>6. Len(s) = Len(<<Head(s)>> \o Tail(s))
  BY <1>2, <1>4
<1>7. s = <<Head(s)>> \o Tail(s)
  BY <1>4, <1>5, <1>6, SeqEqual
<1> QED
  BY <1>1, <1>2, <1>7

LEMMA CountTail ==
  ASSUME NEW s \in Seq(AnyFrame), s # <<>>, NEW kinds
  PROVE  Count(s, kinds) = Count(<<Head(s)>>, kinds) + Count(Tail(s), kinds)
<1>1. Head(s) \in AnyFrame /\ Tail(s) \in Seq(AnyFrame) /\ s = <<Head(s)>> \o Tail(s)
  BY HeadAndTail
<1>2. <<Head(s)>> \in Seq(AnyFrame)
  BY <1>1
<1>3. Count(<<Head(s)>> \o Tail(s), kinds) = Count(<<Head(s)>>, kinds) + Count(Tail(s), kinds)
  BY <1>1, <1>2, CountConcat
<1> QED
  BY <1>1, <1>3

LEMMA CountAppend ==
  ASSUME NEW s \in Seq(AnyFrame), NEW f \in AnyFrame, NEW kinds
  PROVE  Count(Append(s, f), kinds) = Count(s, kinds) + Count(<<f>>, kinds)
<1>1. Append(s, f) = s \o <<f>> /\ <<f>> \in Seq(AnyFrame)
  BY AppendIsConcat
<1>2. Count(s \o <<f>>, kinds) = Count(s, kinds) + Count(<<f>>, kinds)
  BY <1>1, CountConcat
<1> QED
  BY <1>1, <1>2
----------------------------------------------------------------------------
(* What frames say, and in which order.                                    *)

\* A frame answers a number.
LEMMA FrameCmd == ASSUME NEW f \in AnyFrame PROVE f.cmd \in Nat
BY OutboundAssumption DEF AnyFrame, Frame, NoFrame

LEMMA SaidNothing == Said(<<>>) = {} /\ Sorted(<<>>)
BY DEF Said, Sorted

LEMMA SaidOne ==
  ASSUME NEW f \in AnyFrame
  PROVE  /\ Said(<<f>>) = IF f.kind = "answer" THEN {f.cmd} ELSE {}
         /\ Sorted(<<f>>)
<1>1. DOMAIN <<f>> = {1} /\ <<f>>[1] = f
  OBVIOUS
<1>2. Sorted(<<f>>)
  BY <1>1 DEF Sorted
<1>3. CASE f.kind = "answer"
  <2>1. {j \in DOMAIN <<f>> : <<f>>[j].kind = "answer"} = {1}
    BY <1>1, <1>3
  <2> QED BY <1>1, <1>2, <1>3, <2>1 DEF Said
<1>4. CASE f.kind # "answer"
  <2>1. {j \in DOMAIN <<f>> : <<f>>[j].kind = "answer"} = {}
    BY <1>1, <1>4
  <2> QED BY <1>2, <1>4, <2>1 DEF Said
<1> QED
  BY <1>3, <1>4

LEMMA SaidCopies ==
  ASSUME NEW f \in AnyFrame, NEW n \in Nat
  PROVE  LET s == [i \in 1..n |-> f]
         IN  /\ Said(s) \subseteq Said(<<f>>) /\ Sorted(s)
             /\ n > 0 => Said(s) = Said(<<f>>)
<1> DEFINE s == [i \in 1..n |-> f]
<1>1. DOMAIN s = 1..n /\ \A i \in 1..n : s[i] = f
  OBVIOUS
<1>2. Sorted(s)
  BY <1>1, FrameCmd DEF Sorted
<1>3. Said(s) \subseteq Said(<<f>>)
  BY <1>1, SaidOne DEF Said
<1>4. n > 0 => Said(<<f>>) \subseteq Said(s)
  <2> HAVE n > 0
  <2>1. 1 \in DOMAIN s /\ s[1] = f
    BY <1>1
  <2> QED BY <2>1, SaidOne DEF Said
<1> QED
  BY <1>2, <1>3, <1>4

LEMMA SaidConcat ==
  ASSUME NEW s \in Seq(AnyFrame), NEW t \in Seq(AnyFrame)
  PROVE  /\ Said(s \o t) = Said(s) \cup Said(t)
         /\ Sorted(s) /\ Sorted(t) /\ UpTo(Said(s), Said(t)) => Sorted(s \o t)
         /\ Sorted(s \o t) => Sorted(s) /\ Sorted(t) /\ UpTo(Said(s), Said(t))
<1> DEFINE u == s \o t
<1>1. /\ Len(s) \in Nat /\ Len(t) \in Nat /\ DOMAIN s = 1..Len(s) /\ DOMAIN t = 1..Len(t)
      /\ DOMAIN u = 1..(Len(s) + Len(t))
      /\ \A i \in 1..(Len(s) + Len(t)) : u[i] = IF i <= Len(s) THEN s[i] ELSE t[i - Len(s)]
  BY LenProperties, ConcatProperties
<1> HIDE DEF u
<1>2. \A i \in DOMAIN s : i \in DOMAIN u /\ u[i] = s[i]
  BY <1>1
<1>3. \A i \in DOMAIN t : i + Len(s) \in DOMAIN u /\ u[i + Len(s)] = t[i]
  <2> TAKE i \in DOMAIN t
  <2>1. i + Len(s) \in 1..(Len(s) + Len(t)) /\ ~(i + Len(s) <= Len(s)) /\ (i + Len(s)) - Len(s) = i
    BY <1>1
  <2> QED BY <1>1, <2>1
<1>4. \A i \in DOMAIN u : \/ i \in DOMAIN s /\ u[i] = s[i]
                          \/ i - Len(s) \in DOMAIN t /\ u[i] = t[i - Len(s)] /\ i > Len(s)
  BY <1>1
<1>5. Said(u) = Said(s) \cup Said(t)
  BY <1>2, <1>3, <1>4 DEF Said
<1>6. ASSUME Sorted(s), Sorted(t), UpTo(Said(s), Said(t)) PROVE Sorted(u)
  <2> SUFFICES ASSUME NEW i \in DOMAIN u, NEW j \in DOMAIN u, i < j,
                      u[i].kind = "answer", u[j].kind = "answer"
               PROVE  u[i].cmd <= u[j].cmd
    BY DEF Sorted
  <2>1. CASE i \in DOMAIN s /\ u[i] = s[i] /\ j \in DOMAIN s /\ u[j] = s[j]
    BY <1>6, <2>1 DEF Sorted
  <2>2. CASE i \in DOMAIN s /\ u[i] = s[i] /\ j - Len(s) \in DOMAIN t /\ u[j] = t[j - Len(s)]
    <3>1. u[i].cmd \in Said(s) /\ u[j].cmd \in Said(t)
      BY <2>2 DEF Said
    <3> QED BY <1>6, <3>1 DEF UpTo
  <2>3. CASE i - Len(s) \in DOMAIN t /\ u[i] = t[i - Len(s)] /\ j - Len(s) \in DOMAIN t /\ u[j] = t[j - Len(s)]
    <3>1. i - Len(s) < j - Len(s)
      BY <1>1
    <3> QED BY <1>6, <2>3, <3>1 DEF Sorted
  <2> QED BY <1>1, <1>4, <2>1, <2>2, <2>3
<1>7. ASSUME Sorted(u) PROVE Sorted(s) /\ Sorted(t) /\ UpTo(Said(s), Said(t))
  <2>1. Sorted(s)
    BY <1>2, <1>7 DEF Sorted
  <2>2. Sorted(t)
    <3> SUFFICES ASSUME NEW i \in DOMAIN t, NEW j \in DOMAIN t, i < j,
                        t[i].kind = "answer", t[j].kind = "answer"
                 PROVE  t[i].cmd <= t[j].cmd
      BY DEF Sorted
    <3>1. i + Len(s) < j + Len(s)
      BY <1>1
    <3> QED BY <1>3, <1>7, <3>1 DEF Sorted
  <2>3. ASSUME NEW i \in DOMAIN s, NEW j \in DOMAIN t, s[i].kind = "answer", t[j].kind = "answer"
        PROVE  s[i].cmd <= t[j].cmd
    <3>1. i < j + Len(s)
      BY <1>1
    <3> QED BY <1>2, <1>3, <1>7, <2>3, <3>1 DEF Sorted
  <2>4. UpTo(Said(s), Said(t))
    BY <2>3 DEF UpTo, Said
  <2> QED BY <2>1, <2>2, <2>4
<1> QED
  BY <1>5, <1>6, <1>7 DEF u

LEMMA SaidTail ==
  ASSUME NEW s \in Seq(AnyFrame), s # <<>>
  PROVE  /\ Said(s) = Said(<<Head(s)>>) \cup Said(Tail(s))
         /\ Sorted(s) => Sorted(Tail(s)) /\ UpTo(Said(<<Head(s)>>), Said(Tail(s)))
<1>1. Head(s) \in AnyFrame /\ Tail(s) \in Seq(AnyFrame) /\ s = <<Head(s)>> \o Tail(s)
  BY HeadAndTail
<1>2. <<Head(s)>> \in Seq(AnyFrame)
  BY <1>1
<1> DEFINE t == <<Head(s)>> \o Tail(s)
<1>3. /\ Said(t) = Said(<<Head(s)>>) \cup Said(Tail(s))
      /\ Sorted(t) => Sorted(Tail(s)) /\ UpTo(Said(<<Head(s)>>), Said(Tail(s)))
  BY <1>1, <1>2, SaidConcat
<1>4. s = t
  BY <1>1
<1> HIDE DEF t
<1> QED
  BY <1>3, <1>4

LEMMA SaidAppend ==
  ASSUME NEW s \in Seq(AnyFrame), NEW f \in AnyFrame
  PROVE  /\ Said(Append(s, f)) = Said(s) \cup Said(<<f>>)
         /\ Sorted(s) /\ UpTo(Said(s), Said(<<f>>)) => Sorted(Append(s, f))
<1> DEFINE t == <<f>>
<1>1. Append(s, f) = s \o t /\ t \in Seq(AnyFrame)
  BY AppendIsConcat
<1>0. Sorted(t)
  BY SaidOne
<1> HIDE DEF t
<1>2. /\ Said(s \o t) = Said(s) \cup Said(t)
      /\ Sorted(s) /\ UpTo(Said(s), Said(t)) => Sorted(s \o t)
  BY <1>0, <1>1, SaidConcat
<1> QED
  BY <1>1, <1>2 DEF t
----------------------------------------------------------------------------
(* What the lanes carry and what is reserved.                              *)

\* How many frames of these kinds it carries.
InHand(c, kinds) == Count(<<c.frame>>, kinds)

Bytes == bytes + worker.reserved + sweep.reserved + Charges(held) + Charges(out)
           + InHand(pump, Charged) + InHand(writer, Charged) = Budget
Vouchers == tickets + Tickets(prio) + InHand(writer, Ticketed) = Lane

Loads == Typed /\ Lanes /\ Reserved /\ Bytes /\ Vouchers

\* What the loads are made of is numbers.
LEMMA Numbers ==
  ASSUME Typed
  PROVE  /\ held \in Seq(AnyFrame) /\ out \in Seq(AnyFrame) /\ prio \in Seq(AnyFrame)
         /\ pump.frame \in AnyFrame /\ writer.frame \in AnyFrame
         /\ pump \in Carrier /\ writer \in Carrier
         /\ <<pump.frame>> \in Seq(AnyFrame) /\ <<writer.frame>> \in Seq(AnyFrame)
         /\ Charges(held) \in Nat /\ Charges(out) \in Nat
         /\ InHand(pump, Charged) \in Nat /\ InHand(writer, Charged) \in Nat
         /\ Tickets(prio) \in Nat /\ InHand(writer, Ticketed) \in Nat
         /\ bytes \in Nat /\ tickets \in Nat
         /\ worker.reserved \in Nat /\ worker.frames \in Nat
         /\ sweep.reserved \in Nat /\ sweep.frames \in Nat
<1>1. /\ held \in Seq(AnyFrame) /\ out \in Seq(AnyFrame) /\ prio \in Seq(AnyFrame)
  BY SeqMonotonic DEF Typed, AnyFrame
<1>2. pump \in Carrier /\ writer \in Carrier /\ pump.frame \in AnyFrame /\ writer.frame \in AnyFrame
  BY DEF Typed, Carrier, AnyFrame
<1>3. <<pump.frame>> \in Seq(AnyFrame) /\ <<writer.frame>> \in Seq(AnyFrame)
  BY <1>2
<1>4. /\ Charges(held) \in Nat /\ Charges(out) \in Nat
      /\ InHand(pump, Charged) \in Nat /\ InHand(writer, Charged) \in Nat
      /\ Tickets(prio) \in Nat /\ InHand(writer, Ticketed) \in Nat
  BY <1>1, <1>3, CountType DEF Charges, Tickets, InHand
<1> QED
  BY <1>1, <1>2, <1>3, <1>4, OutboundAssumption DEF Typed, Worker

LEMMA LaneCount == ASSUME NEW s \in Seq(Frame), NEW K PROVE Count(s, K) \in Nat
<1>1. s \in Seq(AnyFrame)
  BY SeqMonotonic DEF AnyFrame
<1> QED
  BY <1>1, CountType

LEMMA PlainIsFrame ==
  /\ \A kind \in {"swept", "refusal", "beat", "final", "close"} :
       Plain(kind) \in Frame /\ Plain(kind).kind = kind /\ Plain(kind).cmd = 0
  /\ \A kind \in {"answer", "refusal", "page"}, c \in Commands :
       [kind |-> kind, cmd |-> c] \in Frame
BY OutboundAssumption DEF Plain, Frame, Commands

\* A step that leaves the lanes and what is reserved alone.
LEMMA Untouched ==
  ASSUME Loads, UNCHANGED <<lanes, bytes, tickets>>,
         UNCHANGED <<sweep, heard>>, worker'.reserved = worker.reserved,
         worker'.frames = worker.frames,
         worker'.step = "publishing" <=> worker.step = "publishing"
  PROVE  Lanes' /\ Reserved' /\ Bytes' /\ Vouchers'
BY DEF Loads, Lanes, Reserved, Bytes, Vouchers, lanes, Onto, Carries

\* A step that moves bytes between the budget, who reserved and the held lane.
LEMMA BytesMoved ==
  ASSUME Loads, UNCHANGED <<pump, out, writer>>,
         NEW r \in Nat, NEW q \in Nat, worker'.reserved = r, sweep'.reserved = q,
         bytes' \in Nat, Charges(held') \in Nat,
         bytes' + r + q + Charges(held') = bytes + worker.reserved + sweep.reserved + Charges(held)
  PROVE  Bytes'
<1> DEFINE o == Charges(out)   p == InHand(pump, Charged)   w == InHand(writer, Charged)
<1>1. o \in Nat /\ p \in Nat /\ w \in Nat /\ Charges(held) \in Nat
  BY Numbers DEF Loads
<1>2. Charges(out') = o /\ InHand(pump', Charged) = p /\ InHand(writer', Charged) = w
  OBVIOUS
<1>3. bytes + worker.reserved + sweep.reserved + Charges(held) + o + p + w = Budget
  BY DEF Loads, Bytes
<1> HIDE DEF o, p, w
<1>4. bytes \in Nat /\ worker.reserved \in Nat /\ sweep.reserved \in Nat
  BY Numbers DEF Loads
<1>5. bytes' + worker'.reserved + sweep'.reserved + Charges(held') + o + p + w = Budget
  BY <1>1, <1>3, <1>4
<1> QED
  BY <1>2, <1>5 DEF Bytes

\* A frame more in a lane, of a kind the lane carries.
LEMMA Onwards ==
  ASSUME NEW s \in Seq(Frame), NEW f \in Frame, NEW kinds, Onto(s, kinds), f.kind \in kinds
  PROVE  /\ Append(s, f) \in Seq(Frame) /\ Onto(Append(s, f), kinds)
         /\ Len(Append(s, f)) = Len(s) + 1
         /\ \A K : Count(Append(s, f), K) = Count(s, K) + Count(<<f>>, K)
<1>1. s \in Seq(AnyFrame) /\ f \in AnyFrame
  BY SeqMonotonic DEF AnyFrame
<1>2. /\ Append(s, f) \in Seq(Frame) /\ Len(Append(s, f)) = Len(s) + 1
      /\ \A i \in 1..Len(s) : Append(s, f)[i] = s[i]
      /\ Append(s, f)[Len(s) + 1] = f
  BY AppendProperties
<1>3. DOMAIN s = 1..Len(s) /\ DOMAIN Append(s, f) = 1..(Len(s) + 1) /\ Len(s) \in Nat
  BY <1>2, LenProperties
<1>4. ASSUME NEW i \in DOMAIN Append(s, f) PROVE Append(s, f)[i].kind \in kinds
  <2>1. CASE i = Len(s) + 1
    BY <1>2, <2>1
  <2>2. CASE i # Len(s) + 1
    <3>1. i \in DOMAIN s /\ Append(s, f)[i] = s[i]
      BY <1>2, <1>3, <2>2
    <3> QED BY <3>1 DEF Onto
  <2> QED BY <2>1, <2>2
<1>5. Onto(Append(s, f), kinds)
  BY <1>4 DEF Onto
<1>6. \A K : Count(Append(s, f), K) = Count(s, K) + Count(<<f>>, K)
  BY <1>1, CountAppend
<1> QED
  BY <1>2, <1>5, <1>6

\* The first frame less.
LEMMA Behead ==
  ASSUME NEW s \in Seq(Frame), s # <<>>, NEW kinds, Onto(s, kinds)
  PROVE  /\ Head(s) \in Frame /\ Head(s).kind \in kinds
         /\ Tail(s) \in Seq(Frame) /\ Onto(Tail(s), kinds)
         /\ Len(s) \in Nat /\ Len(Tail(s)) = Len(s) - 1
         /\ \A K : Count(s, K) = Count(<<Head(s)>>, K) + Count(Tail(s), K)
<1>1. s \in Seq(AnyFrame)
  BY SeqMonotonic DEF AnyFrame
<1>2. /\ Head(s) \in Frame /\ Tail(s) \in Seq(Frame) /\ s[1] = Head(s)
      /\ Len(s) \in Nat \ {0} /\ Len(Tail(s)) = Len(s) - 1
  BY HeadAndTail
<1>3. DOMAIN s = 1..Len(s) /\ DOMAIN Tail(s) = 1..(Len(s) - 1)
  BY <1>2, LenProperties
<1>4. \A i \in 1..(Len(s) - 1) : Tail(s)[i] = s[i + 1] /\ i + 1 \in 1..Len(s)
  BY <1>2, HeadTailProperties
<1>5. Onto(Tail(s), kinds)
  BY <1>3, <1>4 DEF Onto
<1>6. Head(s).kind \in kinds
  BY <1>2, <1>3 DEF Onto
<1>7. \A K : Count(s, K) = Count(<<Head(s)>>, K) + Count(Tail(s), K)
  BY <1>1, CountTail
<1> QED
  BY <1>2, <1>5, <1>6, <1>7
----------------------------------------------------------------------------
(* The handlers' common parts.                                             *)

\* The priority lane holds what it may and the tickets are where they were.
Posted == /\ prio' \in Seq(Frame) /\ Onto(prio', Ticketed \cup {"close"})
          /\ tickets' \in Nat
          /\ tickets' + Tickets(prio') = tickets + Tickets(prio)

LEMMA EmitPosts ==
  ASSUME Loads, tickets > 0, NEW f \in Frame, f.kind \in Ticketed, Emit(f)
  PROVE  Posted /\ prio' \in {prio, Append(prio, f)}
<1>1. prio \in Seq(Frame) /\ Onto(prio, Ticketed \cup {"close"}) /\ tickets \in Nat /\ Tickets(prio) \in Nat
  BY Numbers DEF Loads, Typed, Lanes
<1>2. Count(<<f>>, Ticketed) = 1
  BY CountOne DEF AnyFrame
<1>3. /\ Append(prio, f) \in Seq(Frame) /\ Onto(Append(prio, f), Ticketed \cup {"close"})
      /\ Tickets(Append(prio, f)) = Tickets(prio) + 1
  BY <1>1, <1>2, Onwards DEF Tickets
<1> DEFINE longer == Append(prio, f)
<1>4. CASE Listening
  <2>1. prio' = longer /\ tickets' = tickets - 1
    BY <1>4 DEF Emit
  <2> HIDE DEF longer
  <2>2. longer \in Seq(Frame) /\ Onto(longer, Ticketed \cup {"close"}) /\ Tickets(longer) = Tickets(prio) + 1
    BY <1>3 DEF longer
  <2>3. Posted
    BY <1>1, <2>1, <2>2 DEF Posted
  <2> QED BY <2>1, <2>3 DEF longer
<1>5. CASE ~Listening
  BY <1>1, <1>5 DEF Emit, Posted
<1> QED
  BY <1>4, <1>5

LEMMA StillPosted ==
  ASSUME Loads, UNCHANGED <<prio, tickets>>
  PROVE  Posted
BY DEF Loads, Typed, Lanes, Posted

LEMMA TurnPosts ==
  ASSUME Loads, NEW c \in Commands, Turn(c)
  PROVE  /\ Posted /\ prio' \in {prio, Append(prio, [kind |-> "refusal", cmd |-> c])}
         /\ fate' = [fate EXCEPT ![c] = "turned"] /\ fate' \in [Commands -> Fates]
<1> DEFINE f == [kind |-> "refusal", cmd |-> c]
<1>1. f \in Frame /\ f.kind \in Ticketed
  BY PlainIsFrame DEF Ticketed
<1>2. fate' = [fate EXCEPT ![c] = "turned"] /\ fate' \in [Commands -> Fates]
  BY DEF Turn, Loads, Typed, Fates
<1>3. CASE tickets > 0
  BY <1>1, <1>2, <1>3, EmitPosts DEF Turn
<1>4. CASE ~(tickets > 0)
  BY <1>2, <1>4, StillPosted DEF Turn
<1> QED
  BY <1>3, <1>4

\* The held lane takes what was reserved, or its permits go back.
LEMMA SubmitHolds ==
  ASSUME Loads, NEW f \in Frame, f.kind \in Charged,
         NEW r \in Nat, NEW n \in 0..r, Submit(f, r, n)
  PROVE  /\ held' \in Seq(Frame) /\ Onto(held', Charged) /\ bytes' \in Nat
         /\ bytes' + Charges(held') = bytes + r + Charges(held)
         /\ Said(held) \subseteq Said(held') /\ Said(held') \subseteq Said(held) \cup Said(<<f>>)
         /\ pump.step # "ended" /\ n > 0 => Said(held') = Said(held) \cup Said(<<f>>)
         /\ Sorted(held) /\ UpTo(Said(held), Said(<<f>>)) => Sorted(held')
<1> DEFINE s == [i \in 1..n |-> f]
           said == Said(<<f>>)
<1>1. /\ held \in Seq(Frame) /\ Onto(held, Charged) /\ bytes \in Nat /\ Charges(held) \in Nat
      /\ held \in Seq(AnyFrame)
  BY Numbers DEF Loads, Typed, Lanes
<1>2. f \in AnyFrame /\ s \in Seq(Frame) /\ s \in Seq(AnyFrame) /\ n \in Nat
  <2>1. n \in Nat
    OBVIOUS
  <2> QED BY <2>1, IsASeq DEF AnyFrame
<1>3. Charges(s) = n
  BY <1>2, CountCopies DEF Charges
<1>4. /\ held \o s \in Seq(Frame) /\ Charges(held \o s) = Charges(held) + n
  BY <1>1, <1>2, <1>3, CountConcat, ConcatProperties DEF Charges
<1>5. Onto(held \o s, Charged)
  <2>1. Len(s) = n /\ \A i \in 1..n : s[i] = f
    BY <1>2
  <2>2. /\ Len(held) \in Nat /\ DOMAIN held = 1..Len(held)
        /\ Len(held \o s) = Len(held) + n
        /\ \A i \in 1..(Len(held) + n) : (held \o s)[i] = IF i <= Len(held) THEN held[i] ELSE s[i - Len(held)]
    BY <1>1, <1>2, <2>1, ConcatProperties, LenProperties
  <2>3. DOMAIN (held \o s) = 1..(Len(held) + n)
    BY <1>4, <2>2, LenProperties
  <2>4. ASSUME NEW i \in 1..(Len(held) + n) PROVE (held \o s)[i].kind \in Charged
    <3>1. CASE i <= Len(held)
      BY <1>1, <2>2, <3>1 DEF Onto
    <3>2. CASE ~(i <= Len(held))
      <4>1. i - Len(held) \in 1..n
        BY <2>2, <3>2
      <4>2. (held \o s)[i] = f
        BY <2>1, <2>2, <3>2, <4>1
      <4> QED BY <4>2
    <3> QED BY <3>1, <3>2
  <2> QED BY <2>3, <2>4 DEF Onto
<1>6. /\ Said(s) \subseteq said /\ Sorted(s)
      /\ n > 0 => Said(s) = said
  BY <1>2, SaidCopies
<1> HIDE DEF s, said
<1>7. Said(held \o s) = Said(held) \cup Said(s)
  BY <1>1, <1>2, SaidConcat
<1>8. Sorted(held) /\ UpTo(Said(held), said) => Sorted(held \o s)
  <2>1. UpTo(Said(held), said) => UpTo(Said(held), Said(s))
    BY <1>6 DEF UpTo
  <2> QED BY <1>1, <1>2, <1>6, <2>1, SaidConcat
<1> DEFINE more == held \o s
<1>9. CASE pump.step = "ended"
  BY <1>1, <1>9 DEF Submit
<1>10. CASE pump.step # "ended"
  <2>1. held' = more /\ bytes' = bytes + r - n
    BY <1>10 DEF Submit, s
  <2>2. more \in Seq(Frame) /\ Onto(more, Charged) /\ Charges(more) = Charges(held) + n
    BY <1>4, <1>5
  <2>3. /\ Said(more) = Said(held) \cup Said(s)
        /\ Sorted(held) /\ UpTo(Said(held), said) => Sorted(more)
    BY <1>7, <1>8
  <2> HIDE DEF more
  <2>4. bytes' \in Nat /\ bytes' + Charges(held') = bytes + r + Charges(held)
    BY <1>1, <2>1, <2>2
  <2>5. /\ Said(held) \subseteq Said(held') /\ Said(held') \subseteq Said(held) \cup said
        /\ n > 0 => Said(held') = Said(held) \cup said
    BY <1>6, <2>1, <2>3
  <2> QED BY <2>1, <2>2, <2>3, <2>4, <2>5 DEF said
<1> QED
  BY <1>9, <1>10

\* The writer's lanes are dropped, permits and all.
LEMMA DropEmpties ==
  ASSUME Loads, DropLanes(<<>>)
  PROVE  /\ writer' = Ended /\ prio' = <<>> /\ out' = <<>>
         /\ bytes' = bytes + Charges(out) + InHand(writer, Charged)
         /\ tickets' = tickets + Tickets(prio) + InHand(writer, Ticketed)
<1> DEFINE w == <<writer.frame>>
<1>1. /\ out \in Seq(AnyFrame) /\ prio \in Seq(AnyFrame) /\ w \in Seq(AnyFrame)
      /\ bytes \in Nat /\ tickets \in Nat
      /\ Charges(out) \in Nat /\ Charges(w) \in Nat /\ Tickets(prio) \in Nat /\ Tickets(w) \in Nat
  BY Numbers DEF Loads, InHand, Charges, Tickets
<1> HIDE DEF w
<1> DEFINE both == prio \o out
           all == both \o w
<1>2. both \in Seq(AnyFrame) /\ \A K : Count(both, K) = Count(prio, K) + Count(out, K)
  BY <1>1, CountConcat, ConcatProperties
<1> HIDE DEF both
<1>3. all \in Seq(AnyFrame) /\ \A K : Count(all, K) = Count(both, K) + Count(w, K)
  BY <1>1, <1>2, CountConcat, ConcatProperties
<1> HIDE DEF all
<1>4. all \o <<>> = all
  BY <1>3, ConcatEmptySeq
<1>5. Charges(prio) = 0 /\ Tickets(out) = 0
  BY <1>1, CountNone DEF Loads, Lanes, Onto, Charges, Tickets, Charged, Ticketed
<1>6. all = prio \o out \o w
  BY DEF all, both
<1>7. /\ writer' = Ended /\ prio' = <<>> /\ out' = <<>>
      /\ bytes' = bytes + Charges(prio \o out \o w \o <<>>)
      /\ tickets' = tickets + Tickets(prio \o out \o w \o <<>>)
  BY DEF DropLanes, w
<1>8. bytes' = bytes + Charges(all) /\ tickets' = tickets + Tickets(all)
  BY <1>4, <1>6, <1>7
<1>9. Charges(all) = Charges(out) + Charges(w) /\ Tickets(all) = Tickets(prio) + Tickets(w)
  BY <1>1, <1>2, <1>3, <1>5 DEF Charges, Tickets
<1> QED
  BY <1>1, <1>7, <1>8, <1>9 DEF w, InHand, Charges, Tickets
----------------------------------------------------------------------------
(* Each step keeps the loads.                                              *)

LEMMA FiniteCommands ==
  ASSUME NEW S \in SUBSET Commands
  PROVE  IsFiniteSet(S) /\ Cardinality(S) \in Nat
<1>1. IsFiniteSet(Commands)
  BY FS_Interval, OutboundAssumption DEF Commands
<1> QED
  BY <1>1, FS_Subset, FS_CardinalityType

LEMMA QuietLoads ==
  ASSUME Loads, Timer \/ Leave \/ Stop \/ HangUp
  PROVE  Loads'
<1>1. /\ UNCHANGED <<commands, delivery, lanes, heard, bytes, tickets>>
      /\ loop' \in {"reading", "announcing", "closing", "leaving", "gone"}
      /\ notified' \in BOOLEAN /\ peer' \in {"reading", "stopped", "gone"}
  BY DEF Timer, Leave, Stop, HangUp, Loads, Typed
<1>2. Typed'
  BY <1>1 DEF Loads, Typed, commands, delivery, lanes
<1>3. Lanes' /\ Reserved' /\ Bytes' /\ Vouchers'
  BY <1>1, Untouched DEF commands, delivery
<1> QED
  BY <1>2, <1>3 DEF Loads

LEMMA TakeLoads ==
  ASSUME Loads, Take
  PROVE  Loads'
<1>1. /\ Head(queue) \in Commands /\ Tail(queue) \in Seq(Commands)
      /\ Len(Tail(queue)) <= QueueRoom
  <2>1. queue \in Seq(Commands) /\ queue # <<>> /\ Len(queue) <= QueueRoom
    BY DEF Loads, Typed, Take
  <2> QED BY <2>1, HeadAndTail, OutboundAssumption
<1>2. worker' = [Free EXCEPT !.step = "deciding", !.cmd = Head(queue)] /\ worker' \in Worker
  <2> DEFINE c == Head(queue)
  <2>1. c \in 0..MaxCommands /\ worker' = [Free EXCEPT !.step = "deciding", !.cmd = c]
    BY <1>1, OutboundAssumption DEF Take, Commands
  <2> HIDE DEF c
  <2>2. worker' = [step |-> "deciding", cmd |-> c, reserved |-> 0, frames |-> 0]
    BY <2>1 DEF Free
  <2>3. 0 \in 0..Worst
    BY OutboundAssumption
  <2>4. worker' \in Worker
    BY <2>1, <2>2, <2>3 DEF Worker
  <2> QED BY <2>1, <2>4 DEF c
<1>3. queue' = Tail(queue) /\ fate' = [fate EXCEPT ![Head(queue)] = "deciding"]
  BY DEF Take
<1>4. UNCHANGED <<slots, page, walked, delivery, lanes, heard, bytes, tickets, loop, notified, peer>>
  BY DEF Take
<1>5. Typed'
  BY <1>1, <1>2, <1>3, <1>4 DEF Loads, Typed, delivery, lanes, Fates
<1>6. worker.step = "idle" /\ worker.reserved = 0
  BY DEF Take, Loads, Reserved
<1>7. Lanes' /\ Reserved' /\ Bytes' /\ Vouchers'
  <2>1. worker'.reserved = 0 /\ worker'.step = "deciding"
    BY <1>2 DEF Free
  <2> QED BY <1>4, <1>6, <2>1 DEF Loads, Lanes, Reserved, Bytes, Vouchers, lanes, delivery, Onto, Carries
<1> QED
  BY <1>5, <1>7 DEF Loads

LEMMA FreeIsWorker == Free \in Worker
BY OutboundAssumption DEF Free, Worker

\* The dispatcher puts a command aside it has not reserved for.
LEMMA PassedOver ==
  ASSUME Loads, worker.step = "deciding", worker' = Free, Posted,
         slots' = slots + 1, fate' \in [Commands -> Fates], page' \in Page,
         UNCHANGED <<queue, walked, delivery, held, pump, out, writer, heard, bytes, loop, notified, peer>>
  PROVE  Loads'
<1>1. Typed'
  BY FreeIsWorker DEF Loads, Typed, Posted, delivery
<1>2. worker.reserved = 0 /\ Free.reserved = 0 /\ Free.step # "publishing"
  BY DEF Loads, Reserved, Free
<1>3. Lanes' /\ Reserved' /\ Bytes'
  BY <1>2 DEF Loads, Lanes, Reserved, Bytes, Posted, Onto, Carries, delivery
<1>4. Vouchers'
  BY Numbers DEF Loads, Vouchers, Posted
<1> QED
  BY <1>1, <1>3, <1>4 DEF Loads

LEMMA BusyCmd ==
  ASSUME Loads, Stations, worker.step \in {"deciding", "publishing"}
  PROVE  worker.cmd \in Commands /\ worker.cmd \in 0..MaxCommands
BY DEF Stations, Deciding, Busy, Loads, Typed, Worker

LEMMA SpawnLoads ==
  ASSUME Loads, Stations, Spawn
  PROVE  Loads'
<1>1. worker.cmd \in Commands /\ worker.cmd \in 0..MaxCommands
  BY BusyCmd DEF Spawn
<1>2. CASE page.step = "none"
  <2>1. /\ page' = [step |-> "waiting", cmd |-> worker.cmd]
        /\ fate' = [fate EXCEPT ![worker.cmd] = "paging"] /\ UNCHANGED <<prio, tickets>>
    BY <1>2 DEF Spawn
  <2>2. page' \in Page /\ fate' \in [Commands -> Fates]
    BY <1>1, <2>1 DEF Page, Loads, Typed, Fates
  <2> QED BY <2>1, <2>2, StillPosted, PassedOver DEF Spawn
<1>3. CASE page.step # "none"
  <2>1. Turn(worker.cmd) /\ page' = page
    BY <1>3 DEF Spawn
  <2>2. Posted /\ fate' \in [Commands -> Fates]
    BY <1>1, <2>1, TurnPosts
  <2>3. page' \in Page
    BY <2>1 DEF Loads, Typed
  <2> QED BY <2>2, <2>3, PassedOver DEF Spawn
<1> QED
  BY <1>2, <1>3

LEMMA DeclineLoads ==
  ASSUME Loads, Stations, Decline
  PROVE  Loads'
<1>1. Posted /\ fate' \in [Commands -> Fates]
  BY BusyCmd, TurnPosts DEF Decline
<1>2. page' \in Page
  BY DEF Decline, Loads, Typed
<1> QED
  BY <1>1, <1>2, PassedOver DEF Decline

LEMMA ReserveLoads ==
  ASSUME Loads, Stations, NEW fateOf \in {"acted", "refused"},
         NEW n \in 1..Worst, NEW frames \in 1..n, Reserve(fateOf, n, frames)
  PROVE  Loads'
<1>1. worker.cmd \in Commands /\ worker \in Worker /\ worker.step = "deciding" /\ worker.reserved = 0
  BY BusyCmd DEF Reserve, Loads, Typed, Reserved
<1>2. /\ bytes' = bytes - n /\ bytes >= n /\ bytes \in Nat
      /\ fate' = [fate EXCEPT ![worker.cmd] = fateOf]
      /\ worker' = [worker EXCEPT !.step = "publishing", !.reserved = n, !.frames = frames]
      /\ UNCHANGED <<queue, slots, page, walked, delivery, lanes, heard, tickets, loop, notified, peer>>
  BY DEF Reserve, Loads, Typed
<1>3. n \in 0..Worst /\ frames \in 0..Worst
  BY OutboundAssumption
<1>4. /\ worker' \in Worker /\ worker'.step = "publishing" /\ worker'.reserved = n
      /\ worker'.frames = frames
  BY <1>1, <1>2, <1>3 DEF Worker
<1>5. Typed'
  BY <1>1, <1>2, <1>4 DEF Loads, Typed, delivery, lanes, Fates
<1>6. Bytes'
  BY <1>1, <1>2, <1>4, Numbers, OutboundAssumption DEF Loads, Bytes, delivery, lanes
<1>7. Lanes' /\ Reserved' /\ Vouchers'
  BY <1>2, <1>4 DEF Loads, Lanes, Reserved, Vouchers, delivery, lanes, Onto, Carries
<1> QED
  BY <1>5, <1>6, <1>7 DEF Loads

LEMMA RefuseLoads == ASSUME Loads, Stations, Refuse PROVE Loads'
<1>1. 1 \in 1..Worst
  BY OutboundAssumption
<1> QED
  BY <1>1, ReserveLoads DEF Refuse

LEMMA ActLoads == ASSUME Loads, Stations, Act PROVE Loads'
<1>1. Worst \in 1..Worst
  BY OutboundAssumption
<1>2. PICK frames \in 1..Worst : Reserve("acted", Worst, frames)
  BY DEF Act
<1> QED
  BY <1>1, <1>2, ReserveLoads

LEMMA PublishLoads ==
  ASSUME Loads, Stations, Publish
  PROVE  Loads'
<1> DEFINE f == [kind |-> "answer", cmd |-> worker.cmd]
<1>1. worker.cmd \in Commands /\ worker.step = "publishing"
  BY BusyCmd DEF Publish
<1>2. f \in Frame /\ f.kind \in Charged
  BY <1>1, PlainIsFrame DEF Charged
<1>3. worker.reserved \in Nat /\ worker.frames \in 0..worker.reserved
  BY <1>1, Numbers DEF Loads, Reserved
<1>4. /\ Submit(f, worker.reserved, worker.frames)
      /\ worker' = Free /\ slots' = slots + 1
      /\ UNCHANGED <<fate, queue, page, walked, delivery, pump, out, prio, writer, heard,
                     tickets, loop, notified, peer>>
  BY DEF Publish
<1> HIDE DEF f
<1>5. /\ held' \in Seq(Frame) /\ Onto(held', Charged) /\ bytes' \in Nat
      /\ bytes' + Charges(held') = bytes + worker.reserved + Charges(held)
  BY <1>2, <1>3, <1>4, SubmitHolds
<1>6. Typed'
  BY <1>4, <1>5, FreeIsWorker DEF Loads, Typed, delivery
<1>7. Free.reserved = 0 /\ Free.step = "idle"
  BY DEF Free
<1>8. Charges(held') \in Nat
  BY <1>5, LaneCount DEF Charges
<1>9. Bytes'
  <2>1. /\ worker'.reserved = 0 /\ sweep'.reserved = sweep.reserved
        /\ UNCHANGED <<pump, out, writer>>
    BY <1>4, <1>7 DEF delivery
  <2>2. /\ worker.reserved \in Nat /\ sweep.reserved \in Nat
        /\ bytes \in Nat /\ Charges(held) \in Nat
    BY Numbers DEF Loads
  <2>3. bytes' + Charges(held') = bytes + worker.reserved + Charges(held) /\ bytes' \in Nat
    BY <1>5
  <2>4. bytes' + 0 + sweep.reserved + Charges(held')
          = bytes + worker.reserved + sweep.reserved + Charges(held)
    BY <1>8, <2>2, <2>3
  <2> QED BY <1>8, <2>1, <2>2, <2>3, <2>4, BytesMoved
<1>10. Lanes' /\ Reserved' /\ Vouchers'
  BY <1>4, <1>5, <1>7 DEF Loads, Lanes, Reserved, Vouchers, delivery, Onto, Carries
<1> QED
  BY <1>6, <1>9, <1>10 DEF Loads

LEMMA AbortLoads ==
  ASSUME Loads, Stations, AbortWorker
  PROVE  Loads'
<1> DEFINE dropped == ToSet(queue) \cup (IF worker.step = "deciding" THEN {worker.cmd} ELSE {})
<1>1. dropped \in SUBSET Commands
  <2>1. ToSet(queue) \subseteq Commands
    BY ElementOfSeq, LenProperties DEF ToSet, Loads, Typed
  <2> QED BY <2>1, BusyCmd
<1>2. Cardinality(dropped) \in Nat
  BY <1>1, FiniteCommands
<1>3. /\ worker.step \in {"idle", "deciding"}
      /\ worker' = [Free EXCEPT !.step = "ended"] /\ queue' = <<>>
      /\ slots' = slots + Cardinality(dropped)
      /\ fate' = [c \in Commands |-> IF c \in dropped THEN "dropped" ELSE fate[c]]
      /\ UNCHANGED <<page, walked, delivery, lanes, heard, bytes, tickets, loop, notified, peer>>
  BY DEF AbortWorker
<1> HIDE DEF dropped
<1>4. fate' \in [Commands -> Fates]
  BY <1>3 DEF Loads, Typed, Fates
<1>5. worker' \in Worker /\ worker'.reserved = 0 /\ worker'.step = "ended"
  BY <1>3, OutboundAssumption DEF Worker, Free
<1>6. queue' \in Seq(Commands) /\ Len(queue') <= QueueRoom
  BY <1>3, OutboundAssumption
<1>7. Typed'
  BY <1>2, <1>3, <1>4, <1>5, <1>6 DEF Loads, Typed, delivery, lanes
<1>8. worker.reserved = 0
  BY <1>3 DEF Loads, Reserved
<1>9. Lanes' /\ Reserved' /\ Bytes' /\ Vouchers'
  BY <1>3, <1>5, <1>8 DEF Loads, Lanes, Reserved, Bytes, Vouchers, lanes, delivery, Onto, Carries
<1> QED
  BY <1>7, <1>9 DEF Loads

LEMMA ReadLoads ==
  ASSUME Loads, NEW c \in Commands, Read(c)
  PROVE  Loads'
<1>1. UNCHANGED <<worker, page, walked, delivery, held, pump, out, writer, heard, bytes, loop, notified, peer>>
  BY DEF Read
<1>2. /\ Posted /\ fate' \in [Commands -> Fates] /\ slots' \in Nat
      /\ queue' \in Seq(Commands) /\ Len(queue') <= QueueRoom
  <2>1. CASE Enqueue(c)
    <3>1. Posted
      BY <2>1, StillPosted DEF Enqueue
    <3>2. fate' \in [Commands -> Fates] /\ slots' \in Nat
      BY <2>1 DEF Enqueue, Loads, Typed, Fates
    <3>3. queue \in Seq(Commands) /\ Len(queue) < QueueRoom /\ queue' = Append(queue, c)
      BY <2>1 DEF Enqueue, Loads, Typed
    <3>4. queue' \in Seq(Commands) /\ Len(queue') = Len(queue) + 1 /\ Len(queue) \in Nat
      BY <3>3, AppendProperties, LenProperties
    <3> QED BY <3>1, <3>2, <3>3, <3>4, OutboundAssumption
  <2>2. CASE TurnUnread(c)
    <3>1. Turn(c) /\ UNCHANGED <<queue, slots>>
      BY <2>2 DEF TurnUnread
    <3> QED BY <3>1, TurnPosts DEF Loads, Typed
  <2> QED BY <2>1, <2>2 DEF Read
<1>3. Typed'
  BY <1>1, <1>2 DEF Loads, Typed, Posted, delivery
<1>4. Lanes' /\ Reserved' /\ Bytes'
  BY <1>1, <1>2 DEF Loads, Lanes, Reserved, Bytes, Posted, Onto, Carries, delivery
<1>5. Vouchers'
  BY <1>1, <1>2, Numbers DEF Loads, Vouchers, Posted
<1> QED
  BY <1>3, <1>4, <1>5 DEF Loads

\* A history task posts its page, or a refusal.
LEMMA PagePosts ==
  ASSUME Loads, Posted, fate' \in [Commands -> Fates], page' \in Page, walked' \subseteq Commands,
         UNCHANGED <<queue, slots, worker, delivery, held, pump, out, writer, heard, bytes,
                     loop, notified, peer>>
  PROVE  Loads'
<1>1. Typed'
  BY DEF Loads, Typed, Posted, delivery
<1>2. Lanes' /\ Reserved' /\ Bytes'
  BY DEF Loads, Lanes, Reserved, Bytes, Posted, Onto, Carries, delivery
<1>3. Vouchers'
  BY Numbers DEF Loads, Vouchers, Posted
<1> QED
  BY <1>1, <1>2, <1>3 DEF Loads

LEMMA PagesLoads ==
  ASSUME Loads, Stations, Pages
  PROVE  Loads'
<1>1. ASSUME Slot PROVE Loads'
  <2>1. page.cmd \in Commands /\ page \in Page
    BY <1>1 DEF Slot, Stations, Paging, Loads, Typed
  <2>2. CASE page' = [page EXCEPT !.step = "walking"] /\ UNCHANGED <<fate, prio, tickets>>
    <3>1. page' \in Page /\ fate' \in [Commands -> Fates] /\ walked' \subseteq Commands
      BY <1>1, <2>1, <2>2 DEF Page, Loads, Typed, Slot
    <3> QED BY <1>1, <2>2, <3>1, StillPosted, PagePosts DEF Slot
  <2>3. CASE page' = NoPage /\ Turn(page.cmd)
    <3>1. Posted /\ fate' \in [Commands -> Fates]
      BY <2>1, <2>3, TurnPosts
    <3>0. page' \in Page
      BY <2>3, OutboundAssumption DEF NoPage, Page
    <3>2. walked' \subseteq Commands
      BY <1>1 DEF Slot, Loads, Typed
    <3> QED BY <1>1, <3>0, <3>1, <3>2, PagePosts DEF Slot
  <2> QED BY <1>1, <2>2, <2>3 DEF Slot
<1>2. ASSUME Walk PROVE Loads'
  <2>1. page' \in Page /\ walked' \subseteq Commands /\ fate' \in [Commands -> Fates]
    BY <1>2, OutboundAssumption DEF Walk, NoPage, Page, Stations, Paging, Loads, Typed
  <2>2. UNCHANGED <<fate, queue, slots, worker, delivery, lanes, heard, bytes, tickets, loop, notified, peer>>
    BY <1>2 DEF Walk
  <2> QED BY <2>1, <2>2, StillPosted, PagePosts DEF lanes
<1>3. ASSUME NEW c \in Commands, Finish(c) PROVE Loads'
  <2>1. page' \in Page /\ walked' \subseteq Commands
    BY <1>3 DEF Finish, Loads, Typed
  <2>2. CASE Turn(c)
    <3>1. Posted /\ fate' \in [Commands -> Fates]
      BY <2>2, TurnPosts
    <3> QED BY <1>3, <2>1, <3>1, PagePosts DEF Finish
  <2>3. CASE /\ tickets > 0 /\ fate' = [fate EXCEPT ![c] = "paged"]
             /\ Emit([kind |-> "page", cmd |-> c])
    <3> DEFINE f == [kind |-> "page", cmd |-> c]
    <3>1. f \in Frame /\ f.kind \in Ticketed
      BY PlainIsFrame DEF Ticketed
    <3>2. Emit(f)
      BY <2>3
    <3> HIDE DEF f
    <3>3. Posted
      BY <2>3, <3>1, <3>2, EmitPosts
    <3>4. fate' \in [Commands -> Fates]
      BY <2>3 DEF Loads, Typed, Fates
    <3> QED BY <1>3, <2>1, <3>3, <3>4, PagePosts DEF Finish
  <2> QED BY <1>3, <2>2, <2>3 DEF Finish
<1> QED
  BY <1>1, <1>2, <1>3 DEF Pages

LEMMA SweepLoads ==
  ASSUME Loads, Sweep
  PROVE  Loads'
<1>1. /\ UNCHANGED <<commands, held, pump, out, writer, heard, loop, notified, peer>>
      /\ sweeps' = sweeps + 1 /\ sweep.reserved = 0 /\ More
  BY DEF Sweep
<1>2. sweeps' \in 0..MaxInputs
  <2>1. Cardinality({c \in Commands : fate[c] # "unread"}) \in Nat
    BY FiniteCommands
  <2>2. sweeps \in 0..MaxInputs
    BY DEF Loads, Typed
  <2> QED BY <1>1, <2>1, <2>2, OutboundAssumption DEF More
<1>3. CASE bytes >= Worst
  <2>1. PICK n \in 1..Worst : sweep' = [reserved |-> Worst, frames |-> n]
    BY <1>3 DEF Sweep
  <2>2. bytes' = bytes - Worst /\ UNCHANGED <<prio, tickets>>
    BY <1>3 DEF Sweep
  <2>3. bytes' \in Nat /\ sweep' \in [reserved : 0..Worst, frames : 0..Worst]
    BY <1>3, <2>1, <2>2, OutboundAssumption DEF Loads, Typed
  <2>4. Typed'
    BY <1>1, <1>2, <2>2, <2>3 DEF Loads, Typed, commands
  <2>5. Bytes'
    <3>1. /\ worker'.reserved = worker.reserved /\ sweep'.reserved = Worst /\ held' = held
          /\ UNCHANGED <<pump, out, writer>>
      BY <1>1, <2>1, <2>2 DEF commands
    <3>2. /\ worker.reserved \in Nat /\ sweep.reserved = 0 /\ Worst \in Nat
          /\ bytes \in Nat /\ Charges(held) \in Nat /\ Charges(held') \in Nat
      BY <1>1, <3>1, Numbers, OutboundAssumption DEF Loads
    <3>3. bytes' + worker.reserved + Worst + Charges(held')
            = bytes + worker.reserved + sweep.reserved + Charges(held)
      BY <1>3, <2>2, <3>1, <3>2
    <3> QED BY <2>3, <3>1, <3>2, <3>3, BytesMoved
  <2>6. Lanes' /\ Reserved' /\ Vouchers'
    BY <1>1, <2>1, <2>2 DEF Loads, Lanes, Reserved, Vouchers, commands, Onto, Carries
  <2> QED BY <2>4, <2>5, <2>6 DEF Loads
<1>4. CASE ~(bytes >= Worst)
  <2>1. UNCHANGED <<bytes, sweep>>
    BY <1>4 DEF Sweep
  <2>2. Posted
    <3>1. CASE tickets > 0
      <4>1. Emit(Plain("refusal"))
        BY <1>4, <3>1 DEF Sweep
      <4> QED BY <3>1, <4>1, EmitPosts, PlainIsFrame DEF Ticketed
    <3>2. CASE ~(tickets > 0)
      BY <1>4, <3>2, StillPosted DEF Sweep
    <3> QED BY <3>1, <3>2
  <2>3. Typed'
    BY <1>1, <1>2, <2>1, <2>2 DEF Loads, Typed, commands, Posted
  <2>4. Lanes' /\ Reserved' /\ Bytes'
    BY <1>1, <2>1, <2>2 DEF Loads, Lanes, Reserved, Bytes, Posted, Onto, Carries, commands
  <2>5. Vouchers'
    BY <1>1, <2>2, Numbers DEF Loads, Vouchers, Posted
  <2> QED BY <2>3, <2>4, <2>5 DEF Loads
<1> QED
  BY <1>3, <1>4

LEMMA DeliverLoads ==
  ASSUME Loads, Deliver
  PROVE  Loads'
<1> DEFINE f == Plain("swept")
<1>1. /\ Submit(f, sweep.reserved, sweep.frames) /\ sweep' = [reserved |-> 0, frames |-> 0]
      /\ UNCHANGED <<commands, sweeps, pump, out, prio, writer, heard, tickets, loop, notified, peer>>
  BY DEF Deliver
<1>2. f \in Frame /\ f.kind \in Charged
  BY PlainIsFrame DEF Charged
<1>3. sweep.reserved \in Nat /\ sweep.frames \in 0..sweep.reserved
  BY Numbers DEF Loads, Reserved
<1> HIDE DEF f
<1>4. /\ held' \in Seq(Frame) /\ Onto(held', Charged) /\ bytes' \in Nat
      /\ bytes' + Charges(held') = bytes + sweep.reserved + Charges(held)
  BY <1>1, <1>2, <1>3, SubmitHolds
<1>5. sweep' \in [reserved : 0..Worst, frames : 0..Worst]
  BY <1>1, OutboundAssumption
<1>6. Typed'
  BY <1>1, <1>4, <1>5 DEF Loads, Typed, commands
<1>7. Charges(held') \in Nat
  BY <1>4, LaneCount DEF Charges
<1>8. Bytes'
  <2>1. /\ worker'.reserved = worker.reserved /\ sweep'.reserved = 0
        /\ UNCHANGED <<pump, out, writer>>
    BY <1>1 DEF commands
  <2>2. /\ worker.reserved \in Nat /\ sweep.reserved \in Nat
        /\ bytes \in Nat /\ Charges(held) \in Nat
    BY Numbers DEF Loads
  <2>3. bytes' + Charges(held') = bytes + sweep.reserved + Charges(held) /\ bytes' \in Nat
    BY <1>4
  <2>4. bytes' + worker.reserved + 0 + Charges(held')
          = bytes + worker.reserved + sweep.reserved + Charges(held)
    BY <1>7, <2>2, <2>3
  <2> QED BY <1>7, <2>1, <2>2, <2>3, <2>4, BytesMoved
<1>9. Lanes' /\ Reserved' /\ Vouchers'
  BY <1>1, <1>4 DEF Loads, Lanes, Reserved, Vouchers, commands, Onto, Carries
<1> QED
  BY <1>6, <1>8, <1>9 DEF Loads

\* Counts when nothing is in hand, or one frame is.
LEMMA EmptyHand ==
  ASSUME NEW K, "none" \notin K, NEW c, c.frame = NoFrame
  PROVE  InHand(c, K) = 0
<1>1. NoFrame \in AnyFrame /\ NoFrame.kind \notin K
  BY DEF AnyFrame, NoFrame
<1> QED
  BY <1>1, CountOne DEF InHand

LEMMA NoneIsNoPermit == "none" \notin Charged /\ "none" \notin Ticketed
BY DEF Charged, Ticketed

LEMMA CarrierHands ==
  /\ Empty \in Carrier /\ Empty.frame = NoFrame /\ Empty.step = "idle"
  /\ Ended \in Carrier /\ Ended.frame = NoFrame /\ Ended.step = "ended"
  /\ \A f \in Frame : [step |-> "carrying", frame |-> f] \in Carrier
BY DEF Empty, Ended, Carrier

LEMMA PumpTakeLoads ==
  ASSUME Loads, PumpTake
  PROVE  Loads'
<1> DEFINE h == Head(held)
<1>1. /\ held \in Seq(Frame) /\ held # <<>> /\ Onto(held, Charged) /\ pump.step = "idle"
      /\ pump' = [step |-> "carrying", frame |-> h] /\ held' = Tail(held)
      /\ UNCHANGED <<commands, delivery, out, prio, writer, heard, bytes, tickets, loop, notified, peer>>
  BY DEF PumpTake, Loads, Typed, Lanes
<1>2. /\ h \in Frame /\ h.kind \in Charged /\ Tail(held) \in Seq(Frame) /\ Onto(Tail(held), Charged)
      /\ Charges(held) = Count(<<h>>, Charged) + Charges(Tail(held))
  BY <1>1, Behead DEF Charges
<1> HIDE DEF h
<1>3. pump' \in Carrier
  BY <1>1, <1>2, CarrierHands
<1>4. Typed'
  BY <1>1, <1>2, <1>3 DEF Loads, Typed, commands, delivery
<1>5. Lanes' /\ Reserved' /\ Vouchers'
  BY <1>1, <1>2 DEF Loads, Lanes, Reserved, Vouchers, commands, delivery, Onto, Carries
<1>6. Bytes'
  <2>1. InHand(pump, Charged) = 0
    BY <1>1, EmptyHand, NoneIsNoPermit DEF Loads, Lanes, Carries
  <2>2. InHand(pump', Charged) = Count(<<h>>, Charged)
    BY <1>1 DEF InHand
  <2>3. /\ Charges(held) = InHand(pump', Charged) + Charges(held')
        /\ InHand(pump', Charged) \in Nat /\ Charges(held') \in Nat
    <3>1. <<h>> \in Seq(Frame)
      BY <1>2
    <3> QED BY <1>1, <1>2, <2>2, <3>1, LaneCount DEF Charges
  <2>4. UNCHANGED <<bytes, worker, sweep, out, writer>>
    BY <1>1 DEF commands, delivery
  <2>5. /\ bytes \in Nat /\ worker.reserved \in Nat /\ sweep.reserved \in Nat /\ Charges(out) \in Nat
        /\ InHand(writer, Charged) \in Nat
    BY Numbers DEF Loads
  <2>6. bytes + worker.reserved + sweep.reserved + Charges(held) + Charges(out) + 0
          + InHand(writer, Charged) = Budget
    BY <2>1 DEF Loads, Bytes
  <2>7. bytes + worker.reserved + sweep.reserved + Charges(held') + Charges(out)
          + InHand(pump', Charged) + InHand(writer, Charged) = Budget
    BY <2>3, <2>5, <2>6
  <2> QED BY <2>4, <2>7 DEF Bytes
<1> QED
  BY <1>4, <1>5, <1>6 DEF Loads

\* A frame more in the channel.
LEMMA OutGrows ==
  ASSUME Loads, HasRoom, NEW f \in Frame, f.kind \in Charged \cup {"beat", "final", "close"},
         out' = Append(out, f)
  PROVE  /\ out' \in Seq(Frame) /\ Len(out') <= Room
         /\ Onto(out', Charged \cup {"beat", "final", "close"})
         /\ Charges(out') \in Nat /\ Charges(out') = Charges(out) + Count(<<f>>, Charged)
<1> DEFINE kinds == Charged \cup {"beat", "final", "close"}
<1>1. out \in Seq(Frame) /\ Onto(out, kinds) /\ Len(out) < Room /\ Len(out) \in Nat
  BY LenProperties DEF Loads, Typed, Lanes, HasRoom
<1> HIDE DEF kinds
<1>2. /\ Append(out, f) \in Seq(Frame) /\ Onto(Append(out, f), kinds)
      /\ Len(Append(out, f)) = Len(out) + 1
      /\ Count(Append(out, f), Charged) = Count(out, Charged) + Count(<<f>>, Charged)
  BY <1>1, Onwards DEF kinds
<1>3. Len(out') <= Room
  BY <1>1, <1>2, OutboundAssumption
<1> QED
  BY <1>2, <1>3, LaneCount DEF kinds, Charges

LEMMA PumpSendLoads ==
  ASSUME Loads, PumpSend
  PROVE  Loads'
<1> DEFINE f == pump.frame
<1>1. /\ HasRoom /\ out' = Append(out, f) /\ pump' = Empty /\ pump.step = "carrying"
      /\ UNCHANGED <<commands, delivery, held, prio, writer, heard, bytes, tickets, loop, notified, peer>>
  BY DEF PumpSend
<1>2. f \in Frame /\ f.kind \in Charged
  BY <1>1 DEF Loads, Lanes, Carries, Frame
<1>3. InHand(pump, Charged) = Count(<<f>>, Charged)
  BY DEF InHand
<1> HIDE DEF f
<1>4. /\ out' \in Seq(Frame) /\ Len(out') <= Room
      /\ Onto(out', Charged \cup {"beat", "final", "close"})
      /\ Charges(out') \in Nat /\ Charges(out') = Charges(out) + InHand(pump, Charged)
  BY <1>1, <1>2, <1>3, OutGrows
<1>5. Typed'
  BY <1>1, <1>4, CarrierHands DEF Loads, Typed, commands, delivery
<1>6. Lanes' /\ Reserved' /\ Vouchers'
  BY <1>1, <1>4, CarrierHands DEF Loads, Lanes, Reserved, Vouchers, commands, delivery, Onto, Carries, NoFrame
<1>7. Bytes'
  <2>1. InHand(pump', Charged) = 0
    BY <1>1, CarrierHands, EmptyHand, NoneIsNoPermit
  <2>2. UNCHANGED <<bytes, worker, sweep, held, writer>>
    BY <1>1 DEF commands, delivery
  <2>3. /\ bytes \in Nat /\ worker.reserved \in Nat /\ sweep.reserved \in Nat /\ Charges(out) \in Nat
        /\ InHand(writer, Charged) \in Nat /\ InHand(pump, Charged) \in Nat /\ Charges(held) \in Nat
    BY Numbers DEF Loads
  <2>4. bytes + worker.reserved + sweep.reserved + Charges(held) + Charges(out)
          + InHand(pump, Charged) + InHand(writer, Charged) = Budget
    BY DEF Loads, Bytes
  <2>5. bytes + worker.reserved + sweep.reserved + Charges(held) + Charges(out')
          + InHand(pump', Charged) + InHand(writer, Charged) = Budget
    BY <1>4, <2>1, <2>3, <2>4
  <2> QED BY <2>2, <2>5 DEF Bytes
<1> QED
  BY <1>5, <1>6, <1>7 DEF Loads

\* A frame of the connection itself, which owes nothing.
LEMMA OwnFrame ==
  ASSUME Loads, HasRoom, NEW kind \in {"beat", "final", "close"}, out' = Append(out, Plain(kind)),
         loop' \in {"reading", "announcing", "closing", "leaving", "gone"},
         UNCHANGED <<commands, delivery, held, pump, prio, writer, heard, bytes, tickets, notified, peer>>
  PROVE  Loads'
<1> DEFINE f == Plain(kind)
<1>1. f \in Frame /\ f.kind = kind
  BY PlainIsFrame
<1>2. Count(<<f>>, Charged) = 0
  BY <1>1, CountOne DEF AnyFrame, Charged
<1>3. out' = Append(out, f)
  OBVIOUS
<1> HIDE DEF f
<1>4. /\ out' \in Seq(Frame) /\ Len(out') <= Room
      /\ Onto(out', Charged \cup {"beat", "final", "close"})
      /\ Charges(out') \in Nat /\ Charges(out') = Charges(out) + Count(<<f>>, Charged)
  BY <1>1, <1>3, OutGrows
<1>5. Charges(out') = Charges(out)
  BY <1>2, <1>4, Numbers DEF Loads
<1>6. Typed'
  BY <1>4 DEF Loads, Typed, commands, delivery
<1>7. Lanes' /\ Reserved' /\ Vouchers'
  BY <1>4 DEF Loads, Lanes, Reserved, Vouchers, commands, delivery, Onto, Carries
<1>8. Bytes'
  BY <1>5 DEF Loads, Bytes, commands, delivery
<1> QED
  BY <1>6, <1>7, <1>8 DEF Loads

LEMMA SendLoads ==
  ASSUME Loads, NEW kind \in {"final", "close"},
         NEW next \in {"closing", "leaving"}, Send(Plain(kind), next)
  PROVE  Loads'
<1>1. /\ loop' = next /\ loop' \in {"reading", "announcing", "closing", "leaving", "gone"}
      /\ UNCHANGED <<commands, delivery, held, pump, prio, writer, heard, bytes, tickets, notified, peer>>
  BY DEF Send
<1>2. CASE HasRoom /\ out' = Append(out, Plain(kind))
  BY <1>1, <1>2, OwnFrame
<1>3. CASE out' = out
  <2>1. Typed'
    BY <1>1, <1>3 DEF Loads, Typed, commands, delivery
  <2>2. Lanes' /\ Reserved' /\ Bytes' /\ Vouchers'
    BY <1>1, <1>3, Untouched DEF lanes, commands, delivery
  <2> QED BY <2>1, <2>2 DEF Loads
<1> QED
  BY <1>2, <1>3 DEF Send

LEMMA BeatLoads == ASSUME Loads, Beat PROVE Loads'
<1>1. loop' \in {"reading", "announcing", "closing", "leaving", "gone"}
  BY DEF Beat, Loads, Typed
<1> QED
  BY <1>1, OwnFrame DEF Beat

LEMMA PumpEndLoads ==
  ASSUME Loads, PumpEnd
  PROVE  Loads'
<1>1. /\ pump' = Ended /\ held' = <<>>
      /\ bytes' = bytes + Charges(Append(held, pump.frame))
      /\ UNCHANGED <<commands, delivery, out, prio, writer, heard, tickets, loop, notified, peer>>
  BY DEF PumpEnd
<1>2. /\ bytes \in Nat /\ worker.reserved \in Nat /\ sweep.reserved \in Nat /\ Charges(out) \in Nat
      /\ InHand(writer, Charged) \in Nat /\ InHand(pump, Charged) \in Nat /\ Charges(held) \in Nat
      /\ held \in Seq(AnyFrame) /\ pump.frame \in AnyFrame
  BY Numbers DEF Loads
<1>3. bytes' = bytes + Charges(held) + InHand(pump, Charged)
  <2>1. Charges(Append(held, pump.frame)) = Charges(held) + InHand(pump, Charged)
    BY <1>2, CountAppend DEF Charges, InHand
  <2> QED BY <1>1, <1>2, <2>1
<1>4. held' \in Seq(Frame) /\ Charges(held') = 0 /\ Onto(held', Charged)
  <2>1. <<>> \in Seq(AnyFrame) /\ <<>> \in Seq(Frame) /\ DOMAIN <<>> = {}
    OBVIOUS
  <2> QED BY <1>1, <2>1, CountNone DEF Charges, Onto
<1>5. bytes' \in Nat
  BY <1>2, <1>3
<1>6. Typed'
  BY <1>1, <1>4, <1>5, CarrierHands DEF Loads, Typed, commands, delivery
<1>7. Lanes' /\ Reserved' /\ Vouchers'
  BY <1>1, <1>4, CarrierHands DEF Loads, Lanes, Reserved, Vouchers, commands, delivery, Onto, Carries, NoFrame
<1>8. Bytes'
  <2>1. InHand(pump', Charged) = 0
    BY <1>1, CarrierHands, EmptyHand, NoneIsNoPermit
  <2>2. UNCHANGED <<worker, sweep, out, writer>>
    BY <1>1 DEF commands, delivery
  <2>3. bytes + worker.reserved + sweep.reserved + Charges(held) + Charges(out)
          + InHand(pump, Charged) + InHand(writer, Charged) = Budget
    BY DEF Loads, Bytes
  <2>4. /\ bytes \in Nat /\ worker.reserved \in Nat /\ sweep.reserved \in Nat /\ Charges(out) \in Nat
        /\ InHand(writer, Charged) \in Nat /\ InHand(pump, Charged) \in Nat /\ Charges(held) \in Nat
        /\ Charges(held') = 0
    BY <1>2, <1>4
  <2>5. bytes' + worker.reserved + sweep.reserved + Charges(held') + Charges(out)
          + InHand(pump', Charged) + InHand(writer, Charged) = Budget
    BY <1>3, <2>1, <2>3, <2>4
  <2> QED BY <2>2, <2>5 DEF Bytes
<1> QED
  BY <1>6, <1>7, <1>8 DEF Loads

\* The writer has one of its lanes' frames in hand.
LEMMA WriterTakeLoads ==
  ASSUME Loads, WriterTake
  PROVE  Loads'
<1> DEFINE all == Charged \cup {"beat", "final", "close"}
           own == Ticketed \cup {"close"}
<1>1. /\ writer.step = "idle" /\ InHand(writer, Charged) = 0 /\ InHand(writer, Ticketed) = 0
      /\ UNCHANGED <<commands, delivery, held, pump, heard, bytes, tickets, loop, notified, peer>>
  BY EmptyHand, NoneIsNoPermit DEF WriterTake, Loads, Lanes, Carries
<1>2. /\ out \in Seq(Frame) /\ Onto(out, all) /\ Len(out) <= Room
      /\ prio \in Seq(Frame) /\ Onto(prio, own)
  BY DEF Loads, Typed, Lanes
<1>3. "none" \notin Charged /\ Charged \cap own = {} /\ Ticketed \cap all = {}
  BY DEF Charged, Ticketed
<1> HIDE DEF all, own
<1>4. \E h \in Frame :
        /\ writer' = [step |-> "carrying", frame |-> h]
        /\ prio' \in Seq(Frame) /\ Onto(prio', own)
        /\ out' \in Seq(Frame) /\ Onto(out', all) /\ Len(out') <= Room
        /\ Charges(out) = Count(<<h>>, Charged) + Charges(out')
        /\ Tickets(prio) = Count(<<h>>, Ticketed) + Tickets(prio')
  <2>1. CASE /\ prio # <<>> /\ writer' = [step |-> "carrying", frame |-> Head(prio)]
             /\ prio' = Tail(prio) /\ out' = out
    <3> DEFINE h == Head(prio)
    <3>1. /\ h \in Frame /\ h.kind \in own /\ Tail(prio) \in Seq(Frame) /\ Onto(Tail(prio), own)
          /\ Count(prio, Ticketed) = Count(<<h>>, Ticketed) + Count(Tail(prio), Ticketed)
      BY <1>2, <2>1, Behead
    <3>2. writer' = [step |-> "carrying", frame |-> h]
      BY <2>1
    <3> HIDE DEF h
    <3>3. Count(<<h>>, Charged) = 0
      BY <1>3, <3>1, CountOne DEF AnyFrame
    <3>4. Charges(out) = Count(<<h>>, Charged) + Charges(out')
      BY <1>2, <2>1, <3>3, LaneCount DEF Charges
    <3> QED BY <1>2, <2>1, <3>1, <3>2, <3>4 DEF Tickets
  <2>2. CASE /\ out # <<>> /\ writer' = [step |-> "carrying", frame |-> Head(out)]
             /\ out' = Tail(out) /\ prio' = prio
    <3> DEFINE h == Head(out)
    <3>1. /\ h \in Frame /\ h.kind \in all /\ Tail(out) \in Seq(Frame) /\ Onto(Tail(out), all)
          /\ Len(out) \in Nat /\ Len(Tail(out)) = Len(out) - 1
          /\ Count(out, Charged) = Count(<<h>>, Charged) + Count(Tail(out), Charged)
      BY <1>2, <2>2, Behead
    <3>2. writer' = [step |-> "carrying", frame |-> h]
      BY <2>2
    <3> HIDE DEF h
    <3>3. Count(<<h>>, Ticketed) = 0
      BY <1>3, <3>1, CountOne DEF AnyFrame
    <3>4. Tickets(prio) = Count(<<h>>, Ticketed) + Tickets(prio')
      BY <1>2, <2>2, <3>3, LaneCount DEF Tickets
    <3>5. Len(Tail(out)) <= Room
      BY <1>2, <3>1, OutboundAssumption
    <3> QED BY <1>2, <2>2, <3>1, <3>2, <3>4, <3>5 DEF Charges
  <2> QED BY <2>1, <2>2 DEF WriterTake
<1>5. PICK h \in Frame :
        /\ writer' = [step |-> "carrying", frame |-> h]
        /\ prio' \in Seq(Frame) /\ Onto(prio', own)
        /\ out' \in Seq(Frame) /\ Onto(out', all) /\ Len(out') <= Room
        /\ Charges(out) = Count(<<h>>, Charged) + Charges(out')
        /\ Tickets(prio) = Count(<<h>>, Ticketed) + Tickets(prio')
  BY <1>4
<1>6. writer' \in Carrier /\ writer'.step = "carrying" /\ writer'.frame = h
  BY <1>5, CarrierHands
<1>7. Typed'
  BY <1>1, <1>5, <1>6 DEF Loads, Typed, commands, delivery
<1>8. Lanes' /\ Reserved'
  BY <1>1, <1>5, <1>6 DEF Loads, Lanes, Reserved, commands, delivery, Onto, Carries, all, own
<1>9. /\ InHand(writer', Charged) = Count(<<h>>, Charged)
      /\ InHand(writer', Ticketed) = Count(<<h>>, Ticketed)
      /\ InHand(writer', Charged) \in Nat /\ InHand(writer', Ticketed) \in Nat
      /\ Charges(out') \in Nat /\ Tickets(prio') \in Nat
  <2>1. <<h>> \in Seq(Frame)
    OBVIOUS
  <2> QED BY <1>5, <1>6, <2>1, LaneCount DEF InHand, Charges, Tickets
<1>10. Bytes'
  <2>1. UNCHANGED <<bytes, worker, sweep, held, pump>>
    BY <1>1 DEF commands, delivery
  <2>2. Charges(out) = InHand(writer', Charged) + Charges(out')
    BY <1>5, <1>9
  <2>3. /\ bytes \in Nat /\ worker.reserved \in Nat /\ sweep.reserved \in Nat
        /\ InHand(pump, Charged) \in Nat /\ Charges(held) \in Nat
    BY Numbers DEF Loads
  <2>4. bytes + worker.reserved + sweep.reserved + Charges(held) + Charges(out)
          + InHand(pump, Charged) + 0 = Budget
    BY <1>1 DEF Loads, Bytes
  <2>5. bytes + worker.reserved + sweep.reserved + Charges(held) + Charges(out')
          + InHand(pump, Charged) + InHand(writer', Charged) = Budget
    BY <1>9, <2>2, <2>3, <2>4
  <2> QED BY <2>1, <2>5 DEF Bytes
<1>11. Vouchers'
  <2>1. tickets \in Nat /\ tickets + Tickets(prio) + 0 = Lane /\ tickets' = tickets
    BY <1>1, Numbers DEF Loads, Vouchers
  <2>2. Tickets(prio) = InHand(writer', Ticketed) + Tickets(prio')
    BY <1>5, <1>9
  <2>3. tickets' + Tickets(prio') + InHand(writer', Ticketed) = Lane
    BY <1>9, <2>1, <2>2
  <2> QED BY <2>3 DEF Vouchers
<1> QED
  BY <1>7, <1>8, <1>10, <1>11 DEF Loads

\* The writer ends with all it had.
LEMMA DropLoads ==
  ASSUME Loads, DropLanes(<<>>), heard' \subseteq Commands,
         loop' \in {"reading", "announcing", "closing", "leaving", "gone"},
         UNCHANGED <<commands, delivery, held, pump, notified, peer>>
  PROVE  Loads'
<1>1. /\ writer' = Ended /\ prio' = <<>> /\ out' = <<>>
      /\ bytes' = bytes + Charges(out) + InHand(writer, Charged)
      /\ tickets' = tickets + Tickets(prio) + InHand(writer, Ticketed)
  BY DropEmpties
<1>2. /\ bytes \in Nat /\ worker.reserved \in Nat /\ sweep.reserved \in Nat
      /\ Charges(out) \in Nat /\ InHand(writer, Charged) \in Nat
      /\ InHand(pump, Charged) \in Nat /\ Charges(held) \in Nat
      /\ tickets \in Nat /\ Tickets(prio) \in Nat /\ InHand(writer, Ticketed) \in Nat
  BY Numbers DEF Loads
<1>3. /\ bytes' \in Nat /\ tickets' \in Nat
  BY <1>1, <1>2
<1>4. /\ Charges(out') = 0 /\ Tickets(prio') = 0
      /\ InHand(writer', Charged) = 0 /\ InHand(writer', Ticketed) = 0
  <2>1. <<>> \in Seq(AnyFrame) /\ DOMAIN <<>> = {}
    OBVIOUS
  <2>2. Count(<<>>, Charged) = 0 /\ Count(<<>>, Ticketed) = 0
    BY <2>1, CountNone
  <2> QED BY <1>1, <2>2, CarrierHands, EmptyHand, NoneIsNoPermit DEF Charges, Tickets
<1>5. Typed'
  <2>1. <<>> \in Seq(Frame) /\ Len(<<>>) = 0 /\ 0 <= Room
    BY OutboundAssumption
  <2>2. /\ prio' \in Seq(Frame) /\ out' \in Seq(Frame) /\ Len(out') <= Room
        /\ writer' \in Carrier
    BY <1>1, <2>1, CarrierHands
  <2> QED BY <1>3, <2>2 DEF Loads, Typed, commands, delivery
<1>6. Lanes' /\ Reserved'
  BY <1>1, CarrierHands DEF Loads, Lanes, Reserved, commands, delivery, Onto, Carries
<1>7. Bytes'
  <2>1. UNCHANGED <<worker, sweep, held, pump>>
    BY DEF commands, delivery
  <2>2. bytes + worker.reserved + sweep.reserved + Charges(held) + Charges(out)
          + InHand(pump, Charged) + InHand(writer, Charged) = Budget
    BY DEF Loads, Bytes
  <2>3. bytes' = bytes + Charges(out) + InHand(writer, Charged)
    BY <1>1
  <2>4. bytes' + worker.reserved + sweep.reserved + Charges(held) + 0
          + InHand(pump, Charged) + 0 = Budget
    <3>1. /\ bytes \in Nat /\ worker.reserved \in Nat /\ sweep.reserved \in Nat
          /\ Charges(out) \in Nat /\ InHand(writer, Charged) \in Nat
          /\ InHand(pump, Charged) \in Nat /\ Charges(held) \in Nat
      BY <1>2
    <3> QED BY <2>2, <2>3, <3>1, SMTT(60)
  <2> QED BY <1>4, <2>1, <2>4 DEF Bytes
<1>8. Vouchers'
  <2>1. tickets + Tickets(prio) + InHand(writer, Ticketed) = Lane
    BY DEF Loads, Vouchers
  <2>2. tickets' + 0 + 0 = Lane
    BY <1>1, <1>2, <2>1
  <2> QED BY <1>4, <2>2 DEF Vouchers
<1> QED
  BY <1>5, <1>6, <1>7, <1>8 DEF Loads

LEMMA EvictLoads ==
  ASSUME Loads, Evict
  PROVE  Loads'
<1> DEFINE f == Plain("close")
<1>1. /\ notified' = TRUE /\ prio' = IF Listening THEN Append(prio, f) ELSE prio
      /\ UNCHANGED <<commands, delivery, held, pump, out, writer, heard, bytes, tickets, loop, peer>>
  BY DEF Evict
<1>2. f \in Frame /\ f.kind = "close"
  BY PlainIsFrame
<1> HIDE DEF f
<1>3. prio \in Seq(Frame) /\ Onto(prio, Ticketed \cup {"close"}) /\ Tickets(prio) \in Nat
  BY Numbers DEF Loads, Typed, Lanes
<1>4. Count(<<f>>, Ticketed) = 0
  BY <1>2, CountOne DEF AnyFrame, Ticketed
<1>5. /\ Append(prio, f) \in Seq(Frame) /\ Onto(Append(prio, f), Ticketed \cup {"close"})
      /\ Tickets(Append(prio, f)) = Tickets(prio)
  BY <1>2, <1>3, <1>4, Onwards DEF Tickets
<1>6. prio' \in Seq(Frame) /\ Onto(prio', Ticketed \cup {"close"}) /\ Tickets(prio') = Tickets(prio)
  BY <1>1, <1>3, <1>5
<1>7. Typed'
  BY <1>1, <1>6 DEF Loads, Typed, commands, delivery
<1>8. Lanes' /\ Reserved' /\ Bytes' /\ Vouchers'
  BY <1>1, <1>6 DEF Loads, Lanes, Reserved, Bytes, Vouchers, commands, delivery, Onto, Carries
<1> QED
  BY <1>7, <1>8 DEF Loads

LEMMA WriteLoads ==
  ASSUME Loads, Write, heard' \subseteq Commands
  PROVE  Loads'
<1> DEFINE f == writer.frame
<1>1. UNCHANGED <<commands, delivery, held, pump, loop, notified, peer>> /\ writer.step = "carrying"
  BY DEF Write
<1>2. CASE f.kind = "close"
  <2>1. DropLanes(<<>>)
    BY <1>2 DEF Write
  <2>2. loop' \in {"reading", "announcing", "closing", "leaving", "gone"}
    BY <1>1 DEF Loads, Typed
  <2> QED BY <1>1, <2>1, <2>2, DropLoads
<1>3. CASE f.kind # "close"
  <2>1. /\ writer' = Empty /\ UNCHANGED <<prio, out>>
        /\ bytes' = bytes + InHand(writer, Charged) /\ tickets' = tickets + InHand(writer, Ticketed)
    BY <1>3 DEF Write, InHand, Charges, Tickets
  <2>2. /\ bytes \in Nat /\ worker.reserved \in Nat /\ sweep.reserved \in Nat
        /\ Charges(out) \in Nat /\ InHand(writer, Charged) \in Nat
        /\ InHand(pump, Charged) \in Nat /\ Charges(held) \in Nat
        /\ tickets \in Nat /\ Tickets(prio) \in Nat /\ InHand(writer, Ticketed) \in Nat
    BY Numbers DEF Loads
  <2>3. bytes' \in Nat /\ tickets' \in Nat
    BY <2>1, <2>2
  <2>4. Typed'
    BY <1>1, <2>1, <2>3, CarrierHands DEF Loads, Typed, commands, delivery
  <2>5. Lanes' /\ Reserved'
    BY <1>1, <2>1, CarrierHands DEF Loads, Lanes, Reserved, commands, delivery, Onto, Carries
  <2>6. InHand(writer', Charged) = 0 /\ InHand(writer', Ticketed) = 0
    BY <2>1, CarrierHands, EmptyHand, NoneIsNoPermit
  <2>7. Bytes'
    <3>1. UNCHANGED <<worker, sweep, held, pump, out>>
      BY <1>1, <2>1 DEF commands, delivery
    <3>2. bytes + worker.reserved + sweep.reserved + Charges(held) + Charges(out)
            + InHand(pump, Charged) + InHand(writer, Charged) = Budget
      BY DEF Loads, Bytes
    <3>3. bytes' + worker.reserved + sweep.reserved + Charges(held) + Charges(out)
            + InHand(pump, Charged) + 0 = Budget
      BY <2>1, <2>2, <3>2
    <3> QED BY <2>6, <3>1, <3>3 DEF Bytes
  <2>8. Vouchers'
    <3>1. tickets + Tickets(prio) + InHand(writer, Ticketed) = Lane
      BY DEF Loads, Vouchers
    <3>2. tickets' + Tickets(prio) + 0 = Lane
      BY <2>1, <2>2, <3>1
    <3> QED BY <2>1, <2>6, <3>2 DEF Vouchers
  <2> QED BY <2>4, <2>5, <2>7, <2>8 DEF Loads
<1> QED
  BY <1>2, <1>3

LEMMA DepartLoads ==
  ASSUME Loads, Depart
  PROVE  Loads'
<1>1. loop' = "gone" /\ UNCHANGED <<commands, delivery, held, pump, heard, notified, peer>>
  BY DEF Depart
<1>2. heard' \subseteq Commands /\ loop' \in {"reading", "announcing", "closing", "leaving", "gone"}
  BY <1>1 DEF Loads, Typed
<1>3. CASE Listening
  BY <1>1, <1>2, <1>3, DropLoads DEF Depart
<1>4. CASE ~Listening
  <2>1. UNCHANGED <<writer, prio, out, bytes, tickets>>
    BY <1>4 DEF Depart
  <2>2. Typed'
    BY <1>1, <1>2, <2>1 DEF Loads, Typed, commands, delivery
  <2>3. Lanes' /\ Reserved' /\ Bytes' /\ Vouchers'
    BY <1>1, <2>1, Untouched DEF lanes, commands, delivery
  <2> QED BY <2>2, <2>3 DEF Loads
<1> QED
  BY <1>3, <1>4

LEMMA WriterEndLoads ==
  ASSUME Loads, WriterEnd
  PROVE  Loads'
<1>1. /\ heard' \subseteq Commands /\ DropLanes(<<>>)
      /\ loop' \in {"reading", "announcing", "closing", "leaving", "gone"}
      /\ UNCHANGED <<commands, delivery, held, pump, notified, peer>>
  BY DEF WriterEnd, Loads, Typed
<1> QED
  BY <1>1, DropLoads

LEMMA InitLoads == Init => Loads
<1> SUFFICES ASSUME Init PROVE Loads
  OBVIOUS
<1>1. /\ fate = [c \in Commands |-> "unread"] /\ heard = {} /\ walked = {}
      /\ queue = <<>> /\ slots = Slots /\ worker = Free /\ page = NoPage
      /\ sweep = [reserved |-> 0, frames |-> 0] /\ sweeps = 0
      /\ bytes = Budget /\ tickets = Lane
      /\ held = <<>> /\ out = <<>> /\ prio = <<>> /\ pump = Empty /\ writer = Empty
      /\ loop = "reading" /\ notified = FALSE /\ peer = "reading"
  BY DEF Init
<1>2. /\ <<>> \in Seq(AnyFrame) /\ <<>> \in Seq(Frame) /\ <<>> \in Seq(Commands)
      /\ DOMAIN <<>> = {} /\ Len(<<>>) = 0
  OBVIOUS
<1>3. Count(<<>>, Charged) = 0 /\ Count(<<>>, Ticketed) = 0
  BY <1>2, CountNone
<1>4. /\ InHand(pump, Charged) = 0 /\ InHand(writer, Charged) = 0 /\ InHand(writer, Ticketed) = 0
  BY <1>1, CarrierHands, EmptyHand, NoneIsNoPermit
<1>5. /\ page \in Page /\ worker \in Worker /\ 0 \in 0..MaxInputs
      /\ sweep \in [reserved : 0..Worst, frames : 0..Worst]
  BY <1>1, FreeIsWorker, OutboundAssumption DEF Page, NoPage
<1>6. Typed
  <2>1. /\ queue \in Seq(Commands) /\ Len(queue) <= QueueRoom
        /\ held \in Seq(Frame) /\ prio \in Seq(Frame) /\ out \in Seq(Frame) /\ Len(out) <= Room
    BY <1>1, <1>2, OutboundAssumption
  <2>2. fate \in [Commands -> Fates] /\ pump \in Carrier /\ writer \in Carrier
    BY <1>1, CarrierHands DEF Fates
  <2>3. /\ heard \subseteq Commands /\ walked \subseteq Commands
        /\ bytes \in Nat /\ tickets \in Nat /\ slots \in Nat /\ sweeps \in 0..MaxInputs
        /\ loop \in {"reading", "announcing", "closing", "leaving", "gone"}
        /\ notified \in BOOLEAN /\ peer \in {"reading", "stopped", "gone"}
    BY <1>1, <1>5, OutboundAssumption
  <2> QED BY <1>5, <2>1, <2>2, <2>3 DEF Typed
<1>7. Lanes
  BY <1>1, <1>2, CarrierHands DEF Lanes, Onto, Carries, NoFrame
<1>8. Reserved
  BY <1>1 DEF Reserved, Free
<1>9. Bytes /\ Vouchers
  <2>1. worker.reserved = 0 /\ sweep.reserved = 0
    BY <1>1 DEF Free
  <2> QED BY <1>1, <1>3, <1>4, <2>1, OutboundAssumption DEF Bytes, Vouchers, Charges, Tickets
<1> QED
  BY <1>6, <1>7, <1>8, <1>9 DEF Loads

LEMMA LoadsKept ==
  ASSUME Loads, Stations, heard' \subseteq Commands, [Next]_vars
  PROVE  Loads'
<1>1. CASE \E c \in Commands : Read(c)
  BY <1>1, ReadLoads
<1>2. CASE Timer \/ Stop \/ HangUp
  BY <1>2, QuietLoads
<1>3. CASE Evict
  BY <1>3, EvictLoads
<1>4. CASE Sweep
  BY <1>4, SweepLoads
<1>5. CASE Deliver
  BY <1>5, DeliverLoads
<1>6. CASE Beat
  BY <1>6, BeatLoads
<1>7. CASE Dispatcher
  BY <1>7, TakeLoads, SpawnLoads, DeclineLoads, RefuseLoads, ActLoads, PublishLoads, AbortLoads
     DEF Dispatcher
<1>8. CASE Pages
  BY <1>8, PagesLoads
<1>9. CASE Pump
  BY <1>9, PumpTakeLoads, PumpSendLoads, PumpEndLoads DEF Pump
<1>10. CASE Writer
  BY <1>10, WriterTakeLoads, WriteLoads, WriterEndLoads DEF Writer
<1>11. CASE Loop
  <2>1. ASSUME Announce PROVE Loads'
    BY <2>1, SendLoads DEF Announce
  <2>2. ASSUME Close PROVE Loads'
    BY <2>2, SendLoads DEF Close
  <2> QED BY <1>11, <2>1, <2>2, QuietLoads, DepartLoads DEF Loop
<1>12. CASE UNCHANGED vars
  <2>1. Typed'
    BY <1>12 DEF vars, Loads, Typed, commands, delivery, lanes
  <2>2. Lanes' /\ Reserved' /\ Bytes' /\ Vouchers'
    BY <1>12, Untouched DEF vars, commands, delivery
  <2> QED BY <2>1, <2>2 DEF Loads
<1> QED
  BY <1>1, <1>2, <1>3, <1>4, <1>5, <1>6, <1>7, <1>8, <1>9, <1>10, <1>11, <1>12 DEF Next
----------------------------------------------------------------------------
(* Where the commands are.                                                 *)

Places == slots + Len(queue) + (IF Busy THEN 1 ELSE 0) = Slots

\* A command the loop reads is later than all it has read.
LEMMA Fresh ==
  ASSUME Loads, Stations, NEW c \in Commands, NextUnread(c), NEW d \in Commands, fate[d] # "unread"
  PROVE  d < c
<1>1. c \in Int /\ d \in Int /\ d # c
  BY OutboundAssumption DEF Commands, NextUnread
<1>2. ~(c < d)
  BY DEF Stations, ReadInOrder, NextUnread
<1> QED
  BY <1>1, <1>2

\* Commands that were read stay read.
LEMMA StillInOrder ==
  ASSUME Loads, Stations, fate' \in [Commands -> Fates],
         \A c \in Commands : fate'[c] = "unread" <=> fate[c] = "unread"
  PROVE  ReadInOrder'
BY DEF Stations, ReadInOrder

LEMMA QueueType ==
  ASSUME Loads
  PROVE  /\ queue \in Seq(Commands) /\ Len(queue) \in Nat /\ DOMAIN queue = 1..Len(queue)
         /\ \A i \in DOMAIN queue : queue[i] \in Commands
         /\ worker \in Worker /\ page \in Page /\ slots \in Nat
         /\ fate \in [Commands -> Fates] /\ walked \subseteq Commands
         /\ \A c \in Commands : c \in Nat /\ c > 0
BY LenProperties, ElementOfSeq, OutboundAssumption DEF Loads, Typed, Commands

LEMMA QuietPlaces ==
  ASSUME Stations, Places, UNCHANGED commands
  PROVE  Stations' /\ Places'
BY DEF Stations, Places, ReadInOrder, Queued, Deciding, Paging, Busy, commands

LEMMA ReadPlaces ==
  ASSUME Loads, Stations, Places, NEW c \in Commands, Read(c)
  PROVE  Stations' /\ Places'
<1>1. /\ NextUnread(c) /\ fate[c] = "unread" /\ UNCHANGED <<worker, page, walked>>
      /\ \A d \in Commands : fate[d] # "unread" => d < c
  BY Fresh DEF Read, NextUnread
<1>2. PICK x \in {"turned", "queued"} : fate' = [fate EXCEPT ![c] = x]
  BY DEF Read, Enqueue, TurnUnread, Turn
<1>3. ReadInOrder'
  <2> SUFFICES ASSUME NEW a \in Commands, NEW b \in Commands, a < b, fate'[b] # "unread"
               PROVE  fate'[a] # "unread"
    BY DEF ReadInOrder
  <2>1. CASE b = c
    <3>1. a \in 1..(c - 1)
      BY <2>1, QueueType DEF Commands
    <3> QED BY <1>1, <1>2, <3>1, QueueType DEF NextUnread
  <2>2. CASE b # c
    BY <1>2, <2>2, QueueType DEF Stations, ReadInOrder
  <2> QED BY <2>1, <2>2
<1>4. Paging'
  BY <1>1, <1>2, QueueType DEF Stations, Paging
<1>5. CASE Enqueue(c)
  <2>1. /\ queue' = Append(queue, c) /\ slots' = slots - 1 /\ fate' = [fate EXCEPT ![c] = "queued"]
    BY <1>5 DEF Enqueue
  <2>2. /\ DOMAIN queue' = 1..(Len(queue) + 1) /\ Len(queue') = Len(queue) + 1
        /\ \A i \in 1..Len(queue) : queue'[i] = queue[i]
        /\ queue'[Len(queue) + 1] = c
    BY <2>1, QueueType, AppendProperties, LenProperties
  <2>3. \A i \in 1..Len(queue) : queue[i] \in Commands /\ fate[queue[i]] = "queued" /\ queue[i] < c
    BY <1>1, QueueType DEF Stations, Queued
  <2>4. Queued'
    <3>1. \A i \in DOMAIN queue' : fate'[queue'[i]] = "queued"
      BY <2>1, <2>2, <2>3, QueueType
    <3>2. ASSUME NEW i \in DOMAIN queue', NEW j \in DOMAIN queue', i < j
          PROVE  queue'[i] < queue'[j]
      <4>1. i \in 1..Len(queue)
        BY <2>2, <3>2, QueueType
      <4>2. CASE j = Len(queue) + 1
        BY <2>2, <2>3, <4>1, <4>2
      <4>3. CASE j # Len(queue) + 1
        <5>1. j \in 1..Len(queue)
          BY <2>2, <4>3, QueueType
        <5> QED BY <2>2, <3>2, <4>1, <5>1, QueueType DEF Stations, Queued
      <4> QED BY <4>2, <4>3
    <3> QED BY <3>1, <3>2 DEF Queued
  <2>5. Deciding'
    <3>1. Busy => worker.cmd \in Commands /\ fate[worker.cmd] # "unread"
      BY DEF Stations, Deciding, Busy
    <3>2. Busy => worker.cmd < c
      BY <1>1, <3>1
    <3>3. Busy => \A i \in DOMAIN queue' : worker.cmd < queue'[i]
      BY <2>2, <3>2, QueueType DEF Stations, Deciding
    <3> QED BY <1>1, <2>1, <3>1, <3>2, <3>3, QueueType DEF Stations, Deciding, Busy
  <2>6. Places'
    BY <1>1, <2>1, <2>2, QueueType DEF Places, Busy
  <2> QED BY <1>3, <1>4, <2>4, <2>5, <2>6 DEF Stations
<1>6. CASE TurnUnread(c)
  <2>1. UNCHANGED <<queue, slots>>
    BY <1>6 DEF TurnUnread
  <2>2. Queued'
    BY <1>1, <1>2, <2>1, QueueType DEF Stations, Queued
  <2>3. Deciding'
    BY <1>1, <1>2, <2>1, QueueType DEF Stations, Deciding, Busy
  <2>4. Places'
    BY <1>1, <2>1 DEF Places, Busy
  <2> QED BY <1>3, <1>4, <2>2, <2>3, <2>4 DEF Stations
<1> QED
  BY <1>5, <1>6 DEF Read

LEMMA TakePlaces ==
  ASSUME Loads, Stations, Places, Take
  PROVE  Stations' /\ Places'
<1> DEFINE h == Head(queue)
<1>1. /\ worker.step = "idle" /\ queue # <<>> /\ queue' = Tail(queue)
      /\ worker' = [Free EXCEPT !.step = "deciding", !.cmd = h]
      /\ fate' = [fate EXCEPT ![h] = "deciding"] /\ UNCHANGED <<slots, page, walked>>
  BY DEF Take
<1>2. /\ h \in Commands /\ h = queue[1] /\ Len(queue) \in Nat \ {0}
      /\ Tail(queue) \in Seq(Commands) /\ Len(Tail(queue)) = Len(queue) - 1
      /\ \A i \in 1..(Len(queue) - 1) : Tail(queue)[i] = queue[i + 1]
  BY <1>1, QueueType, HeadAndTail, HeadTailProperties
<1>3. DOMAIN queue' = 1..(Len(queue) - 1) /\ Len(queue') = Len(queue) - 1
  BY <1>1, <1>2, LenProperties
<1>4. \A i \in 1..(Len(queue) - 1) :
        queue'[i] = queue[i + 1] /\ i + 1 \in DOMAIN queue /\ queue'[i] \in Commands
  BY <1>1, <1>2, QueueType
<1>5. 1 \in DOMAIN queue /\ fate[h] = "queued"
  BY <1>2, QueueType DEF Stations, Queued
<1>6. worker'.step = "deciding" /\ worker'.cmd = h
  BY <1>1 DEF Free
<1> HIDE DEF h
<1>7. \A i \in DOMAIN queue' : h < queue'[i]
  <2> TAKE i \in DOMAIN queue'
  <2>1. i + 1 \in DOMAIN queue /\ queue'[i] = queue[i + 1] /\ 1 < i + 1
    BY <1>3, <1>4
  <2> QED BY <1>2, <1>5, <2>1 DEF Stations, Queued
<1>8. Queued'
  <2>1. ASSUME NEW i \in DOMAIN queue', NEW j \in DOMAIN queue', i < j PROVE queue'[i] < queue'[j]
    <3>1. i + 1 < j + 1
      BY <1>3, <2>1
    <3> QED BY <1>3, <1>4, <3>1 DEF Stations, Queued
  <2>2. ASSUME NEW i \in DOMAIN queue' PROVE fate'[queue'[i]] = "queued"
    <3>1. queue'[i] # h /\ queue'[i] \in Commands /\ h \in Nat
      BY <1>2, <1>3, <1>4, <1>7, QueueType
    <3>2. fate[queue'[i]] = "queued"
      BY <1>3, <1>4 DEF Stations, Queued
    <3> QED BY <1>1, <3>1, <3>2, QueueType
  <2> QED BY <2>1, <2>2 DEF Queued
<1>9. Deciding'
  BY <1>1, <1>2, <1>6, <1>7, QueueType DEF Deciding, Busy
<1>10. Paging'
  BY <1>1, <1>5, QueueType DEF Stations, Paging
<1>11. ReadInOrder'
  <2>1. fate' \in [Commands -> Fates]
    BY <1>1, QueueType DEF Fates
  <2> QED BY <1>1, <1>5, <2>1, QueueType, StillInOrder
<1>12. Places'
  BY <1>1, <1>2, <1>3, <1>6, QueueType DEF Places, Busy
<1> QED
  BY <1>8, <1>9, <1>10, <1>11, <1>12 DEF Stations

\* Of a command that is in no queue the fate may change.
LEMMA QueueStays ==
  ASSUME Loads, Stations, queue' = queue,
         \A c \in Commands : fate[c] = "queued" => fate'[c] = "queued"
  PROVE  Queued'
BY QueueType DEF Stations, Queued

\* The dispatcher is done with its command.
LEMMA FreedPlaces ==
  ASSUME Loads, Stations, Places, Busy, worker' = Free, slots' = slots + 1, queue' = queue
  PROVE  Deciding' /\ Places'
<1>1. Free.step = "idle" /\ Free.cmd = 0
  BY DEF Free
<1>2. Deciding'
  BY <1>1 DEF Deciding, Busy
<1>3. Places'
  BY <1>1, QueueType DEF Places, Busy
<1> QED
  BY <1>2, <1>3

LEMMA DecidedCmd ==
  ASSUME Loads, Stations, Busy
  PROVE  worker.cmd \in Commands /\ fate[worker.cmd] \in {"deciding", "refused", "acted"}
BY DEF Stations, Deciding, Busy

LEMMA SpawnPlaces ==
  ASSUME Loads, Stations, Places, Spawn
  PROVE  Stations' /\ Places'
<1> DEFINE c == worker.cmd
<1>1. /\ worker.step = "deciding" /\ Busy /\ c \in Commands /\ fate[c] = "deciding"
      /\ worker' = Free /\ slots' = slots + 1 /\ UNCHANGED <<queue, walked>>
  BY DEF Spawn, Stations, Deciding, Busy
<1> HIDE DEF c
<1>2. Deciding' /\ Places'
  BY <1>1, FreedPlaces
<1>3. \/ /\ page.step = "none" /\ page' = [step |-> "waiting", cmd |-> c]
         /\ fate' = [fate EXCEPT ![c] = "paging"]
      \/ page' = page /\ fate' = [fate EXCEPT ![c] = "turned"]
  BY DEF Spawn, Turn, c
<1>4. ReadInOrder'
  <2>1. fate' \in [Commands -> Fates]
    BY <1>1, <1>3, QueueType DEF Fates
  <2> QED BY <1>1, <1>3, <2>1, QueueType, StillInOrder
<1>5. Queued'
  BY <1>1, <1>3, QueueType, QueueStays
<1>6. Paging'
  BY <1>1, <1>3, QueueType DEF Stations, Paging
<1> QED
  BY <1>2, <1>4, <1>5, <1>6 DEF Stations

LEMMA DeclinePlaces ==
  ASSUME Loads, Stations, Places, Decline
  PROVE  Stations' /\ Places'
<1> DEFINE c == worker.cmd
<1>1. /\ worker.step = "deciding" /\ Busy /\ c \in Commands /\ fate[c] = "deciding"
      /\ worker' = Free /\ slots' = slots + 1 /\ UNCHANGED <<queue, page, walked>>
      /\ fate' = [fate EXCEPT ![c] = "turned"]
  BY DEF Decline, Stations, Deciding, Busy, Turn
<1> HIDE DEF c
<1>2. Deciding' /\ Places'
  BY <1>1, FreedPlaces
<1>3. ReadInOrder'
  <2>1. fate' \in [Commands -> Fates]
    BY <1>1, QueueType DEF Fates
  <2> QED BY <1>1, <2>1, QueueType, StillInOrder
<1>4. Queued'
  BY <1>1, QueueType, QueueStays
<1>5. Paging'
  BY <1>1, QueueType DEF Stations, Paging
<1> QED
  BY <1>2, <1>3, <1>4, <1>5 DEF Stations

LEMMA ReservePlaces ==
  ASSUME Loads, Stations, Places, NEW fateOf \in {"acted", "refused"},
         NEW n, NEW frames, Reserve(fateOf, n, frames)
  PROVE  Stations' /\ Places'
<1> DEFINE c == worker.cmd
<1>1. /\ worker.step = "deciding" /\ Busy /\ c \in Commands /\ fate[c] = "deciding"
      /\ worker'.step = "publishing" /\ worker'.cmd = c
      /\ UNCHANGED <<queue, slots, page, walked>>
      /\ fate' = [fate EXCEPT ![c] = fateOf]
  BY QueueType DEF Reserve, Stations, Deciding, Busy, Worker
<1> HIDE DEF c
<1>2. Deciding'
  BY <1>1, QueueType DEF Stations, Deciding, Busy, c
<1>3. ReadInOrder'
  <2>1. fate' \in [Commands -> Fates]
    BY <1>1, QueueType DEF Fates
  <2> QED BY <1>1, <2>1, QueueType, StillInOrder
<1>4. Queued'
  BY <1>1, QueueType, QueueStays
<1>5. Paging'
  BY <1>1, QueueType DEF Stations, Paging
<1>6. Places'
  BY <1>1 DEF Places, Busy
<1> QED
  BY <1>2, <1>3, <1>4, <1>5, <1>6 DEF Stations

LEMMA PublishPlaces ==
  ASSUME Loads, Stations, Places, Publish
  PROVE  Stations' /\ Places'
<1>1. /\ Busy /\ worker' = Free /\ slots' = slots + 1 /\ UNCHANGED <<fate, queue, page, walked>>
  BY DEF Publish, Busy
<1>2. Deciding' /\ Places'
  BY <1>1, FreedPlaces
<1>3. ReadInOrder' /\ Queued' /\ Paging'
  BY <1>1 DEF Stations, ReadInOrder, Queued, Paging
<1> QED
  BY <1>2, <1>3 DEF Stations

\* Every queued command has a place of its own.
LEMMA QueuedCount ==
  ASSUME Loads, Stations
  PROVE  IsFiniteSet(ToSet(queue)) /\ Cardinality(ToSet(queue)) = Len(queue)
<1> DEFINE n == Len(queue)
<1>1. n \in Nat /\ DOMAIN queue = 1..n /\ ToSet(queue) = {queue[i] : i \in 1..n}
  BY QueueType DEF ToSet
<1>2. queue \in [1..n -> ToSet(queue)]
  <2>1. queue = [i \in 1..n |-> queue[i]]
    BY <1>1, QueueType
  <2> QED BY <1>1, <2>1
<1>3. \A i, j \in 1..n : queue[i] = queue[j] => i = j
  <2> SUFFICES ASSUME NEW i \in 1..n, NEW j \in 1..n, queue[i] = queue[j], i # j PROVE FALSE
    OBVIOUS
  <2>1. queue[i] \in Nat /\ queue[j] \in Nat /\ (i < j \/ j < i)
    BY <1>1, QueueType
  <2>2. i < j => queue[i] < queue[j]
    BY <1>1 DEF Stations, Queued
  <2>3. j < i => queue[j] < queue[i]
    BY <1>1 DEF Stations, Queued
  <2> QED BY <2>1, <2>2, <2>3
<1>4. \A c \in ToSet(queue) : \E i \in 1..n : queue[i] = c
  BY <1>1
<1> HIDE DEF n
<1>5. queue \in Bijection(1..n, ToSet(queue))
  BY <1>2, <1>3, <1>4 DEF Bijection, Injection, Surjection, IsInjective
<1>6. ExistsBijection(1..n, ToSet(queue))
  BY <1>5 DEF ExistsBijection
<1>7. IsFiniteSet(1..n) /\ Cardinality(1..n) = n
  BY <1>1, FS_Interval
<1> QED
  BY <1>6, <1>7, FS_Bijection DEF n

LEMMA AbortPlaces ==
  ASSUME Loads, Stations, Places, AbortWorker
  PROVE  Stations' /\ Places'
<1> DEFINE Q == ToSet(queue)
           dropped == Q \cup (IF worker.step = "deciding" THEN {worker.cmd} ELSE {})
<1>1. /\ worker.step \in {"idle", "deciding"}
      /\ worker'.step = "ended" /\ worker'.cmd = 0 /\ queue' = <<>>
      /\ slots' = slots + Cardinality(dropped) /\ UNCHANGED <<page, walked>>
      /\ fate' = [c \in Commands |-> IF c \in dropped THEN "dropped" ELSE fate[c]]
  BY DEF AbortWorker, Free
<1>2. IsFiniteSet(Q) /\ Cardinality(Q) = Len(queue) /\ Len(queue) \in Nat
  BY QueuedCount, QueueType
<1>3. \A c \in Q : c \in Commands /\ fate[c] = "queued"
  BY QueueType DEF Stations, Queued, ToSet
<1>4. Busy => worker.step = "deciding" /\ worker.cmd \in Commands /\ fate[worker.cmd] = "deciding"
  BY <1>1 DEF Stations, Deciding, Busy
<1>5. Cardinality(dropped) = Len(queue) + (IF Busy THEN 1 ELSE 0)
  <2>1. CASE Busy
    <3>1. dropped = Q \cup {worker.cmd} /\ worker.cmd \notin Q
      BY <1>3, <1>4, <2>1
    <3>2. Cardinality(Q \cup {worker.cmd}) = Cardinality(Q) + 1
      BY <1>2, <3>1, FS_AddElement
    <3>3. Cardinality(dropped) = Cardinality(Q) + 1
      BY <3>1, <3>2
    <3> HIDE DEF dropped, Q
    <3> QED BY <1>2, <2>1, <3>3
  <2>2. CASE ~Busy
    <3>1. dropped = Q
      BY <2>2 DEF Busy
    <3>2. Cardinality(dropped) = Cardinality(Q)
      BY <3>1
    <3> HIDE DEF dropped, Q
    <3> QED BY <1>2, <2>2, <3>2
  <2> QED BY <2>1, <2>2
<1>6. \A c \in dropped : c \in Commands /\ fate[c] \in {"queued", "deciding"}
  BY <1>3, <1>4 DEF Busy
<1> HIDE DEF dropped, Q
<1>7. Places'
  <2>1. ~Busy' /\ Len(queue') = 0
    BY <1>1 DEF Busy
  <2> QED BY <1>1, <1>2, <1>5, <2>1, QueueType DEF Places
<1>8. ReadInOrder'
  <2>1. fate' \in [Commands -> Fates]
    BY <1>1, QueueType DEF Fates
  <2> QED BY <1>1, <1>6, <2>1, QueueType, StillInOrder
<1>9. Queued'
  BY <1>1 DEF Queued
<1>10. Deciding'
  BY <1>1 DEF Deciding, Busy
<1>11. Paging'
  BY <1>1, <1>6, QueueType DEF Stations, Paging
<1> QED
  BY <1>7, <1>8, <1>9, <1>10, <1>11 DEF Stations

\* A history task moves its own command.
PageMove(c, x) ==
  /\ fate[c] = "paging" /\ fate' = [fate EXCEPT ![c] = x]
  /\ \/ /\ page.step # "none" /\ c = page.cmd /\ walked' = walked
        /\ \/ page' = NoPage
           \/ x = "paging" /\ page' = [page EXCEPT !.step = "walking"]
     \/ /\ page.step # "none" /\ c = page.cmd /\ walked' = walked \cup {c}
        /\ x = "paging" /\ page' = NoPage
     \/ c \in walked /\ walked' = walked \ {c} /\ page' = page

LEMMA PageMoves ==
  ASSUME Loads, Stations, Pages
  PROVE  \E c \in Commands, x \in {"paging", "turned", "paged"} : PageMove(c, x)
<1>1. \A c \in Commands : fate[c] = "paging" => fate = [fate EXCEPT ![c] = "paging"]
  BY QueueType
<1>2. CASE Slot
  <2>1. page.step # "none" /\ page.cmd \in Commands /\ fate[page.cmd] = "paging" /\ walked' = walked
    BY <1>2 DEF Slot, Stations, Paging
  <2>2. CASE page' = [page EXCEPT !.step = "walking"] /\ fate' = fate
    BY <1>1, <2>1, <2>2 DEF PageMove
  <2>3. CASE page' = NoPage /\ fate' = [fate EXCEPT ![page.cmd] = "turned"]
    BY <2>1, <2>3 DEF PageMove
  <2> QED BY <1>2, <2>2, <2>3 DEF Slot, Turn
<1>3. CASE Walk
  <2>1. /\ page.step # "none" /\ page.cmd \in Commands /\ fate[page.cmd] = "paging"
        /\ page' = NoPage /\ walked' = walked \cup {page.cmd} /\ fate' = fate
    BY <1>3 DEF Walk, Stations, Paging
  <2> QED BY <1>1, <2>1 DEF PageMove
<1>4. ASSUME NEW c \in Commands, Finish(c)
      PROVE  \E x \in {"turned", "paged"} : PageMove(c, x)
  <2>1. /\ c \in walked /\ walked' = walked \ {c} /\ page' = page /\ fate[c] = "paging"
        /\ fate' = [fate EXCEPT ![c] = "turned"] \/ fate' = [fate EXCEPT ![c] = "paged"]
    BY <1>4 DEF Finish, Turn, Stations, Paging
  <2> QED BY <2>1 DEF PageMove
<1> QED
  BY <1>2, <1>3, <1>4 DEF Pages

LEMMA PagesPlaces ==
  ASSUME Loads, Stations, Places, Pages
  PROVE  Stations' /\ Places'
<1>1. UNCHANGED <<queue, slots, worker>>
  BY DEF Pages, Slot, Walk, Finish
<1>2. PICK c \in Commands, x \in {"paging", "turned", "paged"} : PageMove(c, x)
  BY PageMoves
<1>3. fate[c] = "paging" /\ fate' = [fate EXCEPT ![c] = x]
  BY <1>2 DEF PageMove
<1>4. ReadInOrder'
  <2>1. fate' \in [Commands -> Fates]
    BY <1>3, QueueType DEF Fates
  <2> QED BY <1>2, <1>3, <2>1, QueueType, StillInOrder
<1>5. Queued'
  BY <1>1, <1>3, QueueType, QueueStays
<1>6. Deciding'
  BY <1>1, <1>3, QueueType DEF Stations, Deciding, Busy
<1>7. /\ NoPage.step = "none"
      /\ page' = [page EXCEPT !.step = "walking"] => page'.cmd = page.cmd
  BY QueueType DEF NoPage, Page
<1>8. /\ page.step # "none" => page.cmd \in Commands \ walked /\ fate[page.cmd] = "paging"
      /\ \A d \in walked : d \in Commands /\ fate[d] = "paging"
  BY QueueType DEF Stations, Paging
<1>9. \A d \in Commands : fate'[d] = IF d = c THEN x ELSE fate[d]
  BY <1>3, QueueType
<1>10. Paging'
  <2>1. CASE page.step # "none" /\ c = page.cmd /\ walked' = walked /\ page' = NoPage
    BY <1>7, <1>8, <1>9, <2>1 DEF Paging
  <2>2. CASE /\ page.step # "none" /\ c = page.cmd /\ walked' = walked
             /\ x = "paging" /\ page' = [page EXCEPT !.step = "walking"]
    BY <1>7, <1>8, <1>9, <2>2 DEF Paging
  <2>3. CASE walked' = walked \cup {c} /\ x = "paging" /\ page' = NoPage
    BY <1>7, <1>8, <1>9, <2>3 DEF Paging
  <2>4. CASE c \in walked /\ walked' = walked \ {c} /\ page' = page
    BY <1>8, <1>9, <2>4 DEF Paging
  <2> QED BY <1>2, <2>1, <2>2, <2>3, <2>4 DEF PageMove
<1>11. Places'
  BY <1>1 DEF Places, Busy
<1> QED
  BY <1>4, <1>5, <1>6, <1>10, <1>11 DEF Stations

LEMMA InitPlaces == Init => Stations /\ Places
<1> SUFFICES ASSUME Init PROVE Stations /\ Places
  OBVIOUS
<1>1. /\ fate = [c \in Commands |-> "unread"] /\ queue = <<>> /\ slots = Slots
      /\ worker.step = "idle" /\ worker.cmd = 0 /\ page.step = "none" /\ walked = {}
  BY DEF Init, Free, NoPage
<1>2. Len(queue) = 0 /\ DOMAIN queue = {}
  BY <1>1
<1> QED
  BY <1>1, <1>2, OutboundAssumption
     DEF Stations, Places, ReadInOrder, Queued, Deciding, Paging, Busy

LEMMA PlacesKept ==
  ASSUME Loads, Stations, Places, [Next]_vars
  PROVE  Stations' /\ Places'
<1>1. CASE \E c \in Commands : Read(c)
  BY <1>1, ReadPlaces
<1>2. CASE Dispatcher
  <2>1. CASE Refuse \/ Act
    <3>1. \E x \in {"acted", "refused"}, n \in {1, Worst}, frames \in 1..Worst \cup {1} :
            Reserve(x, n, frames)
      BY <2>1 DEF Refuse, Act
    <3> QED BY <3>1, ReservePlaces
  <2> QED BY <1>2, <2>1, TakePlaces, SpawnPlaces, DeclinePlaces, PublishPlaces, AbortPlaces
          DEF Dispatcher
<1>3. CASE Pages
  BY <1>3, PagesPlaces
<1>4. CASE Timer \/ Evict \/ Stop \/ HangUp \/ Sweep \/ Deliver \/ Beat
  BY <1>4, QuietPlaces DEF Timer, Evict, Stop, HangUp, Sweep, Deliver, Beat
<1>5. CASE Pump
  BY <1>5, QuietPlaces DEF Pump, PumpTake, PumpSend, PumpEnd
<1>6. CASE Writer
  BY <1>6, QuietPlaces DEF Writer, WriterTake, Write, WriterEnd
<1>7. CASE Loop
  BY <1>7, QuietPlaces DEF Loop, Announce, Close, Leave, Depart, Send
<1>8. CASE UNCHANGED vars
  BY <1>8, QuietPlaces DEF vars
<1> QED
  BY <1>1, <1>2, <1>3, <1>4, <1>5, <1>6, <1>7, <1>8 DEF Next
----------------------------------------------------------------------------
(* What the peer is told.                                                  *)

\* What is on its way may be lost, never overtaken.
Awake == Listening /\ loop \notin {"leaving", "gone"}

LEMMA SpokenType ==
  ASSUME Loads, Told
  PROVE  /\ Spoken \subseteq Commands
         /\ held \in Seq(AnyFrame) /\ out \in Seq(AnyFrame)
         /\ pump.frame \in AnyFrame /\ writer.frame \in AnyFrame
BY Numbers DEF Loads, Told, Decided

\* Nobody speaks and no command is decided.
LEMMA DecidedStays ==
  ASSUME Loads, Told, Spoken' \subseteq Spoken, UNCHANGED <<queue, worker>>,
         \A c \in Commands : fate[c] \in {"refused", "acted"} => fate'[c] = fate[c]
  PROVE  Decided'
<1>1. \A c \in Spoken' : /\ c \in Commands /\ fate[c] \in {"refused", "acted"}
                         /\ Busy => c < worker.cmd
                         /\ \A i \in DOMAIN queue : c < queue[i]
  BY DEF Told, Decided
<1> QED
  BY <1>1 DEF Decided, Busy

LEMMA RetryStays ==
  ASSUME Loads, Told,
         \A f \in ToSet(prio') \cup {writer'.frame} :
           \/ f \in ToSet(prio) \cup {writer.frame}
           \/ f.kind # "refusal" \/ f.cmd = 0 \/ fate'[f.cmd] = "turned",
         \A c \in Commands : fate[c] = "turned" => fate'[c] = "turned"
  PROVE  RetryIsSafe'
<1>1. \A f \in ToSet(prio) \cup {writer.frame} : f \in AnyFrame
  BY SpokenType, ElementOfSeq DEF Loads, Typed, ToSet, AnyFrame
<1>2. \A f \in AnyFrame : f.kind = "refusal" /\ f.cmd # 0 => f.cmd \in Commands
  BY OutboundAssumption DEF AnyFrame, Frame, NoFrame, Commands
<1>3. \A f \in ToSet(prio) \cup {writer.frame} :
        f.kind = "refusal" /\ f.cmd # 0 => fate[f.cmd] = "turned"
  BY DEF Told, RetryIsSafe
<1> QED
  BY <1>1, <1>2, <1>3 DEF RetryIsSafe

LEMMA ActedStays ==
  ASSUME Told, Awake' => Awake, Awake' => Spoken \subseteq Spoken',
         worker'.cmd = worker.cmd,
         \A c \in Commands : fate'[c] = "acted" => fate[c] = "acted" \/ c = worker.cmd
  PROVE  ActedIsTold'
BY DEF Told, ActedIsTold, Awake

LEMMA PumpStill ==
  ASSUME Told, pump' = pump, Awake' => Awake
  PROVE  PumpStays'
BY DEF Told, PumpStays, Awake

\* Nobody speaks.
Silent == UNCHANGED <<heard, held, pump, out, writer>>
LEMMA SilentKeeps ==
  ASSUME Told, Silent
  PROVE  InLine' /\ Spoken' = Spoken
BY DEF Silent, Told, InLine, Spoken, Carried, Said, Sorted, UpTo

LEMMA InLineShrinks ==
  ASSUME Told, Sorted(out'), Sorted(held'), heard' \subseteq heard,
         Carried(writer') \subseteq Carried(writer), Said(out') \subseteq Said(out),
         Carried(pump') \subseteq Carried(pump), Said(held') \subseteq Said(held)
  PROVE  InLine' /\ Spoken' \subseteq Spoken
<1> DEFINE B == Carried(writer)   C == Said(out)   D == Carried(pump)   E == Said(held)
           b == Carried(writer')  c == Said(out')  d == Carried(pump')  e == Said(held')
<1>1. /\ UpTo(heard, B \cup C \cup D \cup E) /\ UpTo(B, C \cup D \cup E)
      /\ UpTo(C, D \cup E) /\ UpTo(D, E)
  BY DEF Told, InLine
<1>2. b \subseteq B /\ c \subseteq C /\ d \subseteq D /\ e \subseteq E /\ heard' \subseteq heard
  OBVIOUS
<1> HIDE DEF B, C, D, E, b, c, d, e
<1>3. /\ UpTo(heard', b \cup c \cup d \cup e) /\ UpTo(b, c \cup d \cup e)
      /\ UpTo(c, d \cup e) /\ UpTo(d, e)
  BY <1>1, <1>2 DEF UpTo
<1>4. InLine'
  BY <1>3 DEF InLine, b, c, d, e
<1>5. Spoken' \subseteq Spoken
  BY <1>2 DEF Spoken, B, C, D, E, b, c, d, e
<1> QED
  BY <1>4, <1>5

\* An empty hand says nothing.
LEMMA HandSays ==
  /\ \A c : c.frame = NoFrame => Carried(c) = {}
  /\ Carried(Empty) = {} /\ Carried(Ended) = {}
<1>1. NoFrame \in AnyFrame /\ NoFrame.kind # "answer"
  BY DEF AnyFrame, NoFrame
<1>2. Said(<<NoFrame>>) = {}
  BY <1>1, SaidOne
<1> QED
  BY <1>2, CarrierHands DEF Carried

LEMMA ToSetAppend ==
  ASSUME NEW S, NEW s \in Seq(S), NEW f
  PROVE  ToSet(Append(s, f)) \subseteq ToSet(s) \cup {f}
<1>1. /\ Len(s) \in Nat /\ DOMAIN s = 1..Len(s) /\ DOMAIN Append(s, f) = 1..(Len(s) + 1)
      /\ \A i \in 1..Len(s) : Append(s, f)[i] = s[i]
      /\ Append(s, f)[Len(s) + 1] = f
  BY LenProperties, AppendProperties
<1>2. ASSUME NEW i \in 1..(Len(s) + 1) PROVE Append(s, f)[i] \in ToSet(s) \cup {f}
  <2>1. CASE i = Len(s) + 1
    BY <1>1, <2>1
  <2>2. CASE i # Len(s) + 1
    <3>1. i \in 1..Len(s)
      BY <1>1, <2>2
    <3> QED BY <1>1, <3>1 DEF ToSet
  <2> QED BY <2>1, <2>2
<1> QED
  BY <1>1, <1>2 DEF ToSet

LEMMA ToSetTail ==
  ASSUME NEW S, NEW s \in Seq(S), s # <<>>
  PROVE  Head(s) \in ToSet(s) /\ ToSet(Tail(s)) \subseteq ToSet(s)
<1>1. /\ Len(s) \in Nat \ {0} /\ DOMAIN s = 1..Len(s) /\ s[1] = Head(s)
      /\ Tail(s) \in Seq(S) /\ DOMAIN Tail(s) = 1..(Len(s) - 1)
      /\ \A i \in 1..(Len(s) - 1) : Tail(s)[i] = s[i + 1]
  BY HeadAndTail, HeadTailProperties, LenProperties
<1>2. ASSUME NEW i \in 1..(Len(s) - 1) PROVE Tail(s)[i] \in ToSet(s)
  <2>1. i + 1 \in 1..Len(s)
    BY <1>1
  <2> QED BY <1>1, <2>1 DEF ToSet
<1>3. 1 \in DOMAIN s
  BY <1>1
<1> QED
  BY <1>1, <1>2, <1>3 DEF ToSet

LEMMA SilentTold ==
  ASSUME Loads, Told, Silent, Decided', Awake' => Awake,
         \A f \in ToSet(prio') :
           f \in ToSet(prio) \/ f.kind # "refusal" \/ f.cmd = 0 \/ fate'[f.cmd] = "turned",
         \A c \in Commands : fate[c] = "turned" => fate'[c] = "turned",
         \A c \in Commands : fate'[c] = "acted" =>
           c = worker'.cmd \/ (fate[c] = "acted" /\ c # worker.cmd)
  PROVE  Told'
<1>1. InLine' /\ Spoken' = Spoken
  BY SilentKeeps
<1>2. RetryIsSafe'
  BY RetryStays DEF Silent
<1>3. PumpStays'
  BY PumpStill DEF Silent
<1>4. ActedIsTold'
  BY <1>1 DEF Told, ActedIsTold, Awake
<1> QED
  BY <1>1, <1>2, <1>3, <1>4 DEF Told

\* Nobody speaks, and neither the dispatcher nor its queue moves.
LEMMA QuietTold ==
  ASSUME Loads, Told, Silent, UNCHANGED <<queue, worker>>, Awake' => Awake,
         \A f \in ToSet(prio') :
           f \in ToSet(prio) \/ f.kind # "refusal" \/ f.cmd = 0 \/ fate'[f.cmd] = "turned",
         \A c \in Commands : fate[c] \in {"refused", "acted", "turned"} => fate'[c] = fate[c],
         \A c \in Commands : fate'[c] = "acted" => fate[c] = "acted"
  PROVE  Told'
<1>1. Spoken' = Spoken
  BY SilentKeeps
<1>2. Decided'
  BY <1>1, DecidedStays
<1>3. \A c \in Commands : fate'[c] = "acted" =>
        c = worker'.cmd \/ (fate[c] = "acted" /\ c # worker.cmd)
  OBVIOUS
<1> QED
  BY <1>2, <1>3, SilentTold

\* Who speaks: the commands stay where they are.
LEMMA MovedTold ==
  ASSUME Loads, Told, InLine', Spoken' \subseteq Spoken, PumpStays',
         UNCHANGED <<fate, queue, worker>>,
         Awake' => Awake /\ Spoken \subseteq Spoken',
         \A f \in ToSet(prio') \cup {writer'.frame} :
           f \in ToSet(prio) \cup {writer.frame} \/ f.kind # "refusal"
  PROVE  Told'
<1>1. Decided'
  BY DecidedStays
<1>2. RetryIsSafe'
  BY RetryStays
<1>3. ActedIsTold'
  BY ActedStays
<1> QED
  BY <1>1, <1>2, <1>3 DEF Told
----------------------------------------------------------------------------
(* Nobody speaks: the read loop and the dispatcher's decisions.            *)

LEMMA TurnTells ==
  ASSUME Loads, NEW c \in Commands, Turn(c)
  PROVE  \A f \in ToSet(prio') :
           f \in ToSet(prio) \/ f.kind # "refusal" \/ f.cmd = 0 \/ fate'[f.cmd] = "turned"
<1> DEFINE r == [kind |-> "refusal", cmd |-> c]
<1>1. prio' \in {prio, Append(prio, r)} /\ fate' = [fate EXCEPT ![c] = "turned"]
  BY TurnPosts
<1>2. r.cmd = c /\ fate'[c] = "turned"
  BY <1>1, QueueType
<1>3. ToSet(Append(prio, r)) \subseteq ToSet(prio) \cup {r}
  BY ToSetAppend DEF Loads, Typed
<1> HIDE DEF r
<1> QED
  BY <1>1, <1>2, <1>3

LEMMA IdleTold ==
  ASSUME Loads, Told, Timer \/ Leave \/ Stop \/ HangUp \/ UNCHANGED vars
  PROVE  Told'
<1>1. UNCHANGED <<commands, lanes, heard>> /\ (loop' = loop \/ loop' = "leaving" \/ loop = "reading")
  BY DEF Timer, Leave, Stop, HangUp, vars
<1>2. Silent /\ UNCHANGED <<queue, worker, fate, prio>>
  BY <1>1 DEF Silent, lanes, commands
<1>3. Awake' => Awake
  BY <1>1, <1>2 DEF Awake, Silent, Listening
<1> QED
  BY <1>2, <1>3, QuietTold

LEMMA EvictTold ==
  ASSUME Loads, Told, Evict
  PROVE  Told'
<1> DEFINE f == Plain("close")
<1>1. /\ prio' = IF Listening THEN Append(prio, f) ELSE prio
      /\ UNCHANGED <<commands, held, pump, out, writer, heard, loop>>
  BY DEF Evict
<1>2. f.kind = "close"
  BY PlainIsFrame
<1>3. ToSet(Append(prio, f)) \subseteq ToSet(prio) \cup {f}
  BY ToSetAppend DEF Loads, Typed
<1>4. \A g \in ToSet(prio') : g \in ToSet(prio) \/ g.kind # "refusal"
  BY <1>1, <1>2, <1>3
<1>5. Silent /\ UNCHANGED <<queue, worker, fate>> /\ (Awake' => Awake)
  BY <1>1 DEF Silent, commands, Awake, Listening
<1> QED
  BY <1>4, <1>5, QuietTold

LEMMA SweepTold ==
  ASSUME Loads, Told, Sweep
  PROVE  Told'
<1> DEFINE f == Plain("refusal")
<1>1. /\ prio' \in {prio, Append(prio, f)}
      /\ UNCHANGED <<commands, held, pump, out, writer, heard, loop>>
  BY DEF Sweep, Emit
<1>2. f.cmd = 0
  BY PlainIsFrame
<1>3. ToSet(Append(prio, f)) \subseteq ToSet(prio) \cup {f}
  BY ToSetAppend DEF Loads, Typed
<1>4. \A g \in ToSet(prio') : g \in ToSet(prio) \/ g.cmd = 0
  BY <1>1, <1>2, <1>3
<1>5. Silent /\ UNCHANGED <<queue, worker, fate>> /\ (Awake' => Awake)
  BY <1>1 DEF Silent, commands, Awake, Listening
<1> QED
  BY <1>4, <1>5, QuietTold

LEMMA ReadTold ==
  ASSUME Loads, Stations, Told, NEW c \in Commands, Read(c)
  PROVE  Told'
<1>1. /\ NextUnread(c) /\ fate[c] = "unread" /\ UNCHANGED <<worker, held, pump, out, writer, heard, loop>>
  BY DEF Read, NextUnread
<1>2. Silent /\ (Awake' => Awake) /\ Spoken' = Spoken
  <2>1. Silent
    BY <1>1 DEF Silent
  <2> QED BY <1>1, <2>1, SilentKeeps DEF Awake, Listening
<1>3. CASE TurnUnread(c)
  <2>1. Turn(c) /\ queue' = queue /\ fate' = [fate EXCEPT ![c] = "turned"]
    BY <1>3 DEF TurnUnread, Turn
  <2>2. /\ \A d \in Commands : fate[d] \in {"refused", "acted", "turned"} => fate'[d] = fate[d]
        /\ \A d \in Commands : fate'[d] = "acted" => fate[d] = "acted"
    BY <1>1, <2>1, QueueType
  <2> QED BY <1>1, <1>2, <2>1, <2>2, TurnTells, QuietTold
<1>4. CASE Enqueue(c)
  <2>1. /\ queue' = Append(queue, c) /\ prio' = prio /\ fate' = [fate EXCEPT ![c] = "queued"]
    BY <1>4 DEF Enqueue
  <2>2. /\ DOMAIN queue' = 1..(Len(queue) + 1)
        /\ \A i \in 1..Len(queue) : queue'[i] = queue[i]
        /\ queue'[Len(queue) + 1] = c
    BY <2>1, QueueType, AppendProperties, LenProperties
  <2>3. \A d \in Commands : fate'[d] = IF d = c THEN "queued" ELSE fate[d]
    BY <2>1, QueueType
  <2>4. ASSUME NEW d \in Spoken
        PROVE  /\ d \in Commands /\ fate'[d] \in {"refused", "acted"}
               /\ Busy => d < worker.cmd
               /\ \A i \in DOMAIN queue' : d < queue'[i]
    <3>1. /\ d \in Commands /\ fate[d] \in {"refused", "acted"}
          /\ Busy => d < worker.cmd
          /\ \A i \in DOMAIN queue : d < queue[i]
      BY DEF Told, Decided
    <3>2. d < c
      BY <1>1, <3>1, Fresh
    <3>3. \A i \in DOMAIN queue' : d < queue'[i]
      <4> TAKE i \in DOMAIN queue'
      <4>1. CASE i = Len(queue) + 1
        BY <2>2, <3>2, <4>1
      <4>2. CASE i # Len(queue) + 1
        <5>1. i \in 1..Len(queue)
          BY <2>2, <4>2, QueueType
        <5> QED BY <2>2, <3>1, <5>1, QueueType
      <4> QED BY <4>1, <4>2
    <3> QED BY <1>1, <2>3, <3>1, <3>3
  <2>5. Decided'
    BY <1>1, <1>2, <2>4 DEF Decided, Busy
  <2>6. /\ \A d \in Commands : fate[d] = "turned" => fate'[d] = "turned"
        /\ \A d \in Commands : fate'[d] = "acted" =>
             d = worker'.cmd \/ (fate[d] = "acted" /\ d # worker.cmd)
    BY <1>1, <2>3
  <2> QED BY <1>2, <2>1, <2>5, <2>6, SilentTold
<1> QED
  BY <1>3, <1>4 DEF Read

LEMMA TakeTold ==
  ASSUME Loads, Stations, Told, Take
  PROVE  Told'
<1> DEFINE h == Head(queue)
<1>1. /\ worker.step = "idle" /\ queue # <<>> /\ queue' = Tail(queue)
      /\ worker' = [Free EXCEPT !.step = "deciding", !.cmd = h]
      /\ fate' = [fate EXCEPT ![h] = "deciding"] /\ UNCHANGED <<prio, loop>> /\ Silent
  BY DEF Take, lanes, Silent
<1>2. /\ h \in Commands /\ h = queue[1] /\ 1 \in DOMAIN queue /\ Len(queue) \in Nat \ {0}
      /\ DOMAIN queue' = 1..(Len(queue) - 1)
      /\ \A i \in 1..(Len(queue) - 1) : queue'[i] = queue[i + 1] /\ i + 1 \in DOMAIN queue
  BY <1>1, QueueType, HeadAndTail, HeadTailProperties, LenProperties
<1>3. fate[h] = "queued" /\ worker'.step = "deciding" /\ worker'.cmd = h
  BY <1>1, <1>2 DEF Stations, Queued, Free
<1> HIDE DEF h
<1>4. Spoken' = Spoken /\ (Awake' => Awake)
  BY <1>1, SilentKeeps DEF Awake, Listening, Silent
<1>5. \A d \in Commands : fate'[d] = IF d = h THEN "deciding" ELSE fate[d]
  BY <1>1, QueueType
<1>6. ASSUME NEW d \in Spoken
      PROVE  d \in Commands /\ fate'[d] \in {"refused", "acted"} /\ d < worker'.cmd
             /\ \A i \in DOMAIN queue' : d < queue'[i]
  <2>1. d \in Commands /\ fate[d] \in {"refused", "acted"} /\ \A i \in DOMAIN queue : d < queue[i]
    BY DEF Told, Decided
  <2> QED BY <1>2, <1>3, <1>5, <2>1
<1>7. Decided'
  BY <1>4, <1>6 DEF Decided
<1>8. /\ \A d \in Commands : fate[d] = "turned" => fate'[d] = "turned"
      /\ \A d \in Commands : fate'[d] = "acted" => fate[d] = "acted" /\ d # worker.cmd
  BY <1>1, <1>3, <1>5, QueueType DEF Stations, Deciding, Busy
<1> QED
  BY <1>1, <1>4, <1>7, <1>8, SilentTold

\* The dispatcher turns its command away, or gives it to a history task.
LEMMA PassedTold ==
  ASSUME Loads, Stations, Told, Silent, worker.step = "deciding", worker' = Free,
         UNCHANGED <<queue, loop>>,
         NEW x \in {"turned", "paging"}, fate' = [fate EXCEPT ![worker.cmd] = x],
         \A f \in ToSet(prio') :
           f \in ToSet(prio) \/ f.kind # "refusal" \/ f.cmd = 0 \/ fate'[f.cmd] = "turned"
  PROVE  Told'
<1>1. worker.cmd \in Commands /\ fate[worker.cmd] = "deciding" /\ worker'.step = "idle"
  BY DEF Stations, Deciding, Busy, Free
<1>2. \A d \in Commands : fate'[d] = IF d = worker.cmd THEN x ELSE fate[d]
  BY <1>1, QueueType
<1>3. Spoken' = Spoken /\ (Awake' => Awake)
  BY SilentKeeps DEF Awake, Listening, Silent
<1>4. ASSUME NEW d \in Spoken
      PROVE  d \in Commands /\ fate'[d] \in {"refused", "acted"} /\ \A i \in DOMAIN queue : d < queue[i]
  <2>1. d \in Commands /\ fate[d] \in {"refused", "acted"} /\ \A i \in DOMAIN queue : d < queue[i]
    BY DEF Told, Decided
  <2> QED BY <1>1, <1>2, <2>1
<1>5. Decided'
  BY <1>1, <1>3, <1>4 DEF Decided, Busy
<1>6. /\ \A d \in Commands : fate[d] = "turned" => fate'[d] = "turned"
      /\ \A d \in Commands : fate'[d] = "acted" => fate[d] = "acted" /\ d # worker.cmd
  BY <1>1, <1>2
<1> QED
  BY <1>3, <1>5, <1>6, SilentTold

LEMMA SpawnTold ==
  ASSUME Loads, Stations, Told, Spawn
  PROVE  Told'
<1>1. /\ worker.step = "deciding" /\ worker' = Free /\ UNCHANGED <<queue, loop>> /\ Silent
      /\ worker.cmd \in Commands
  BY DEF Spawn, Silent, Stations, Deciding, Busy
<1>2. CASE page.step = "none"
  <2>1. fate' = [fate EXCEPT ![worker.cmd] = "paging"] /\ prio' = prio
    BY <1>2 DEF Spawn
  <2> QED BY <1>1, <2>1, PassedTold
<1>3. CASE page.step # "none"
  <2>1. Turn(worker.cmd) /\ fate' = [fate EXCEPT ![worker.cmd] = "turned"]
    BY <1>3 DEF Spawn, Turn
  <2> QED BY <1>1, <2>1, TurnTells, PassedTold
<1> QED
  BY <1>2, <1>3

LEMMA DeclineTold ==
  ASSUME Loads, Stations, Told, Decline
  PROVE  Told'
<1>1. /\ worker.step = "deciding" /\ worker' = Free /\ UNCHANGED <<queue, loop>> /\ Silent
      /\ worker.cmd \in Commands
      /\ Turn(worker.cmd) /\ fate' = [fate EXCEPT ![worker.cmd] = "turned"]
  BY DEF Decline, Silent, Stations, Deciding, Busy, Turn
<1> QED
  BY <1>1, TurnTells, PassedTold

LEMMA ReserveTold ==
  ASSUME Loads, Stations, Told, NEW fateOf \in {"acted", "refused"},
         NEW n, NEW frames, Reserve(fateOf, n, frames)
  PROVE  Told'
<1>1. /\ worker.step = "deciding" /\ Busy /\ worker.cmd \in Commands
      /\ fate[worker.cmd] = "deciding" /\ worker'.cmd = worker.cmd
      /\ UNCHANGED <<queue, prio, loop>> /\ Silent
      /\ fate' = [fate EXCEPT ![worker.cmd] = fateOf]
  BY QueueType DEF Reserve, Stations, Deciding, Busy, Worker, lanes, Silent
<1>2. \A d \in Commands : fate'[d] = IF d = worker.cmd THEN fateOf ELSE fate[d]
  BY <1>1, QueueType
<1>3. Spoken' = Spoken /\ (Awake' => Awake)
  BY <1>1, SilentKeeps DEF Awake, Listening, Silent
<1>4. ASSUME NEW d \in Spoken
      PROVE  /\ d \in Commands /\ fate'[d] \in {"refused", "acted"} /\ d < worker.cmd
             /\ \A i \in DOMAIN queue : d < queue[i]
  BY <1>1, <1>2 DEF Told, Decided
<1>5. Decided'
  BY <1>1, <1>3, <1>4 DEF Decided
<1>6. /\ \A d \in Commands : fate[d] = "turned" => fate'[d] = "turned"
      /\ \A d \in Commands : fate'[d] = "acted" =>
           d = worker'.cmd \/ (fate[d] = "acted" /\ d # worker.cmd)
  BY <1>1, <1>2
<1> QED
  BY <1>1, <1>3, <1>5, <1>6, SilentTold

LEMMA AbortTold ==
  ASSUME Loads, Stations, Told, AbortWorker
  PROVE  Told'
<1> DEFINE dropped == ToSet(queue) \cup (IF worker.step = "deciding" THEN {worker.cmd} ELSE {})
<1>1. /\ worker.step \in {"idle", "deciding"} /\ worker'.step = "ended" /\ queue' = <<>>
      /\ fate' = [c \in Commands |-> IF c \in dropped THEN "dropped" ELSE fate[c]]
      /\ UNCHANGED <<prio, loop>> /\ Silent
  BY DEF AbortWorker, Free, lanes, Silent
<1>2. \A c \in ToSet(queue) : c \in Commands /\ fate[c] = "queued"
  BY QueueType DEF Stations, Queued, ToSet
<1>3. /\ worker.step = "deciding" => worker.cmd \in Commands /\ fate[worker.cmd] = "deciding"
      /\ worker.step # "deciding" => worker.cmd = 0
  BY <1>1 DEF Stations, Deciding, Busy
<1>4. \A c \in dropped : c \in Commands /\ fate[c] \in {"queued", "deciding"}
  BY <1>2, <1>3
<1> HIDE DEF dropped
<1>5. Spoken' = Spoken /\ (Awake' => Awake)
  BY <1>1, SilentKeeps DEF Awake, Listening, Silent
<1>6. \A d \in Spoken : d \in Commands /\ fate[d] \in {"refused", "acted"}
  BY DEF Told, Decided
<1>7. \A d \in Commands : fate[d] \in {"refused", "acted", "turned"} => fate'[d] = fate[d]
  BY <1>1, <1>4
<1>8. Decided'
  BY <1>1, <1>5, <1>6, <1>7 DEF Decided, Busy
<1>9. \A d \in Commands : fate'[d] = "acted" => fate[d] = "acted" /\ d # worker.cmd
  BY <1>1, <1>3, <1>4, QueueType
<1> QED
  BY <1>1, <1>5, <1>7, <1>8, <1>9, SilentTold

LEMMA PagesTold ==
  ASSUME Loads, Stations, Told, Pages
  PROVE  Told'
<1>1. UNCHANGED <<queue, worker, loop>> /\ Silent
  BY DEF Pages, Slot, Walk, Finish, lanes, Silent
<1>2. PICK c \in Commands, x \in {"paging", "turned", "paged"} : PageMove(c, x)
  BY PageMoves
<1>3. fate[c] = "paging" /\ \A d \in Commands : fate'[d] = IF d = c THEN x ELSE fate[d]
  BY <1>2, QueueType DEF PageMove
<1>4. \A f \in ToSet(prio') :
        f \in ToSet(prio) \/ f.kind # "refusal" \/ f.cmd = 0 \/ fate'[f.cmd] = "turned"
  <2>1. CASE Slot
    <3>1. page.cmd \in Commands
      BY <2>1 DEF Slot, Stations, Paging
    <3> QED BY <2>1, <3>1, TurnTells DEF Slot
  <2>2. CASE Walk
    BY <2>2 DEF Walk, lanes
  <2>3. ASSUME NEW d \in Commands, Finish(d)
        PROVE  \A f \in ToSet(prio') :
                 f \in ToSet(prio) \/ f.kind # "refusal" \/ f.cmd = 0 \/ fate'[f.cmd] = "turned"
    <3>1. CASE Turn(d)
      BY <3>1, TurnTells
    <3>2. CASE Emit([kind |-> "page", cmd |-> d])
      <4> DEFINE g == [kind |-> "page", cmd |-> d]
      <4>1. prio' \in {prio, Append(prio, g)} /\ g.kind = "page"
        BY <3>2 DEF Emit
      <4>2. ToSet(Append(prio, g)) \subseteq ToSet(prio) \cup {g}
        BY ToSetAppend DEF Loads, Typed
      <4> QED BY <4>1, <4>2
    <3> QED BY <2>3, <3>1, <3>2 DEF Finish
  <2> QED BY <2>1, <2>2, <2>3 DEF Pages
<1>5. /\ \A d \in Commands : fate[d] \in {"refused", "acted", "turned"} => fate'[d] = fate[d]
      /\ \A d \in Commands : fate'[d] = "acted" => fate[d] = "acted"
  BY <1>3
<1>6. Awake' => Awake
  BY <1>1 DEF Awake, Listening, Silent
<1> QED
  BY <1>1, <1>4, <1>5, <1>6, QuietTold
----------------------------------------------------------------------------
(* Who speaks: publications, the pump, the writer.                         *)

LEMMA DeliverTold ==
  ASSUME Loads, Told, Deliver
  PROVE  Told'
<1> DEFINE f == Plain("swept")
<1>1. /\ Submit(f, sweep.reserved, sweep.frames)
      /\ UNCHANGED <<commands, pump, out, prio, writer, heard, loop>>
  BY DEF Deliver
<1>2. f \in Frame /\ f.kind = "swept" /\ f \in AnyFrame
  BY PlainIsFrame DEF AnyFrame
<1>3. sweep.reserved \in Nat /\ sweep.frames \in 0..sweep.reserved
  BY Numbers DEF Loads, Reserved
<1> HIDE DEF f
<1>4. f.kind \in Charged
  BY <1>2 DEF Charged
<1>5. Said(<<f>>) = {}
  BY <1>2, SaidOne
<1>6. Said(held') = Said(held) /\ (Sorted(held) => Sorted(held'))
  <2>1. UpTo(Said(held), Said(<<f>>))
    BY <1>5 DEF UpTo
  <2> QED BY <1>1, <1>2, <1>3, <1>4, <1>5, <2>1, SubmitHolds
<1>7. InLine' /\ Spoken' = Spoken
  BY <1>1, <1>6 DEF Told, InLine, Spoken, Carried, Said, Sorted
<1>8. Awake' => Awake
  BY <1>1 DEF Awake, Listening
<1>9. PumpStays'
  BY <1>1, <1>8, PumpStill
<1>10. UNCHANGED <<fate, queue, worker>>
  BY <1>1 DEF commands
<1> QED
  BY <1>1, <1>7, <1>8, <1>9, <1>10, MovedTold

LEMMA PublishTold ==
  ASSUME Loads, Stations, Told, Publish
  PROVE  Told'
<1> DEFINE f == [kind |-> "answer", cmd |-> worker.cmd]
<1>1. /\ worker.step = "publishing" /\ Submit(f, worker.reserved, worker.frames) /\ worker' = Free
      /\ UNCHANGED <<fate, queue, pump, out, prio, writer, heard, loop>>
  BY DEF Publish
<1>2. /\ worker.cmd \in Commands /\ fate[worker.cmd] \in {"refused", "acted"}
      /\ \A i \in DOMAIN queue : worker.cmd < queue[i]
      /\ worker'.step = "idle" /\ worker'.cmd = 0
  BY <1>1 DEF Stations, Deciding, Busy, Free
<1>3. f \in Frame /\ f.kind = "answer" /\ f.cmd = worker.cmd /\ f \in AnyFrame
  BY <1>2, PlainIsFrame DEF AnyFrame
<1>4. worker.reserved \in Nat /\ worker.frames \in 0..worker.reserved /\ worker.frames > 0
  BY <1>1, Numbers DEF Loads, Reserved
<1> HIDE DEF f
<1>5. f.kind \in Charged /\ Said(<<f>>) = {worker.cmd}
  BY <1>3, SaidOne DEF Charged
<1>6. \A d \in Spoken : d <= worker.cmd
  BY <1>1, <1>2, QueueType DEF Told, Decided, Busy
<1>7. /\ Said(held) \subseteq Said(held') /\ Said(held') \subseteq Said(held) \cup {worker.cmd}
      /\ pump.step # "ended" => Said(held') = Said(held) \cup {worker.cmd}
      /\ Sorted(held')
  <2>1. UpTo(Said(held), Said(<<f>>)) /\ Sorted(held)
    BY <1>5, <1>6 DEF UpTo, Spoken, Told, InLine
  <2> QED BY <1>1, <1>3, <1>4, <1>5, <2>1, SubmitHolds
<1> DEFINE B == Carried(writer)   C == Said(out)   D == Carried(pump)   E == Said(held)
           e == Said(held')
<1>8. B' = B /\ C' = C /\ D' = D
  BY <1>1 DEF Carried, Said
<1>9. InLine'
  <2>1. /\ UpTo(heard, B \cup C \cup D \cup E) /\ UpTo(B, C \cup D \cup E)
        /\ UpTo(C, D \cup E) /\ UpTo(D, E) /\ Sorted(out)
    BY DEF Told, InLine
  <2>2. \A d \in heard \cup B \cup C \cup D : d <= worker.cmd
    BY <1>6 DEF Spoken
  <2> HIDE DEF B, C, D, E, e
  <2>3. e \subseteq E \cup {worker.cmd}
    BY <1>7 DEF E, e
  <2>4. /\ UpTo(heard, B \cup C \cup D \cup e) /\ UpTo(B, C \cup D \cup e)
        /\ UpTo(C, D \cup e) /\ UpTo(D, e)
    BY <2>1, <2>2, <2>3 DEF UpTo
  <2>5. Sorted(out')
    BY <1>1, <2>1 DEF Sorted
  <2>6. /\ UpTo(heard', B' \cup C' \cup D' \cup e) /\ UpTo(B', C' \cup D' \cup e)
        /\ UpTo(C', D' \cup e) /\ UpTo(D', e)
    BY <1>1, <1>8, <2>4
  <2> QED BY <1>7, <2>5, <2>6 DEF InLine, B, C, D, e
<1>10. Spoken' \subseteq Spoken \cup {worker.cmd} /\ Spoken \subseteq Spoken'
  BY <1>1, <1>7, <1>8 DEF Spoken
<1>11. pump.step # "ended" => worker.cmd \in Spoken'
  BY <1>7 DEF Spoken
<1>12. Decided'
  <2>1. ASSUME NEW d \in Spoken \cup {worker.cmd}
        PROVE  d \in Commands /\ fate[d] \in {"refused", "acted"} /\ \A i \in DOMAIN queue : d < queue[i]
    BY <1>2 DEF Told, Decided
  <2> QED BY <1>1, <1>2, <1>10, <2>1 DEF Decided, Busy
<1>13. Awake' <=> Awake
  BY <1>1 DEF Awake, Listening
<1>14. PumpStays'
  BY <1>1, <1>13, PumpStill
<1>15. ActedIsTold'
  <2> SUFFICES ASSUME NEW c \in Commands, fate[c] = "acted", Awake PROVE c \in Spoken'
    BY <1>1, <1>13 DEF ActedIsTold, Awake
  <2>1. pump.step # "ended"
    BY DEF Told, PumpStays, Awake
  <2>2. c = worker.cmd \/ c \in Spoken
    BY DEF Told, ActedIsTold, Awake
  <2> QED BY <1>10, <1>11, <2>1, <2>2
<1>16. RetryIsSafe'
  BY <1>1 DEF Told, RetryIsSafe
<1> QED
  BY <1>9, <1>12, <1>14, <1>15, <1>16 DEF Told

LEMMA PumpTakeTold ==
  ASSUME Loads, Told, PumpTake
  PROVE  Told'
<1> DEFINE h == Head(held)   t == Tail(held)
<1>1. /\ pump.step = "idle" /\ held # <<>> /\ held' = t
      /\ pump' = [step |-> "carrying", frame |-> h]
      /\ UNCHANGED <<commands, out, prio, writer, heard, loop>>
  BY DEF PumpTake
<1>2. Said(held) = Said(<<h>>) \cup Said(t) /\ Sorted(t) /\ UpTo(Said(<<h>>), Said(t))
  BY <1>1, SpokenType, SaidTail DEF Told, InLine
<1>3. Carried(pump) = {}
  BY <1>1, HandSays DEF Loads, Lanes, Carries
<1>4. pump'.frame = h /\ pump'.step = "carrying"
  BY <1>1
<1> HIDE DEF h, t
<1> DEFINE B == Carried(writer)   C == Said(out)   E == Said(held)   d == Said(<<h>>)   e == Said(t)
<1>5. /\ UpTo(heard, B \cup C \cup {} \cup E) /\ UpTo(B, C \cup {} \cup E)
      /\ UpTo(C, {} \cup E) /\ Sorted(out)
  BY <1>3 DEF Told, InLine
<1>6. /\ Carried(writer') = B /\ Said(out') = C /\ Carried(pump') = d /\ Said(held') = e
  BY <1>1, <1>4 DEF Carried, Said
<1>7. Spoken' = Spoken
  <2>1. Spoken = heard \cup B \cup C \cup {} \cup E /\ E = d \cup e
    BY <1>2, <1>3 DEF Spoken
  <2>2. Spoken' = heard' \cup B \cup C \cup d \cup e
    BY <1>6 DEF Spoken
  <2> HIDE DEF B, C, E, d, e
  <2> QED BY <1>1, <2>1, <2>2
<1>8. InLine'
  <2>1. E = d \cup e /\ UpTo(d, e)
    BY <1>2
  <2>2. Sorted(out') /\ Sorted(held')
    BY <1>1, <1>2, <1>5 DEF Sorted
  <2> HIDE DEF B, C, E, d, e
  <2>3. /\ UpTo(heard', B \cup C \cup d \cup e) /\ UpTo(B, C \cup d \cup e) /\ UpTo(C, d \cup e)
    BY <1>1, <1>5, <2>1 DEF UpTo
  <2> QED BY <1>6, <2>1, <2>2, <2>3 DEF InLine
<1>9. PumpStays'
  BY <1>4 DEF PumpStays
<1>10. UNCHANGED <<fate, queue, worker>> /\ (Awake' => Awake)
  BY <1>1 DEF commands, Awake, Listening
<1> QED
  BY <1>1, <1>7, <1>8, <1>9, <1>10, MovedTold

LEMMA PumpSendTold ==
  ASSUME Loads, Told, PumpSend
  PROVE  Told'
<1> DEFINE f == pump.frame
<1>1. /\ pump.step = "carrying" /\ out' = Append(out, f) /\ pump' = Empty
      /\ UNCHANGED <<commands, held, prio, writer, heard, loop>>
  BY DEF PumpSend
<1> DEFINE B == Carried(writer)   C == Said(out)   D == Carried(pump)   E == Said(held)
<1>2. /\ UpTo(heard, B \cup C \cup D \cup E) /\ UpTo(B, C \cup D \cup E)
      /\ UpTo(C, D \cup E) /\ UpTo(D, E) /\ Sorted(out) /\ Sorted(held)
  BY DEF Told, InLine
<1>3. UpTo(Said(out), Said(<<f>>))
  BY <1>2 DEF UpTo, Carried
<1>4. Said(out') = C \cup D /\ Sorted(out')
  <2>1. Said(Append(out, f)) = Said(out) \cup Said(<<f>>) /\ Sorted(Append(out, f))
    BY <1>2, <1>3, SpokenType, SaidAppend
  <2> QED BY <1>1, <2>1 DEF Carried
<1>5. Carried(writer') = B /\ Carried(pump') = {} /\ Said(held') = E /\ Sorted(held')
  BY <1>1, <1>2, HandSays DEF Carried, Said, Sorted
<1>6. Spoken' = Spoken
  BY <1>1, <1>4, <1>5 DEF Spoken
<1>7. InLine'
  <2> HIDE DEF B, C, D, E
  <2>1. /\ UpTo(heard', B \cup (C \cup D) \cup {} \cup E) /\ UpTo(B, (C \cup D) \cup {} \cup E)
        /\ UpTo(C \cup D, {} \cup E) /\ UpTo({}, E)
    BY <1>1, <1>2 DEF UpTo
  <2> QED BY <1>4, <1>5, <2>1 DEF InLine
<1>8. PumpStays'
  BY <1>1, CarrierHands DEF PumpStays
<1>9. UNCHANGED <<fate, queue, worker>> /\ (Awake' => Awake)
  BY <1>1 DEF commands, Awake, Listening
<1> QED
  BY <1>1, <1>6, <1>7, <1>8, <1>9, MovedTold

LEMMA PumpEndTold ==
  ASSUME Loads, Told, PumpEnd
  PROVE  Told'
<1>1. /\ ~Awake /\ pump' = Ended /\ held' = <<>>
      /\ UNCHANGED <<commands, out, prio, writer, heard, loop>>
  BY DEF PumpEnd, Awake
<1>2. ~Awake'
  BY <1>1 DEF Awake, Listening
<1>3. /\ Carried(writer') = Carried(writer) /\ Said(out') = Said(out) /\ Sorted(out')
      /\ Carried(pump') = {} /\ Said(held') = {} /\ Sorted(held')
  BY <1>1, HandSays, SaidNothing DEF Carried, Said, Sorted, Told, InLine
<1>4. InLine' /\ Spoken' \subseteq Spoken
  BY <1>1, <1>3, InLineShrinks
<1>5. PumpStays'
  BY <1>2 DEF PumpStays, Awake
<1>6. UNCHANGED <<fate, queue, worker>>
  BY <1>1 DEF commands
<1> QED
  BY <1>1, <1>2, <1>4, <1>5, <1>6, MovedTold

\* A frame that answers nothing is appended.
LEMMA OutTold ==
  ASSUME Loads, Told, NEW f \in Frame, f.kind # "answer", out' \in {out, Append(out, f)},
         UNCHANGED <<commands, held, pump, prio, writer, heard>>, Awake' => Awake
  PROVE  Told'
<1>1. f \in AnyFrame /\ Said(<<f>>) = {}
  BY SaidOne DEF AnyFrame
<1>2. Said(out') = Said(out) /\ Sorted(out')
  <2>1. UpTo(Said(out), Said(<<f>>)) /\ Sorted(out)
    BY <1>1 DEF UpTo, Told, InLine
  <2>2. Said(Append(out, f)) = Said(out) /\ Sorted(Append(out, f))
    BY <1>1, <2>1, SpokenType, SaidAppend
  <2> QED BY <2>1, <2>2
<1>3. InLine' /\ Spoken' = Spoken
  BY <1>2 DEF Told, InLine, Spoken, Carried, Said, Sorted
<1>4. PumpStays'
  BY PumpStill
<1>5. UNCHANGED <<fate, queue, worker>>
  BY DEF commands
<1> QED
  BY <1>3, <1>4, <1>5, MovedTold

LEMMA BeatTold ==
  ASSUME Loads, Told, Beat
  PROVE  Told'
<1>1. Plain("beat") \in Frame /\ Plain("beat").kind # "answer"
  BY PlainIsFrame
<1>2. /\ out' = Append(out, Plain("beat"))
      /\ UNCHANGED <<commands, held, pump, prio, writer, heard, loop>>
  BY DEF Beat
<1>3. Awake' => Awake
  BY <1>2 DEF Awake, Listening
<1> QED
  BY <1>1, <1>2, <1>3, OutTold

LEMMA SendTold ==
  ASSUME Loads, Told, NEW kind \in {"final", "close"}, NEW next, Send(Plain(kind), next),
         loop \in {"announcing", "closing"}
  PROVE  Told'
<1>1. Plain(kind) \in Frame /\ Plain(kind).kind # "answer"
  BY PlainIsFrame
<1>2. /\ out' \in {out, Append(out, Plain(kind))}
      /\ UNCHANGED <<commands, held, pump, prio, writer, heard>>
  BY DEF Send
<1>3. Awake' => Awake
  BY <1>2 DEF Awake, Listening
<1> QED
  BY <1>1, <1>2, <1>3, OutTold

LEMMA WriterTakeTold ==
  ASSUME Loads, Told, WriterTake
  PROVE  Told'
<1>1. /\ writer.step = "idle" /\ writer'.step = "carrying"
      /\ UNCHANGED <<commands, held, pump, heard, loop>>
  BY DEF WriterTake
<1>2. Carried(writer) = {}
  BY <1>1, HandSays DEF Loads, Lanes, Carries
<1>3. UNCHANGED <<fate, queue, worker>> /\ (Awake' => Awake)
  BY <1>1 DEF commands, Awake, Listening
<1>4. PumpStays'
  BY <1>1, <1>3, PumpStill
<1> DEFINE C == Said(out)   D == Carried(pump)   E == Said(held)
<1>5. /\ UpTo(heard, {} \cup C \cup D \cup E) /\ UpTo(C, D \cup E) /\ UpTo(D, E)
      /\ Sorted(out) /\ Sorted(held)
  BY <1>2 DEF Told, InLine
<1>6. Carried(pump') = D /\ Said(held') = E /\ Sorted(held')
  BY <1>1, <1>5 DEF Carried, Said, Sorted
<1>7. CASE prio # <<>> /\ writer' = [step |-> "carrying", frame |-> Head(prio)]
           /\ prio' = Tail(prio) /\ out' = out
  <2> DEFINE h == Head(prio)
  <2>1. /\ h \in Frame /\ h.kind \in Ticketed \cup {"close"}
        /\ h \in ToSet(prio) /\ ToSet(prio') \subseteq ToSet(prio) /\ writer'.frame = h
    BY <1>7, Behead, ToSetTail DEF Loads, Typed, Lanes
  <2> HIDE DEF h
  <2>2. Carried(writer') = {}
    BY <2>1, SaidOne DEF Carried, AnyFrame, Ticketed
  <2>3. Said(out') = Said(out) /\ Sorted(out')
    BY <1>5, <1>7 DEF Said, Sorted
  <2>4. InLine' /\ Spoken' \subseteq Spoken
    BY <1>1, <1>6, <2>2, <2>3, InLineShrinks
  <2>5. Spoken \subseteq Spoken'
    BY <1>1, <1>2, <1>6, <2>3 DEF Spoken
  <2>6. \A f \in ToSet(prio') \cup {writer'.frame} : f \in ToSet(prio)
    BY <2>1
  <2> QED BY <1>3, <1>4, <2>4, <2>5, <2>6, MovedTold
<1>8. CASE out # <<>> /\ writer' = [step |-> "carrying", frame |-> Head(out)]
           /\ out' = Tail(out) /\ prio' = prio
  <2> DEFINE h == Head(out)   t == Tail(out)
             b == Said(<<h>>)   c == Said(t)
  <2>1. C = b \cup c /\ Sorted(t) /\ UpTo(b, c)
    BY <1>5, <1>8, SpokenType, SaidTail
  <2>2. h.kind # "refusal" /\ writer'.frame = h
    <3>1. h.kind \in Charged \cup {"beat", "final", "close"}
      BY <1>8, Behead DEF Loads, Typed, Lanes
    <3> QED BY <1>8, <3>1 DEF Charged
  <2>3. Carried(writer') = b /\ Said(out') = c /\ Sorted(out')
    BY <1>8, <2>1, <2>2 DEF Carried
  <2> HIDE DEF h, t, b, c, C, D, E
  <2>4. /\ UpTo(heard', b \cup c \cup D \cup E) /\ UpTo(b, c \cup D \cup E)
        /\ UpTo(c, D \cup E) /\ UpTo(D, E)
    BY <1>1, <1>5, <2>1 DEF UpTo
  <2>5. InLine'
    BY <1>6, <2>3, <2>4 DEF InLine
  <2>6. Spoken' = Spoken
    <3>1. Spoken = heard \cup {} \cup C \cup D \cup E
      BY <1>2 DEF Spoken, C, D, E
    <3>2. Spoken' = heard' \cup b \cup c \cup D \cup E
      BY <1>6, <2>3 DEF Spoken
    <3> QED BY <1>1, <2>1, <3>1, <3>2
  <2> QED BY <1>3, <1>4, <1>8, <2>2, <2>5, <2>6, MovedTold
<1> QED
  BY <1>7, <1>8 DEF WriterTake

\* The writer is gone, and what was on its way with it.
LEMMA DropTold ==
  ASSUME Loads, Told, DropLanes(<<>>), UNCHANGED <<commands, held, pump, heard>>
  PROVE  Told'
<1>1. writer' = Ended /\ prio' = <<>> /\ out' = <<>>
  BY DropEmpties
<1>2. ~Awake'
  BY <1>1, CarrierHands DEF Awake, Listening
<1>3. /\ Carried(writer') = {} /\ Said(out') = {} /\ Sorted(out')
      /\ Carried(pump') = Carried(pump) /\ Said(held') = Said(held) /\ Sorted(held')
  BY <1>1, HandSays, SaidNothing DEF Carried, Said, Sorted, Told, InLine
<1>4. InLine' /\ Spoken' \subseteq Spoken
  BY <1>3, InLineShrinks
<1>5. PumpStays'
  BY <1>2 DEF PumpStays, Awake
<1>6. \A f \in ToSet(prio') \cup {writer'.frame} : f.kind # "refusal"
  BY <1>1, CarrierHands DEF ToSet, NoFrame
<1>7. UNCHANGED <<fate, queue, worker>>
  BY DEF commands
<1> QED
  BY <1>2, <1>4, <1>5, <1>6, <1>7, MovedTold

LEMMA WriteTold ==
  ASSUME Loads, Told, Write
  PROVE  Told' /\ heard' \subseteq Commands
<1> DEFINE f == writer.frame
<1>1. /\ writer.step = "carrying" /\ heard' = heard \cup {c \in {f.cmd} : f.kind = "answer"}
      /\ UNCHANGED <<commands, held, pump, loop>>
  BY DEF Write
<1> DEFINE B == Carried(writer)   C == Said(out)   D == Carried(pump)   E == Said(held)
<1>2. B = {c \in {f.cmd} : f.kind = "answer"}
  BY SpokenType, SaidOne DEF Carried
<1>3. heard' = heard \cup B
  BY <1>1, <1>2
<1>4. heard' \subseteq Commands
  BY <1>3, SpokenType DEF Spoken
<1>5. CASE f.kind = "close"
  <2>1. DropLanes(<<>>) /\ heard' = heard
    BY <1>2, <1>3, <1>5 DEF Write
  <2> QED BY <1>1, <1>4, <2>1, DropTold
<1>6. CASE f.kind # "close"
  <2>1. writer' = Empty /\ UNCHANGED <<prio, out>>
    BY <1>6 DEF Write
  <2>2. /\ UpTo(heard, B \cup C \cup D \cup E) /\ UpTo(B, C \cup D \cup E)
        /\ UpTo(C, D \cup E) /\ UpTo(D, E) /\ Sorted(out) /\ Sorted(held)
    BY DEF Told, InLine
  <2>3. /\ Carried(writer') = {} /\ Said(out') = C /\ Carried(pump') = D /\ Said(held') = E
        /\ Sorted(out') /\ Sorted(held')
    BY <1>1, <2>1, <2>2, HandSays DEF Carried, Said, Sorted
  <2>4. InLine'
    <3> HIDE DEF B, C, D, E
    <3>1. /\ UpTo(heard', {} \cup C \cup D \cup E) /\ UpTo({}, C \cup D \cup E)
          /\ UpTo(C, D \cup E) /\ UpTo(D, E)
      BY <1>3, <2>2 DEF UpTo
    <3> QED BY <2>3, <3>1 DEF InLine
  <2>5. Spoken' = Spoken
    BY <1>3, <2>3 DEF Spoken
  <2>6. UNCHANGED <<fate, queue, worker>> /\ (Awake' => Awake)
    BY <1>1, <2>1, CarrierHands DEF commands, Awake, Listening
  <2>7. PumpStays'
    BY <1>1, <2>6, PumpStill
  <2>8. \A g \in ToSet(prio') \cup {writer'.frame} : g \in ToSet(prio) \/ g.kind # "refusal"
    BY <2>1, CarrierHands DEF NoFrame
  <2> QED BY <1>4, <2>4, <2>5, <2>6, <2>7, <2>8, MovedTold
<1> QED
  BY <1>5, <1>6

LEMMA DepartTold ==
  ASSUME Loads, Told, Depart
  PROVE  Told'
<1>1. loop = "leaving" /\ loop' = "gone" /\ UNCHANGED <<commands, held, pump, heard>>
  BY DEF Depart
<1>2. CASE Listening
  BY <1>1, <1>2, DropTold DEF Depart
<1>3. CASE ~Listening
  <2>1. UNCHANGED <<writer, prio, out>>
    BY <1>3 DEF Depart
  <2>2. Silent /\ ~Awake' /\ UNCHANGED <<fate, queue, worker>>
    BY <1>1, <2>1 DEF Silent, Awake, commands
  <2> QED BY <2>1, <2>2, QuietTold
<1> QED
  BY <1>2, <1>3

LEMMA InitTold == Init => Told
<1> SUFFICES ASSUME Init PROVE Told
  OBVIOUS
<1>1. /\ fate = [c \in Commands |-> "unread"] /\ heard = {} /\ queue = <<>>
      /\ held = <<>> /\ out = <<>> /\ prio = <<>> /\ pump = Empty /\ writer = Empty
  BY DEF Init
<1>2. /\ Said(held) = {} /\ Said(out) = {} /\ Sorted(held) /\ Sorted(out)
      /\ Carried(pump) = {} /\ Carried(writer) = {} /\ Spoken = {}
  BY <1>1, SaidNothing, HandSays DEF Spoken
<1>3. InLine
  BY <1>1, <1>2 DEF InLine, UpTo
<1>4. Decided
  BY <1>2 DEF Decided
<1>5. ToSet(prio) \cup {writer.frame} = {NoFrame}
  BY <1>1, CarrierHands DEF ToSet
<1>6. RetryIsSafe
  BY <1>5 DEF RetryIsSafe, NoFrame
<1>7. PumpStays
  BY <1>1, CarrierHands DEF PumpStays
<1>8. ActedIsTold
  BY <1>1 DEF ActedIsTold
<1> QED
  BY <1>3, <1>4, <1>6, <1>7, <1>8 DEF Told

LEMMA ToldKept ==
  ASSUME Loads, Stations, Told, [Next]_vars
  PROVE  Told' /\ heard' \subseteq Commands
<1>1. CASE \E c \in Commands : Read(c)
  <2>1. heard' = heard
    BY <1>1 DEF Read
  <2> QED BY <1>1, <2>1, ReadTold DEF Loads, Typed
<1>2. CASE Timer \/ Leave \/ Stop \/ HangUp \/ UNCHANGED vars
  <2>1. heard' = heard
    BY <1>2 DEF Timer, Leave, Stop, HangUp, vars
  <2> QED BY <1>2, <2>1, IdleTold DEF Loads, Typed
<1>3. CASE Evict \/ Sweep \/ Deliver \/ Beat
  <2>1. heard' = heard
    BY <1>3 DEF Evict, Sweep, Deliver, Beat
  <2> QED BY <1>3, <2>1, EvictTold, SweepTold, DeliverTold, BeatTold DEF Loads, Typed
<1>4. CASE Dispatcher
  <2>1. heard' = heard
    BY <1>4 DEF Dispatcher, Take, Spawn, Decline, Refuse, Act, Reserve, Publish, AbortWorker
  <2>2. CASE Refuse \/ Act
    <3>1. \E x \in {"acted", "refused"}, n \in {1, Worst}, frames \in 1..Worst \cup {1} :
            Reserve(x, n, frames)
      BY <2>2 DEF Refuse, Act
    <3> QED BY <2>1, <3>1, ReserveTold DEF Loads, Typed
  <2> QED BY <1>4, <2>1, <2>2, TakeTold, SpawnTold, DeclineTold, PublishTold, AbortTold
          DEF Dispatcher, Loads, Typed
<1>5. CASE Pages
  <2>1. heard' = heard
    BY <1>5 DEF Pages, Slot, Walk, Finish
  <2> QED BY <1>5, <2>1, PagesTold DEF Loads, Typed
<1>6. CASE Pump
  <2>1. heard' = heard
    BY <1>6 DEF Pump, PumpTake, PumpSend, PumpEnd
  <2> QED BY <1>6, <2>1, PumpTakeTold, PumpSendTold, PumpEndTold DEF Pump, Loads, Typed
<1>7. CASE Writer
  <2>1. ASSUME WriterTake PROVE Told' /\ heard' \subseteq Commands
    BY <2>1, WriterTakeTold DEF WriterTake, Loads, Typed
  <2>2. ASSUME WriterEnd PROVE Told' /\ heard' \subseteq Commands
    BY <2>2, DropTold DEF WriterEnd, Loads, Typed
  <2> QED BY <1>7, <2>1, <2>2, WriteTold DEF Writer
<1>8. CASE Announce \/ Close \/ Depart
  <2>1. heard' = heard
    BY <1>8 DEF Announce, Close, Depart, Send
  <2>2. ASSUME Announce PROVE Told'
    BY <2>2, SendTold DEF Announce
  <2>3. ASSUME Close PROVE Told'
    BY <2>3, SendTold DEF Close
  <2> QED BY <1>8, <2>1, <2>2, <2>3, DepartTold DEF Loads, Typed
<1> QED
  BY <1>1, <1>2, <1>3, <1>4, <1>5, <1>6, <1>7, <1>8 DEF Next, Loop
----------------------------------------------------------------------------
(* The properties.                                                         *)

IInv == Loads /\ Stations /\ Places /\ Told

LEMMA InitIInv == Init => IInv
BY InitLoads, InitPlaces, InitTold DEF IInv

LEMMA StepIInv == IInv /\ [Next]_vars => IInv'
<1> SUFFICES ASSUME IInv, [Next]_vars PROVE IInv'
  OBVIOUS
<1>1. Loads /\ Stations /\ Places /\ Told
  BY DEF IInv
<1>2. Told' /\ heard' \subseteq Commands
  BY <1>1, ToldKept
<1>3. Loads' /\ Stations' /\ Places'
  BY <1>1, <1>2, LoadsKept, PlacesKept
<1> QED
  BY <1>2, <1>3 DEF IInv

LEMMA InvariantHolds == Spec => []IInv
BY InitIInv, StepIInv, PTL DEF Spec

LEMMA Conserved == Loads /\ Places => PermitsConserved
<1> SUFFICES ASSUME Loads, Places PROVE PermitsConserved
  OBVIOUS
<1> DEFINE p == <<pump.frame>>   w == <<writer.frame>>
<1>1. /\ held \in Seq(AnyFrame) /\ out \in Seq(AnyFrame) /\ prio \in Seq(AnyFrame)
      /\ p \in Seq(AnyFrame) /\ w \in Seq(AnyFrame) /\ held \o out \in Seq(AnyFrame)
      /\ <<pump.frame, writer.frame>> \in Seq(AnyFrame)
  BY Numbers, ConcatProperties DEF Loads
<1>2. <<pump.frame, writer.frame>> = p \o w
  BY Numbers DEF Loads
<1>3. p \o w \in Seq(AnyFrame)
  BY <1>1, <1>2
<1> HIDE DEF p, w
<1>4. /\ Charges(held \o out \o (p \o w)) = Charges(held \o out) + Charges(p \o w)
      /\ Charges(held \o out) = Charges(held) + Charges(out)
      /\ Charges(p \o w) = Charges(p) + Charges(w)
      /\ Tickets(prio \o w) = Tickets(prio) + Tickets(w)
  <2>1. Count((held \o out) \o (p \o w), Charged) = Count(held \o out, Charged) + Count(p \o w, Charged)
    <3> DEFINE u == held \o out   v == p \o w
    <3>1. u \in Seq(AnyFrame) /\ v \in Seq(AnyFrame)
      BY <1>1, <1>3
    <3> HIDE DEF u, v
    <3>2. Count(u \o v, Charged) = Count(u, Charged) + Count(v, Charged)
      BY <3>1, CountConcat
    <3> QED BY <3>2 DEF u, v
  <2>2. Count(held \o out, Charged) = Count(held, Charged) + Count(out, Charged)
    BY <1>1, CountConcat
  <2>3. Count(p \o w, Charged) = Count(p, Charged) + Count(w, Charged)
    BY <1>1, CountConcat
  <2>4. Count(prio \o w, Ticketed) = Count(prio, Ticketed) + Count(w, Ticketed)
    BY <1>1, CountConcat
  <2> QED BY <2>1, <2>2, <2>3, <2>4 DEF Charges, Tickets
<1>5. /\ Charges(p) = InHand(pump, Charged) /\ Charges(w) = InHand(writer, Charged)
      /\ Tickets(w) = InHand(writer, Ticketed)
  BY DEF Charges, Tickets, InHand, p, w
<1> DEFINE h == Charges(held)   o == Charges(out)   a == Charges(p)   b == Charges(w)
           all == Charges(held \o out \o (p \o w))
<1>6. all = (h + o) + (a + b)
  BY <1>4
<1>7. bytes + worker.reserved + sweep.reserved + h + o + a + b = Budget
  BY <1>5 DEF Loads, Bytes
<1>8. /\ h \in Nat /\ o \in Nat /\ a \in Nat /\ b \in Nat
      /\ bytes \in Nat /\ worker.reserved \in Nat /\ sweep.reserved \in Nat
  BY <1>5, Numbers DEF Loads
<1> HIDE DEF h, o, a, b, all
<1>9. bytes + worker.reserved + sweep.reserved + all = Budget
  BY <1>6, <1>7, <1>8
<1>10. tickets + Tickets(prio \o <<writer.frame>>) = Lane
  <2>1. tickets + Tickets(prio) + Tickets(w) = Lane
    BY <1>5 DEF Loads, Vouchers
  <2>2. tickets \in Nat /\ Tickets(prio) \in Nat /\ Tickets(w) \in Nat
    BY <1>5, Numbers DEF Loads
  <2>3. tickets + Tickets(prio \o w) = Lane
    BY <1>4, <2>1, <2>2
  <2> QED BY <2>3 DEF w
<1>11. bytes + worker.reserved + sweep.reserved
         + Charges(held \o out \o <<pump.frame, writer.frame>>) = Budget
  BY <1>2, <1>9 DEF all
<1> QED
  BY <1>10, <1>11 DEF PermitsConserved, Places, Busy

LEMMA Sound == Loads /\ Told => AnswersSound
<1> SUFFICES ASSUME Loads, Told PROVE AnswersSound
  OBVIOUS
<1> DEFINE w == <<writer.frame>>   p == <<pump.frame>>
<1>1. /\ held \in Seq(AnyFrame) /\ out \in Seq(AnyFrame)
      /\ p \in Seq(AnyFrame) /\ w \in Seq(AnyFrame)
      /\ w \o out \in Seq(AnyFrame) /\ w \o out \o p \in Seq(AnyFrame)
  BY Numbers, ConcatProperties DEF Loads
<1>2. /\ Sorted(w) /\ Sorted(p) /\ Sorted(out) /\ Sorted(held)
      /\ UpTo(heard, Said(w) \cup Said(out) \cup Said(p) \cup Said(held))
      /\ UpTo(Said(w), Said(out) \cup Said(p) \cup Said(held))
      /\ UpTo(Said(out), Said(p) \cup Said(held)) /\ UpTo(Said(p), Said(held))
  BY SpokenType, SaidOne DEF Told, InLine, Carried
<1>3. Way = w \o out \o p \o held
  BY DEF Way
<1> HIDE DEF w, p
<1>4. /\ Said(w \o out) = Said(w) \cup Said(out)
      /\ Said(w \o out \o p) = Said(w \o out) \cup Said(p)
      /\ Said(Way) = Said(w \o out \o p) \cup Said(held)
  BY <1>1, <1>3, SaidConcat
<1>5. Sorted(w \o out)
  <2>1. UpTo(Said(w), Said(out))
    BY <1>2 DEF UpTo
  <2> QED BY <1>1, <1>2, <2>1, SaidConcat
<1>6. Sorted(w \o out \o p)
  <2>1. UpTo(Said(w \o out), Said(p))
    BY <1>2, <1>4 DEF UpTo
  <2> QED BY <1>1, <1>2, <1>5, <2>1, SaidConcat
<1>7. Sorted(Way)
  <2>1. UpTo(Said(w \o out \o p), Said(held))
    BY <1>2, <1>4 DEF UpTo
  <2> QED BY <1>1, <1>2, <1>3, <1>6, <2>1, SaidConcat
<1>8. Said(Way) = {Way[i].cmd : i \in InFlight}
  BY DEF Said, InFlight
<1>9. Spoken = heard \cup Said(Way)
  BY <1>4 DEF Spoken, Carried, w, p
<1>10. UpTo(heard, Said(Way))
  BY <1>2, <1>4 DEF UpTo
<1>11. InOrder
  <2>1. \A i, j \in InFlight : i < j => Way[i].cmd <= Way[j].cmd
    BY <1>7 DEF Sorted, InFlight
  <2>2. \A i \in InFlight : \A c \in heard : c <= Way[i].cmd
    BY <1>8, <1>10 DEF UpTo
  <2> QED BY <2>1, <2>2 DEF InOrder
<1>12. ActedIsAnswered
  BY <1>8, <1>9 DEF Told, ActedIsTold, ActedIsAnswered
<1> QED
  BY <1>11, <1>12 DEF AnswersSound, Told

\* Whatever is read, decided, published, aborted or dropped, and in whatever
\* order, every unit of the byte budget, every ticket of the priority lane and
\* every command slot is free or with exactly one holder, for any size of them
\* (admission.rs:166-306, ws.rs:673-680).
THEOREM PermitsAlwaysConserved == Spec => []PermitsConserved
<1>1. IInv => PermitsConserved
  BY Conserved DEF IInv
<1> QED
  BY <1>1, InvariantHolds, PTL

\* The peer is told of its commands in the order it sent them, is invited to
\* retry only what nothing was done about, and is not left without word of what
\* the engine did while its connection lasts (ws.rs:706-716, admission.rs:20-22,
\* http.rs:807-820).
THEOREM AnswersAlwaysSound == Spec => []AnswersSound
<1>1. IInv => AnswersSound
  BY Sound DEF IInv
<1> QED
  BY <1>1, InvariantHolds, PTL
=============================================================================
