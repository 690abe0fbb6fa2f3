----------------------------- MODULE Feed_proofs -----------------------------
(***************************************************************************)
(* Proofs about what one socket tells its passenger, for any tape, ring    *)
(* depth and window and any interleaving: what the ring overwrote is       *)
(* stated, and nothing else of the tape is missed (module Feed).  Behind   *)
(* them, how the run the socket belongs to ends (module RunEnd): a clean   *)
(* exit at the deadline leaves nobody untold.                              *)
(*                                                                         *)
(* The feed's argument is about the sequence of messages on the wire: what *)
(* a message says refers to those before it and to the market frame right  *)
(* behind it, so that appending a message leaves what was said as it was.  *)
(* The writer's own figures are then tied to the last declaration and to   *)
(* the last market frame that crossed.                                     *)
(***************************************************************************)
EXTENDS Feed, RunEnd, FiniteSetTheorems, SequenceTheorems, WellFoundedInduction,
        NaturalsInduction, TLAPS

(* Sequences of messages.                                                  *)

Lagged == [m : {"lagged"}, episode : Nat, skipped : Nat, total : Nat, after : Nat,
           resumed : Nat]
Message == [m : {"market"}, id : Nat] \cup Lagged \cup {Close, Terminal, [m |-> "fault"]}

\* Where the messages of a kind stand, and the nearest of them on either side.
Places(w, kind) == {n \in 1..Len(w) : w[n].m = kind}
Latest(w, kind, n) ==
  LET earlier == {k \in Places(w, kind) : k < n}
  IN IF earlier = {} THEN 0 ELSE Max(earlier)
Ids(w) == {w[n].id : n \in Places(w, "market")}

LEMMA OnWireIs ==
  /\ \A kind : OnWire(kind) = Places(wire, kind)
  /\ \A kind, n : LastBefore(kind, n) = Latest(wire, kind, n)
  /\ Delivered = Ids(wire)
BY DEF OnWire, Places, LastBefore, Latest, Delivered, Ids

LEMMA Appended ==
  ASSUME NEW w \in Seq(Message), NEW x \in Message
  PROVE  LET v == Append(w, x)
             e == Len(w) + 1
         IN  /\ v \in Seq(Message) /\ Len(v) = e /\ Len(w) \in Nat /\ v[e] = x
             /\ \A n \in 1..Len(w) : v[n] = w[n]
OBVIOUS

LEMMA AppendedPlaces ==
  ASSUME NEW w \in Seq(Message), NEW x \in Message, NEW kind
  PROVE  Places(Append(w, x), kind)
           = Places(w, kind) \cup (IF x.m = kind THEN {Len(w) + 1} ELSE {})
<1> DEFINE v == Append(w, x)
           e == Len(w) + 1
<1>1. /\ Len(v) = e /\ Len(w) \in Nat /\ v[e] = x
      /\ \A n \in 1..Len(w) : v[n] = w[n]
  BY Appended
<1> HIDE DEF v
<1>2. 1..Len(v) = 1..Len(w) \cup {e}
  BY <1>1
<1>3. Places(v, kind) = Places(w, kind) \cup (IF x.m = kind THEN {e} ELSE {})
  BY <1>1, <1>2 DEF Places
<1> QED BY <1>3 DEF v

LEMMA MaxIs ==
  ASSUME NEW S \in SUBSET Int, NEW m \in S, \A k \in S : k <= m
  PROVE  Max(S) = m
<1>1. m \in S /\ \A y \in S : m >= y
  OBVIOUS
<1>2. \A x \in S : (\A y \in S : x >= y) => x = m
  OBVIOUS
<1> QED BY <1>1, <1>2 DEF Max

LEMMA MinIs ==
  ASSUME NEW S \in SUBSET Int, NEW m \in S, \A k \in S : m <= k
  PROVE  Min(S) = m
<1>1. m \in S /\ \A y \in S : m <= y
  OBVIOUS
<1>2. \A x \in S : (\A y \in S : x <= y) => x = m
  OBVIOUS
<1> QED BY <1>1, <1>2 DEF Min

\* The nearest message before a place that stands already stays the nearest.
LEMMA LatestStays ==
  ASSUME NEW w \in Seq(Message), NEW x \in Message, NEW kind, NEW n \in 1..Len(w) + 1
  PROVE  Latest(Append(w, x), kind, n) = Latest(w, kind, n)
<1> DEFINE v == Append(w, x)
           E == {k \in Places(w, kind) : k < n}
           F == {k \in Places(v, kind) : k < n}
<1>1. Places(v, kind) = Places(w, kind) \cup (IF x.m = kind THEN {Len(w) + 1} ELSE {})
  BY AppendedPlaces
<1>2. Len(w) \in Nat
  OBVIOUS
<1> HIDE DEF v
<1>3. E = F
  BY <1>1, <1>2
<1>4. /\ Latest(w, kind, n) = IF E = {} THEN 0 ELSE Max(E)
      /\ Latest(v, kind, n) = IF F = {} THEN 0 ELSE Max(F)
  BY DEF Latest
<1> HIDE DEF E, F
<1> QED BY <1>3, <1>4 DEF v

LEMMA LatestMoves ==
  ASSUME NEW w \in Seq(Message), NEW x \in Message, NEW kind
  PROVE  Latest(Append(w, x), kind, Len(w) + 2)
           = IF x.m = kind THEN Len(w) + 1 ELSE Latest(w, kind, Len(w) + 1)
<1> DEFINE v == Append(w, x)
           e == Len(w) + 1
           E == {k \in Places(w, kind) : k < e}
           F == {k \in Places(v, kind) : k < Len(w) + 2}
<1>1. Places(v, kind) = Places(w, kind) \cup (IF x.m = kind THEN {e} ELSE {})
  BY AppendedPlaces
<1>2. Len(w) \in Nat /\ \A k \in Places(w, kind) : k \in Nat /\ k < e
  BY DEF Places
<1> HIDE DEF v
<1>3. /\ Latest(w, kind, e) = IF E = {} THEN 0 ELSE Max(E)
      /\ Latest(v, kind, Len(w) + 2) = IF F = {} THEN 0 ELSE Max(F)
  BY DEF Latest
<1>4. CASE x.m = kind
  <2>1. F \in SUBSET Int /\ e \in F /\ \A j \in F : j <= e
    BY <1>1, <1>2, <1>4
  <2> HIDE DEF F
  <2> QED BY <1>3, <1>4, <2>1, MaxIs DEF v
<1>5. CASE x.m # kind
  <2>1. F = E
    BY <1>1, <1>2, <1>5
  <2> HIDE DEF E, F
  <2> QED BY <1>3, <1>5, <2>1 DEF v
<1> QED BY <1>4, <1>5

LEMMA AppendedIds ==
  ASSUME NEW w \in Seq(Message), NEW x \in Message
  PROVE  Ids(Append(w, x)) = Ids(w) \cup (IF x.m = "market" THEN {x.id} ELSE {})
<1> DEFINE v == Append(w, x)
           e == Len(w) + 1
           P == Places(w, "market")
           Q == Places(v, "market")
<1>1. Q = P \cup (IF x.m = "market" THEN {e} ELSE {})
  BY AppendedPlaces
<1>2. v[e] = x /\ \A n \in P : v[n] = w[n]
  BY Appended DEF Places
<1>3. Ids(v) = {v[n].id : n \in Q} /\ Ids(w) = {w[n].id : n \in P}
  BY DEF Ids
<1> HIDE DEF v, P, Q, e
<1>4. CASE x.m = "market"
  <2>1. Q = P \cup {e}
    BY <1>1, <1>4
  <2>2. \A n \in Q : v[n].id \in Ids(w) \cup {x.id}
    BY <1>2, <1>3, <2>1
  <2>3. (\A n \in P : w[n].id \in Ids(v)) /\ x.id \in Ids(v)
    BY <1>2, <1>3, <2>1
  <2>4. Ids(v) = Ids(w) \cup {x.id}
    BY <1>3, <2>2, <2>3
  <2> QED BY <1>4, <2>4 DEF v
<1>5. CASE x.m # "market"
  <2>1. Q = P
    BY <1>1, <1>5
  <2> QED BY <1>2, <1>3, <1>5, <2>1 DEF v
<1> QED BY <1>4, <1>5

------------------------------------------------------------------------------
(* Least and greatest.                                                     *)

\* A set of numbers has a least one; a bounded one that is not empty, a greatest.
LEMMA NatLeast ==
  ASSUME NEW T \in SUBSET Nat, T # {}
  PROVE  \E x \in T : \A y \in T : x <= y
<1> DEFINE R == {p \in Nat \X Nat : p[1] < p[2]}
<1>1. IsWellFoundedOn(R, Nat)
  BY NatLessThanWellFounded DEF OpToRel
<1>2. \A x, y \in Nat : y < x => <<y, x>> \in R
  OBVIOUS
<1> HIDE DEF R
<1>3. \E x \in T : \A y \in T : ~(<<y, x>> \in R)
  BY <1>1, WFMin
<1>4. PICK x \in T : \A y \in T : ~(<<y, x>> \in R)
  BY <1>3
<1>5. \A y \in T : ~(y < x)
  BY <1>2, <1>4
<1>6. \A y \in T : x <= y
  BY <1>5
<1> QED BY <1>6

LEMMA Greatest ==
  ASSUME NEW n \in Nat, NEW E \in SUBSET (1..n), E # {}
  PROVE  \E m \in E : \A k \in E : k <= m
<1> DEFINE T == {d \in Nat : n - d \in E}
<1>1. \A k \in E : n - k \in T
  OBVIOUS
<1>2. T \in SUBSET Nat /\ T # {}
  BY <1>1
<1>3. PICK d \in T : \A c \in T : d <= c
  BY <1>2, NatLeast
<1>4. n - d \in E /\ d \in Nat
  BY <1>3
<1>5. \A k \in E : d <= n - k
  BY <1>1, <1>3
<1>6. \A k \in E : k <= n - d
  BY <1>4, <1>5
<1> QED BY <1>4, <1>6

LEMMA LatestIs ==
  ASSUME NEW w \in Seq(Message), NEW kind, NEW n \in 1..Len(w) + 1
  PROVE  Latest(w, kind, n) \in {0} \cup {k \in Places(w, kind) : k < n}
<1> DEFINE E == {k \in Places(w, kind) : k < n}
<1>1. Latest(w, kind, n) = IF E = {} THEN 0 ELSE Max(E)
  BY DEF Latest
<1>2. Len(w) \in Nat /\ E \in SUBSET (1..Len(w))
  BY DEF Places
<1>3. CASE E # {}
  <2> HIDE DEF E
  <2>1. PICK m \in E : \A k \in E : k <= m
    BY <1>2, <1>3, Greatest
  <2>2. Max(E) = m
    BY <1>2, <2>1, MaxIs
  <2>3. Latest(w, kind, n) \in E
    BY <1>1, <1>3, <2>1, <2>2
  <2> QED BY <2>3 DEF E
<1>4. CASE E = {}
  BY <1>1, <1>4
<1> QED BY <1>3, <1>4

----------------------------------------------------------------------------
(* Declarations.                                                           *)

TsIn(w, T, k) == IF k = 0 THEN 0 ELSE T[w[k].id].ts
DeclaredIn(w, k) == IF k = 0 THEN [episode |-> 0, total |-> 0] ELSE w[k]

\* What the last declaration and the last market frame on a wire say.
Episodes(w) == DeclaredIn(w, Latest(w, "lagged", Len(w) + 1)).episode
Stated(w) == DeclaredIn(w, Latest(w, "lagged", Len(w) + 1)).total
LastTs(w, T) == TsIn(w, T, Latest(w, "market", Len(w) + 1))

\* A declaration is numbered, carries the total, and is dated by what came
\* before it;
FairAt(w, T, n) ==
  LET before == DeclaredIn(w, Latest(w, "lagged", n))
  IN /\ w[n].episode = before.episode + 1
     /\ w[n].total = before.total + w[n].skipped
     /\ w[n].after = TsIn(w, T, Latest(w, "market", n))

\* and by the market frame right behind it.
FollowedAt(w, T, n) ==
  n + 1 \in Places(w, "market") /\ w[n].resumed = T[w[n + 1].id].ts

\* What was lost before a market frame had been declared before it.
CountedAt(w, L, n) ==
  Cardinality({i \in L : i < w[n].id}) = DeclaredIn(w, Latest(w, "lagged", n)).total

Fair(w, T) == \A n \in Places(w, "lagged") : FairAt(w, T, n)
Counted(w, L) == \A n \in Places(w, "market") : CountedAt(w, L, n)

\* What is said of a place stays said of it.
LEMMA SaidStays ==
  ASSUME NEW w \in Seq(Message), NEW x \in Message, NEW T, NEW L, NEW n \in 1..Len(w)
  PROVE  LET v == Append(w, x)
         IN  /\ FairAt(w, T, n) => FairAt(v, T, n)
             /\ FollowedAt(w, T, n) => FollowedAt(v, T, n)
             /\ CountedAt(w, L, n) => CountedAt(v, L, n)
<1> DEFINE v == Append(w, x)
<1>1. /\ \A k \in 1..Len(w) : v[k] = w[k]
      /\ Len(w) \in Nat
  BY Appended
<1>2. \A kind : Latest(v, kind, n) = Latest(w, kind, n)
  BY <1>1, LatestStays
<1>3. \A kind : Latest(w, kind, n) \in {0} \cup 1..Len(w)
  BY <1>1, LatestIs DEF Places
<1>4. \A kind : Places(w, kind) \subseteq Places(v, kind) /\ Places(w, kind) \subseteq 1..Len(w)
  BY AppendedPlaces DEF Places
<1> HIDE DEF v
<1>5. DeclaredIn(v, Latest(v, "lagged", n)) = DeclaredIn(w, Latest(w, "lagged", n))
  BY <1>1, <1>2, <1>3 DEF DeclaredIn
<1>6. TsIn(v, T, Latest(v, "market", n)) = TsIn(w, T, Latest(w, "market", n))
  BY <1>1, <1>2, <1>3 DEF TsIn
<1>7. FairAt(w, T, n) => FairAt(v, T, n)
  BY <1>1, <1>5, <1>6 DEF FairAt
<1>8. FollowedAt(w, T, n) => FollowedAt(v, T, n)
  BY <1>1, <1>4 DEF FollowedAt
<1>9. CountedAt(w, L, n) => CountedAt(v, L, n)
  BY <1>1, <1>5 DEF CountedAt
<1> QED BY <1>7, <1>8, <1>9 DEF v

LEMMA LastMoves ==
  ASSUME NEW w \in Seq(Message), NEW x \in Message, NEW T
  PROVE  LET v == Append(w, x)
         IN  /\ Episodes(v) = IF x.m = "lagged" THEN x.episode ELSE Episodes(w)
             /\ Stated(v) = IF x.m = "lagged" THEN x.total ELSE Stated(w)
             /\ LastTs(v, T) = IF x.m = "market" THEN T[x.id].ts ELSE LastTs(w, T)
<1> DEFINE v == Append(w, x)
           e == Len(w) + 1
<1>1. /\ \A k \in 1..Len(w) : v[k] = w[k]
      /\ Len(w) \in Nat /\ v[e] = x /\ e # 0 /\ Len(v) + 1 = Len(w) + 2
  BY Appended
<1>2. \A kind : Latest(w, kind, e) \in {0} \cup 1..Len(w)
  BY <1>1, LatestIs DEF Places
<1>3. \A kind : Latest(v, kind, Len(v) + 1) = IF x.m = kind THEN e ELSE Latest(w, kind, e)
  BY <1>1, LatestMoves
<1> HIDE DEF v, e
<1>4. DeclaredIn(v, Latest(v, "lagged", Len(v) + 1))
        = IF x.m = "lagged" THEN x ELSE DeclaredIn(w, Latest(w, "lagged", e))
  BY <1>1, <1>2, <1>3 DEF DeclaredIn
<1>5. LastTs(v, T) = IF x.m = "market" THEN T[x.id].ts ELSE TsIn(w, T, Latest(w, "market", e))
  BY <1>1, <1>2, <1>3 DEF TsIn, LastTs
<1> QED BY <1>4, <1>5 DEF v, e, Episodes, Stated, LastTs

\* A message that follows from those before it leaves everything said.
LEMMA Says ==
  ASSUME NEW w \in Seq(Message), NEW x \in Message, NEW T, NEW L, Fair(w, T), Counted(w, L),
         x.m = "lagged" => /\ x.episode = Episodes(w) + 1
                           /\ x.total = Stated(w) + x.skipped
                           /\ x.after = LastTs(w, T),
         x.m = "market" => Cardinality({i \in L : i < x.id}) = Stated(w)
  PROVE  Fair(Append(w, x), T) /\ Counted(Append(w, x), L)
<1> DEFINE v == Append(w, x)
           e == Len(w) + 1
<1>1. /\ \A k \in 1..Len(w) : v[k] = w[k]
      /\ Len(w) \in Nat /\ v[e] = x
  BY Appended
<1>2. \A kind : Latest(w, kind, e) \in {0} \cup 1..Len(w)
  BY <1>1, LatestIs DEF Places
<1>3. \A kind : Latest(v, kind, e) = Latest(w, kind, e)
  BY <1>1, LatestStays
<1>4. \A kind : Places(v, kind) = Places(w, kind) \cup (IF x.m = kind THEN {e} ELSE {})
  BY AppendedPlaces
<1>5. \A n \in 1..Len(w) : /\ FairAt(w, T, n) => FairAt(v, T, n)
                           /\ CountedAt(w, L, n) => CountedAt(v, L, n)
  BY SaidStays
<1>6. \A kind : Places(w, kind) \subseteq 1..Len(w)
  BY DEF Places
<1> HIDE DEF v
<1>7. /\ DeclaredIn(v, Latest(v, "lagged", e)) = DeclaredIn(w, Latest(w, "lagged", e))
      /\ TsIn(v, T, Latest(v, "market", e)) = TsIn(w, T, Latest(w, "market", e))
  BY <1>1, <1>2, <1>3 DEF DeclaredIn, TsIn
<1>8. x.m = "lagged" => FairAt(v, T, e)
  BY <1>1, <1>7 DEF FairAt, Episodes, Stated, LastTs
<1>9. x.m = "market" => CountedAt(v, L, e)
  BY <1>1, <1>7 DEF CountedAt, Stated
<1> HIDE DEF e
<1>10. Fair(v, T)
  BY <1>4, <1>5, <1>6, <1>8 DEF Fair
<1>11. Counted(v, L)
  BY <1>4, <1>5, <1>6, <1>9 DEF Counted
<1> QED BY <1>10, <1>11 DEF v

------------------------------------------------------------------------------
(* What a wire and its writer say of the holes.                            *)

Gap == [skipped : Nat, after : Nat]
Writes == [phase : {"unbound", "replaying", "serving", "ended"},
           snapshots : Seq(Nat), next : Nat, since : Nat, open : BOOLEAN,
           seen : Nat, delivered : Nat, pending : Gap, episode : Nat, total : Nat]

\* A writer that may still write a market frame.
Live(v) == v.phase \in {"replaying", "serving"} /\ v.open

\* A declaration is dated by the frame behind it, or no frame follows it: it
\* names no instant, or the sink failed right behind it.
DatedAt(w, T, v, n) ==
  \/ FollowedAt(w, T, n)
  \/ /\ ~Live(v) /\ \A k \in Places(w, "market") : k < n
     /\ w[n].resumed = 0 \/ (n = Len(w) /\ v.phase = "ended")

\* What a writer holds agrees with what it has said of what was lost.
Agrees(w, T, L, v) ==
  /\ Stated(w) + v.pending.skipped = Cardinality(L)
  /\ v.total = Cardinality(L) /\ v.episode = Episodes(w)
  /\ v.delivered = LastTs(w, T)
  /\ v.pending.skipped > 0 => v.pending.after = v.delivered

Holes(w, T, L, v) ==
  /\ Fair(w, T) /\ Counted(w, L) /\ Agrees(w, T, L, v)
  /\ \A n \in Places(w, "lagged") : DatedAt(w, T, v, n)

SameLoss(v, u) ==
  /\ u.pending = v.pending /\ u.total = v.total /\ u.episode = v.episode
  /\ u.delivered = v.delivered

\* Nothing crosses the socket.
LEMMA Silent ==
  ASSUME NEW w, NEW T, NEW L, NEW v, NEW u, Holes(w, T, L, v), SameLoss(v, u),
         Live(u) => Live(v), v.phase = "ended" => u.phase = "ended"
  PROVE  Holes(w, T, L, u)
BY DEF Holes, Agrees, SameLoss, DatedAt

LEMMA PlacesOf ==
  ASSUME NEW w \in Seq(Message)
  PROVE  /\ Len(w) \in Nat
         /\ \A kind : Places(w, kind) \subseteq 1..Len(w)
BY DEF Places

LEMMA PlacesMove ==
  ASSUME NEW w \in Seq(Message), NEW x \in Message, NEW kind
  PROVE  /\ x.m # kind => Places(Append(w, x), kind) = Places(w, kind)
         /\ x.m = kind => Places(Append(w, x), kind) = Places(w, kind) \cup {Len(w) + 1}
<1> DEFINE E == IF x.m = kind THEN {Len(w) + 1} ELSE {}
<1>1. Places(Append(w, x), kind) = Places(w, kind) \cup E
  BY AppendedPlaces
<1>2. x.m # kind => E = {}
  OBVIOUS
<1>3. x.m = kind => E = {Len(w) + 1}
  OBVIOUS
<1> HIDE DEF E
<1> QED BY <1>1, <1>2, <1>3

\* What is dated stays so while no market frame crosses, or all are followed.
LEMMA DatedStays ==
  ASSUME NEW w \in Seq(Message), NEW x \in Message, NEW T, NEW v, NEW u,
         NEW n \in Places(w, "lagged"), DatedAt(w, T, v, n), v.phase # "ended",
         Live(v) \/ (x.m # "market" /\ ~Live(u))
  PROVE  DatedAt(Append(w, x), T, u, n)
<1> DEFINE z == Append(w, x)
<1>1. n \in 1..Len(w)
  BY PlacesOf
<1>2. FollowedAt(w, T, n) => FollowedAt(z, T, n)
  BY <1>1, SaidStays
<1>3. x.m # "market" => Places(z, "market") = Places(w, "market")
  BY PlacesMove
<1>4. z[n] = w[n]
  BY <1>1, Appended
<1> HIDE DEF z
<1>5. DatedAt(z, T, u, n)
  BY <1>2, <1>3, <1>4 DEF DatedAt
<1> QED BY <1>5 DEF z

\* A message about neither frames nor losses crosses.
LEMMA Aside ==
  ASSUME NEW w \in Seq(Message), NEW x \in Message, NEW T, NEW L, NEW v, NEW u,
         Holes(w, T, L, v), SameLoss(v, u), x.m \notin {"lagged", "market"},
         Live(u) => Live(v), v.phase # "ended"
  PROVE  Holes(Append(w, x), T, L, u)
<1> DEFINE z == Append(w, x)
<1>1. /\ Episodes(z) = Episodes(w) /\ Stated(z) = Stated(w) /\ LastTs(z, T) = LastTs(w, T)
  BY LastMoves
<1>2. Fair(z, T) /\ Counted(z, L)
  BY Says DEF Holes
<1>3. Places(z, "lagged") = Places(w, "lagged")
  BY PlacesMove
<1>4. \A n \in Places(w, "lagged") : DatedAt(z, T, u, n)
  BY DatedStays DEF Holes
<1> HIDE DEF z
<1>5. Holes(z, T, L, u)
  BY <1>1, <1>2, <1>3, <1>4 DEF Holes, Agrees, SameLoss
<1> QED BY <1>5 DEF z

\* A market frame crosses, with nothing owed.
LEMMA Crosses ==
  ASSUME NEW w \in Seq(Message), NEW T, NEW L, NEW v, NEW u, NEW i \in Nat,
         Holes(w, T, L, v), Live(v), v.pending.skipped = 0,
         u.pending.skipped = 0, u.total = v.total, u.episode = v.episode,
         u.delivered = T[i].ts,
         Cardinality({j \in L : j < i}) = Cardinality(L), Stated(w) \in Nat
  PROVE  Holes(Append(w, Market(i)), T, L, u)
<1> DEFINE x == Market(i)
           z == Append(w, x)
<1>1. x \in Message /\ x.m = "market" /\ x.id = i
  BY DEF Message, Market
<1> HIDE DEF x
<1>2. /\ Episodes(z) = Episodes(w) /\ Stated(z) = Stated(w) /\ LastTs(z, T) = T[i].ts
  BY <1>1, LastMoves
<1>3. Stated(w) = Cardinality(L) /\ Fair(w, T) /\ Counted(w, L)
  BY DEF Holes, Agrees
<1>4. Fair(z, T) /\ Counted(z, L)
  BY <1>1, <1>3, Says
<1>5. Places(z, "lagged") = Places(w, "lagged")
  BY <1>1, PlacesMove
<1>6. \A n \in Places(w, "lagged") : DatedAt(z, T, u, n)
  BY <1>1, DatedStays DEF Holes, Live
<1> HIDE DEF z
<1>7. Holes(z, T, L, u)
  BY <1>2, <1>3, <1>4, <1>5, <1>6 DEF Holes, Agrees
<1> QED BY <1>7 DEF z, x

\* A declaration states all that is owed.
Declares(v, x) ==
  /\ x \in Lagged /\ v.pending.skipped > 0 /\ v.phase # "ended"
  /\ x.episode = v.episode + 1 /\ x.skipped = v.pending.skipped /\ x.total = v.total
  /\ x.after = v.pending.after

DeclaredBy(w, T, L, v, x) ==
  LET z == Append(w, x)
  IN  /\ Fair(z, T) /\ Counted(z, L)
      /\ Episodes(z) = v.episode + 1 /\ Stated(z) = v.total
      /\ LastTs(z, T) = v.delivered
      /\ Places(z, "lagged") = Places(w, "lagged") \cup {Len(w) + 1}
      /\ Places(z, "market") = Places(w, "market")
      /\ z[Len(w) + 1] = x /\ Len(z) = Len(w) + 1

\* What is owed is declared, by a writer that says no more of the market or
\* dates it by the frame behind it.
LEMMA DeclaredIs ==
  ASSUME NEW w \in Seq(Message), NEW T, NEW L, NEW v, NEW x,
         Holes(w, T, L, v), Declares(v, x)
  PROVE  DeclaredBy(w, T, L, v, x)
<1> DEFINE z == Append(w, x)
<1>1. x \in Message /\ x.m = "lagged"
  BY DEF Message, Lagged, Declares
<1>2. /\ Episodes(z) = x.episode /\ Stated(z) = x.total /\ LastTs(z, T) = LastTs(w, T)
  BY <1>1, LastMoves
<1>3. /\ Stated(w) + x.skipped = x.total /\ x.episode = Episodes(w) + 1
      /\ x.after = LastTs(w, T) /\ v.delivered = LastTs(w, T)
  BY DEF Holes, Agrees, Declares
<1>4. Fair(z, T) /\ Counted(z, L)
  BY <1>1, <1>3, Says DEF Holes
<1>5. /\ Places(z, "lagged") = Places(w, "lagged") \cup {Len(w) + 1}
      /\ Places(z, "market") = Places(w, "market")
  BY <1>1, PlacesMove
<1>6. z[Len(w) + 1] = x /\ Len(z) = Len(w) + 1
  BY <1>1, Appended
<1> HIDE DEF z
<1>7. Episodes(z) = v.episode + 1 /\ Stated(z) = v.total
  BY <1>2, <1>3 DEF Declares
<1> QED BY <1>2, <1>3, <1>4, <1>5, <1>6, <1>7 DEF z, DeclaredBy

\* The last a writer says of the market.
LEMMA DeclaresLast ==
  ASSUME NEW w \in Seq(Message), NEW T, NEW L, NEW v, NEW u, NEW x,
         Holes(w, T, L, v), Declares(v, x),
         ~Live(u), x.resumed = 0 \/ u.phase = "ended",
         u.pending.skipped = 0, u.total = v.total, u.episode = v.episode + 1,
         u.delivered = v.delivered, v.total \in Nat
  PROVE  Holes(Append(w, x), T, L, u)
<1> DEFINE z == Append(w, x)
           e == Len(w) + 1
<1>1. /\ Fair(z, T) /\ Counted(z, L) /\ Episodes(z) = v.episode + 1 /\ Stated(z) = v.total
      /\ LastTs(z, T) = v.delivered
      /\ Places(z, "lagged") = Places(w, "lagged") \cup {e}
      /\ Places(z, "market") = Places(w, "market") /\ z[e] = x /\ Len(z) = e
  <2>1. DeclaredBy(w, T, L, v, x)
    BY DeclaredIs
  <2> QED BY <2>1 DEF DeclaredBy
<1>6. \A n \in Places(w, "lagged") : DatedAt(z, T, u, n)
  <2>1. x \in Message /\ x.m = "lagged"
    BY DEF Message, Lagged, Declares
  <2> QED BY <2>1, DatedStays DEF Holes, Declares
<1>2. \A k \in Places(w, "market") : k < e
  BY PlacesOf
<1> HIDE DEF z, e
<1>3. DatedAt(z, T, u, e)
  BY <1>1, <1>2 DEF DatedAt
<1>4. v.total = Cardinality(L)
  BY DEF Holes, Agrees
<1>5. Holes(z, T, L, u)
  BY <1>1, <1>3, <1>4, <1>6 DEF Holes, Agrees
<1> QED BY <1>5 DEF z

\* A declaration and the market frame that dates it.
LEMMA DeclaresAndCrosses ==
  ASSUME NEW w \in Seq(Message), NEW T, NEW L, NEW v, NEW u, NEW i \in Nat, NEW x,
         Holes(w, T, L, v), Live(v), Declares(v, x), x.resumed = T[i].ts,
         u.pending.skipped = 0, u.total = v.total, u.episode = v.episode + 1,
         u.delivered = T[i].ts, v.total \in Nat,
         Cardinality({j \in L : j < i}) = Cardinality(L)
  PROVE  Holes(Append(Append(w, x), Market(i)), T, L, u)
<1> DEFINE z == Append(w, x)
           e == Len(w) + 1
           m == Market(i)
           y == Append(z, m)
<1>0. v.phase # "ended" /\ v.total = Cardinality(L)
  BY DEF Live, Holes, Agrees
<1>1. /\ Fair(z, T) /\ Counted(z, L) /\ Episodes(z) = v.episode + 1 /\ Stated(z) = v.total
      /\ Places(z, "lagged") = Places(w, "lagged") \cup {e}
      /\ z[e] = x /\ Len(z) = e
  <2>1. DeclaredBy(w, T, L, v, x)
    BY DeclaredIs
  <2> QED BY <2>1 DEF DeclaredBy
<1>2. z \in Seq(Message) /\ m \in Message /\ m.m = "market" /\ m.id = i
  <2>1. x \in Message
    BY DEF Message, Declares
  <2>2. z \in Seq(Message)
    BY <2>1, Appended
  <2> QED BY <2>2 DEF Message, Market
<1> HIDE DEF m, z
<1>3. /\ Episodes(y) = Episodes(z) /\ Stated(y) = Stated(z) /\ LastTs(y, T) = T[i].ts
  BY <1>2, LastMoves
<1>4. Fair(y, T) /\ Counted(y, L)
  BY <1>0, <1>1, <1>2, Says
<1>5. Places(y, "lagged") = Places(z, "lagged") /\ e + 1 \in Places(y, "market")
  <2>1. Places(y, "lagged") = Places(z, "lagged")
    BY <1>2, PlacesMove
  <2>2. Places(y, "market") = Places(z, "market") \cup {Len(z) + 1}
    BY <1>2, PlacesMove
  <2> QED BY <1>1, <2>1, <2>2
<1>6. /\ y[e] = x /\ y[e + 1] = m /\ e \in Nat
  <2>1. e \in 1..Len(z) /\ e \in Nat
    BY <1>1
  <2> QED BY <1>1, <1>2, <2>1, Appended
<1>10. \A n \in Places(w, "lagged") : DatedAt(z, T, v, n)
  <2>1. x \in Message /\ x.m = "lagged"
    BY DEF Message, Lagged, Declares
  <2> QED BY <1>0, <2>1, DatedStays DEF Holes, z
<1>7. \A n \in Places(w, "lagged") : DatedAt(y, T, u, n)
  BY <1>0, <1>1, <1>2, <1>10, DatedStays
<1> HIDE DEF y, e
<1>8. DatedAt(y, T, u, e)
  BY <1>2, <1>5, <1>6 DEF DatedAt, FollowedAt
<1>9. Holes(y, T, L, u)
  BY <1>0, <1>1, <1>3, <1>4, <1>5, <1>7, <1>8 DEF Holes, Agrees
<1> QED BY <1>9 DEF y, z, m

------------------------------------------------------------------------------
(* The invariant.                                                          *)

Typed ==
  /\ tape \in Seq(Frame) /\ sent \in Nat
  /\ sent <= Len(tape) /\ Len(tape) <= sent + 1
  /\ slots \in [{"quote", "funding"} -> Nat]
  /\ slots.quote <= sent /\ slots.funding <= Len(tape)
  /\ end \in Nat /\ withholding \in BOOLEAN
  /\ queued \in Seq({Close, Terminal})
  /\ writer \in Writes /\ wire \in Seq(Message)

\* Frames named by id: all are on the tape; what was written or waits in a
\* snapshot is no newer than the writer's place, and what was lost is older.
Named == Ids(wire) \cup {writer.snapshots[k] : k \in 1..Len(writer.snapshots)}
Placed ==
  /\ \A i \in Named : i \in 1..Len(tape) /\ i <= writer.next
  /\ \A i \in lost : i \in 1..Len(tape) /\ i < writer.next
  /\ writer.next <= sent + 1

\* A writer's phases: before it serves nothing was lost.
Phased ==
  /\ writer.phase = "unbound" => writer = Unbound /\ wire = <<>> /\ withheld = {}
  /\ writer.phase # "unbound" => writer.next > 0
  /\ writer.phase \in {"unbound", "replaying"} => lost = {} /\ writer.open
  /\ writer.phase = "serving" => writer.snapshots = <<>>

Passed(i) == i \in lost \cup withheld \cup Outside \cup Ids(wire)

\* What the writer is past is accounted for, nothing past the window was
\* written, and the quote a new socket would get is at hand.
Covered == writer.phase # "ended" => \A i \in writer.since..writer.next - 1 : Passed(i)
Inside == \A i \in Ids(wire) : i \notin Outside
Quoted ==
  Bound => \/ slots.quote = 0 \/ Passed(slots.quote)
           \/ slots.quote \in Named \/ slots.quote >= writer.next

FeedInv == Typed /\ Placed /\ Phased /\ Covered /\ Inside /\ Quoted
           /\ Holes(wire, tape, lost, writer)

------------------------------------------------------------------------------
(* How the holes move.                                                     *)

\* Nothing said, nothing lost.
LEMMA Bare ==
  ASSUME NEW T, NEW v, v.pending.skipped = 0, v.total = 0, v.episode = 0, v.delivered = 0
  PROVE  Holes(<<>>, T, {}, v)
<1> DEFINE w == <<>>
<1>1. \A kind : Places(w, kind) = {}
  BY DEF Places
<1>2. \A kind, n : Latest(w, kind, n) = 0
  BY <1>1 DEF Latest
<1>3. Cardinality({}) = 0
  BY FS_EmptySet
<1> HIDE DEF w
<1>4. Episodes(w) = 0 /\ Stated(w) = 0 /\ LastTs(w, T) = 0
  BY <1>2 DEF Episodes, Stated, LastTs, DeclaredIn, TsIn
<1>5. Holes(w, T, {}, v)
  BY <1>1, <1>3, <1>4 DEF Holes, Fair, Counted, Agrees
<1> QED BY <1>5 DEF w

LEMMA Marked ==
  ASSUME NEW w \in Seq(Message)
  PROVE  /\ \A n \in Places(w, "market") : w[n].id \in Ids(w)
         /\ Places(w, "market") \subseteq 1..Len(w)
         /\ \A kind, n : n \in 1..Len(w) + 1 =>
              Latest(w, kind, n) \in {0} \cup Places(w, kind)
BY LatestIs DEF Ids, Places

LEMMA StatedIs ==
  ASSUME NEW w \in Seq(Message)
  PROVE  Stated(w) \in Nat
<1> DEFINE k == Latest(w, "lagged", Len(w) + 1)
<1>1. Len(w) + 1 \in 1..Len(w) + 1
  OBVIOUS
<1>2. k \in {0} \cup Places(w, "lagged")
  BY <1>1, Marked
<1>3. \A n \in Places(w, "lagged") : w[n] \in Lagged
  <2> TAKE n \in Places(w, "lagged")
  <2>1. w[n] \in Message /\ w[n].m = "lagged"
    BY DEF Places
  <2> QED BY <2>1 DEF Message, Close, Terminal
<1> HIDE DEF k
<1>4. DeclaredIn(w, k).total \in Nat
  BY <1>2, <1>3 DEF DeclaredIn, Lagged
<1> QED BY <1>4 DEF Stated, k

\* What is said stays said as the tape grows.
LEMMA TapeGrows ==
  ASSUME NEW w \in Seq(Message), NEW T \in Seq(Frame), NEW f, NEW L, NEW v,
         \A i \in Ids(w) : i \in 1..Len(T), Holes(w, T, L, v)
  PROVE  Holes(w, Append(T, f), L, v)
<1> DEFINE U == Append(T, f)
<1>1. \A i \in 1..Len(T) : U[i] = T[i]
  OBVIOUS
<1>2. Len(w) \in Nat
  OBVIOUS
<1> HIDE DEF U
<1>3. \A n \in Places(w, "market") : U[w[n].id].ts = T[w[n].id].ts
  BY <1>1, Marked
<1>4. \A n \in 1..Len(w) + 1 :
        TsIn(w, U, Latest(w, "market", n)) = TsIn(w, T, Latest(w, "market", n))
  <2> TAKE n \in 1..Len(w) + 1
  <2>1. Latest(w, "market", n) \in {0} \cup Places(w, "market")
    BY Marked
  <2> QED BY <1>3, <2>1 DEF TsIn
<1>5. Places(w, "lagged") \subseteq 1..Len(w) /\ Len(w) + 1 \in 1..Len(w) + 1
  BY <1>2 DEF Places
<1>6. \A n \in Places(w, "lagged") : FairAt(w, T, n) => FairAt(w, U, n)
  BY <1>2, <1>4, <1>5 DEF FairAt
<1>7. \A n \in Places(w, "lagged") : DatedAt(w, T, v, n) => DatedAt(w, U, v, n)
  BY <1>3 DEF DatedAt, FollowedAt
<1>8. LastTs(w, U) = LastTs(w, T)
  BY <1>4, <1>5 DEF LastTs
<1>9. Holes(w, U, L, v)
  BY <1>6, <1>7, <1>8 DEF Holes, Fair, Agrees
<1> QED BY <1>9 DEF U

\* Frames go unread: those no older than any that was written.
LEMMA Loses ==
  ASSUME NEW w \in Seq(Message), NEW T, NEW L, NEW D, NEW v, NEW u, NEW k \in Nat,
         Holes(w, T, L, v), IsFiniteSet(L), IsFiniteSet(D), L \cap D = {},
         Cardinality(D) = k, \A n \in Places(w, "market") : \A i \in D : ~(i < w[n].id),
         v.total \in Nat, v.pending.skipped \in Nat,
         Live(u) => Live(v), v.phase = "ended" => u.phase = "ended",
         u.total = v.total + k, u.episode = v.episode, u.delivered = v.delivered,
         u.pending.skipped = v.pending.skipped + k,
         u.pending.after = IF v.pending.skipped > 0 THEN v.pending.after ELSE v.delivered
  PROVE  Holes(w, T, L \cup D, u)
<1>1. Cardinality(L \cup D) = Cardinality(L) + k
  <2>1. Cardinality(L \cap D) = 0
    BY FS_EmptySet
  <2>2. Cardinality(L) \in Nat
    BY FS_CardinalityType
  <2>3. Cardinality(L \cup D) = Cardinality(L) + Cardinality(D) - Cardinality(L \cap D)
    BY FS_Union
  <2> QED BY <2>1, <2>2, <2>3
<1>2. \A n \in Places(w, "market") : {i \in L \cup D : i < w[n].id} = {i \in L : i < w[n].id}
  OBVIOUS
<1>3. \A n \in Places(w, "market") : CountedAt(w, L, n) => CountedAt(w, L \cup D, n)
  BY <1>2 DEF CountedAt
<1>4. /\ Stated(w) + v.pending.skipped = Cardinality(L)
      /\ v.total = Cardinality(L) /\ v.episode = Episodes(w)
      /\ v.delivered = LastTs(w, T)
      /\ v.pending.skipped > 0 => v.pending.after = v.delivered
  BY DEF Holes, Agrees
<1>5. Stated(w) + u.pending.skipped = Cardinality(L \cup D)
  BY <1>1, <1>4, StatedIs
<1>6. Agrees(w, T, L \cup D, u)
  BY <1>1, <1>4, <1>5 DEF Agrees
<1>7. \A n \in Places(w, "lagged") : DatedAt(w, T, v, n) => DatedAt(w, T, u, n)
  BY DEF DatedAt
<1> QED BY <1>3, <1>6, <1>7 DEF Holes, Counted

------------------------------------------------------------------------------
(* A frame written, and a debt settled.                                    *)

LEMMA DeclarationIs ==
  ASSUME NEW v \in Writes, writer \in Writes, SameLoss(writer, v), Owed, v.phase # "ended",
         NEW r \in Nat
  PROVE  Declares(v, Declaration(r)) /\ Declaration(r).resumed = r
BY DEF Declares, Declaration, Lagged, Writes, Gap, Owed, SameLoss

LEMMA IdsMove ==
  ASSUME NEW w \in Seq(Message), NEW x \in Message
  PROVE  /\ x.m # "market" => Ids(Append(w, x)) = Ids(w)
         /\ x.m = "market" => Ids(Append(w, x)) = Ids(w) \cup {x.id}
         /\ Append(w, x) \in Seq(Message)
<1> DEFINE E == IF x.m = "market" THEN {x.id} ELSE {}
<1>1. Ids(Append(w, x)) = Ids(w) \cup E
  BY AppendedIds
<1>2. /\ x.m = "market" => E = {x.id}
      /\ x.m # "market" => E = {}
  OBVIOUS
<1>3. Append(w, x) \in Seq(Message)
  OBVIOUS
<1> HIDE DEF E
<1> QED BY <1>1, <1>2, <1>3

LEMMA Behind ==
  ASSUME NEW w \in Seq(Message), NEW x \in Message
  PROVE  /\ w \o <<x>> = Append(w, x)
         /\ w \o <<>> = w
         /\ w \o <<>> \o <<x>> = Append(w, x)
BY ConcatEmptySeq, AppendIsConcat

\* What came of a frame the writer took: the socket ended on it, a window
\* withheld it, or it crossed.
Took(v, i) ==
  /\ writer' \in Writes /\ wire' \in Seq(Message)
  /\ writer'.next = v.next /\ writer'.since = v.since
  /\ writer'.snapshots = v.snapshots /\ writer'.open = v.open
  /\ \/ writer'.phase = "ended" /\ Ids(wire') = Ids(wire) /\ withheld' = withheld
     \/ writer'.phase = v.phase /\ Ids(wire') = Ids(wire) /\ withheld' = withheld \cup {i}
     \/ writer'.phase = v.phase /\ Ids(wire') = Ids(wire) \cup {i} /\ withheld' = withheld
  /\ Holes(wire', tape, lost, writer')

LEMMA WrittenIs ==
  ASSUME Typed, Holes(wire, tape, lost, writer), NEW v \in Writes, SameLoss(writer, v),
         Live(writer), Live(v), NEW i \in 1..Len(tape),
         Cardinality({j \in lost : j < i}) = Cardinality(lost), Written(v, i)
  PROVE  Took(v, i)
<1>0. Holes(wire, tape, lost, v) /\ v.phase # "ended"
  <2>1. writer.phase # "ended" /\ v.phase # "ended"
    BY DEF Live
  <2> QED BY <2>1, Silent
<1>1. /\ tape[i].ts \in Nat /\ i \in Nat /\ wire \in Seq(Message) /\ writer \in Writes
      /\ "ended" \in {"unbound", "replaying", "serving", "ended"} /\ writer.seen \in Nat
  <2>1. writer \in Writes /\ tape \in Seq(Frame) /\ wire \in Seq(Message)
    BY DEF Typed
  <2>2. tape[i] \in Frame
    BY <2>1
  <2>3. writer.seen \in Nat
    BY <2>1 DEF Writes
  <2> QED BY <2>1, <2>2, <2>3 DEF Frame
<1>2. CASE tape[i].ts < writer.seen
  <2> DEFINE x == [m |-> "fault"]
  <2>1. x \in Message /\ x.m = "fault"
    BY DEF Message
  <2>2. writer' = [v EXCEPT !.phase = "ended"] /\ wire' = Append(wire, x) /\ withheld' = withheld
    BY <1>2 DEF Written
  <2>3. /\ writer' \in Writes /\ SameLoss(v, writer') /\ writer'.phase = "ended"
        /\ writer'.next = v.next /\ writer'.since = v.since
        /\ writer'.snapshots = v.snapshots /\ writer'.open = v.open
    BY <2>2 DEF Writes, SameLoss
  <2> HIDE DEF x
  <2>4. Holes(wire', tape, lost, writer')
    BY <1>0, <1>1, <2>1, <2>2, <2>3, Aside DEF Live
  <2>5. Ids(wire') = Ids(wire) /\ wire' \in Seq(Message)
    BY <1>1, <2>1, <2>2, IdsMove
  <2> QED BY <2>2, <2>3, <2>4, <2>5 DEF Took
<1>3. CASE tape[i].ts >= writer.seen /\ withholding
  <2>1. writer' = [v EXCEPT !.seen = tape[i].ts] /\ withheld' = withheld \cup {i} /\ wire' = wire
    <3>1. ~(tape[i].ts < writer.seen)
      BY <1>1, <1>3
    <3> QED BY <1>3, <3>1 DEF Written
  <2>2. /\ writer' \in Writes /\ SameLoss(v, writer') /\ writer'.phase = v.phase
        /\ writer'.next = v.next /\ writer'.since = v.since
        /\ writer'.snapshots = v.snapshots /\ writer'.open = v.open
    BY <1>1, <2>1 DEF Writes, SameLoss
  <2>3. Holes(wire', tape, lost, writer')
    BY <1>0, <1>1, <2>1, <2>2, Silent DEF Live
  <2> QED BY <1>1, <2>1, <2>2, <2>3 DEF Took
<1>4. CASE tape[i].ts >= writer.seen /\ ~withholding
  <2> DEFINE x == Market(i)
             d == Declaration(tape[i].ts)
  <2>1. x \in Message /\ x.m = "market" /\ x.id = i
    BY DEF Message, Market
  <2>2. /\ writer' = [v EXCEPT !.seen = tape[i].ts, !.delivered = tape[i].ts, !.pending = NoGap,
                               !.episode = IF Owed THEN @ + 1 ELSE @]
        /\ wire' = wire \o (IF Owed THEN <<d>> ELSE <<>>) \o <<x>>
        /\ withheld' = withheld
    <3>1. ~(tape[i].ts < writer.seen)
      BY <1>1, <1>4
    <3> QED BY <1>4, <3>1 DEF Written
  <2>3. /\ writer' \in Writes /\ writer'.phase = v.phase
        /\ writer'.next = v.next /\ writer'.since = v.since
        /\ writer'.snapshots = v.snapshots /\ writer'.open = v.open
        /\ writer'.pending.skipped = 0 /\ writer'.total = v.total
        /\ writer'.delivered = tape[i].ts
        /\ writer'.episode = IF Owed THEN v.episode + 1 ELSE v.episode
        /\ v.total \in Nat
    <3> DEFINE e == IF Owed THEN v.episode + 1 ELSE v.episode
    <3>1. e \in Nat /\ NoGap \in Gap /\ NoGap.skipped = 0
      BY DEF Writes, Gap, NoGap
    <3>2. writer' = [v EXCEPT !.seen = tape[i].ts, !.delivered = tape[i].ts, !.pending = NoGap,
                              !.episode = e]
      BY <2>2 DEF Writes
    <3> HIDE DEF e
    <3>3. /\ writer' \in Writes /\ writer'.phase = v.phase
          /\ writer'.next = v.next /\ writer'.since = v.since
          /\ writer'.snapshots = v.snapshots /\ writer'.open = v.open
          /\ writer'.pending.skipped = 0 /\ writer'.total = v.total
          /\ writer'.delivered = tape[i].ts /\ writer'.episode = e
          /\ v.total \in Nat
      BY <1>1, <3>1, <3>2 DEF Writes
    <3> QED BY <3>3 DEF e
  <2> HIDE DEF x, d
  <2>4. CASE Owed
    <3>1. Declares(v, d) /\ d.resumed = tape[i].ts /\ d.m = "lagged"
      BY <1>0, <1>1, <2>4, DeclarationIs DEF d, Declares, Lagged
    <3>2. d \in Message
      BY <3>1 DEF Declares, Message
    <3>3. wire' = Append(Append(wire, d), x) /\ Append(wire, d) \in Seq(Message)
      BY <1>1, <2>1, <2>2, <2>4, <3>2, Behind, Appended
    <3>4. Holes(wire', tape, lost, writer')
      BY <1>0, <1>1, <2>3, <2>4, <3>1, <3>3, DeclaresAndCrosses DEF x
    <3>5. Ids(wire') = Ids(wire) \cup {i} /\ wire' \in Seq(Message)
      <4>1. Ids(Append(wire, d)) = Ids(wire)
        BY <1>1, <3>1, <3>2, IdsMove
      <4> QED BY <1>1, <2>1, <3>3, <4>1, IdsMove
    <3> QED BY <2>2, <2>3, <3>4, <3>5 DEF Took
  <2>5. CASE ~Owed
    <3>1. v.pending.skipped = 0
      BY <1>1, <2>5 DEF Owed, SameLoss, Writes, Gap
    <3>2. wire' = Append(wire, x)
      BY <1>1, <2>1, <2>2, <2>5, Behind
    <3>3. Stated(wire) \in Nat
      BY <1>1, StatedIs
    <3>4. Holes(wire', tape, lost, writer')
      BY <1>0, <1>1, <2>3, <2>5, <3>1, <3>2, <3>3, Crosses DEF x
    <3>5. Ids(wire') = Ids(wire) \cup {i} /\ wire' \in Seq(Message)
      BY <1>1, <2>1, <3>2, IdsMove
    <3> QED BY <2>2, <2>3, <3>4, <3>5 DEF Took
  <2> QED BY <2>4, <2>5
<1>5. withholding \in BOOLEAN /\ writer.seen \in Nat
  BY DEF Typed, Writes
<1> QED BY <1>1, <1>2, <1>3, <1>4, <1>5

\* What came of settling: nothing of the market crossed, and all the writer
\* owed was said, or it owes it still.
LEMMA SettledIs ==
  ASSUME Typed, Holes(wire, tape, lost, writer), NEW v \in Writes, SameLoss(writer, v),
         writer.phase # "ended", ~Live(v), NEW rest \in {<<>>, <<Close>>}, Settled(v, rest)
  PROVE  /\ writer' \in Writes /\ wire' \in Seq(Message)
         /\ writer'.next = v.next /\ writer'.since = v.since /\ writer'.phase = v.phase
         /\ writer'.snapshots = v.snapshots /\ writer'.open = v.open
         /\ Ids(wire') = Ids(wire)
         /\ Holes(wire', tape, lost, writer')
<1>1. /\ wire \in Seq(Message) /\ writer \in Writes /\ withholding \in BOOLEAN
      /\ Close \in Message /\ Close.m = "close"
  BY DEF Typed, Message, Close
<1>2. CASE Owed /\ ~withholding
  <2> DEFINE d == Declaration(0)
             u == [writer EXCEPT !.pending = NoGap, !.episode = @ + 1, !.open = FALSE]
             z == Append(wire, d)
  <2>1. writer' = [v EXCEPT !.pending = NoGap, !.episode = @ + 1] /\ wire' = z \o rest
    BY <1>2 DEF Settled
  <2>2. Declares(writer, d) /\ d.resumed = 0 /\ d.m = "lagged"
    <3>1. SameLoss(writer, writer)
      BY DEF SameLoss
    <3> QED BY <1>1, <1>2, <3>1, DeclarationIs DEF Declares, Lagged
  <2>3. /\ ~Live(u) /\ u.pending.skipped = 0 /\ u.total = writer.total
        /\ u.episode = writer.episode + 1 /\ u.delivered = writer.delivered
        /\ writer.total \in Nat /\ u.phase # "ended"
    BY <1>1 DEF Writes, NoGap, Live, Gap
  <2>4. /\ writer' \in Writes /\ SameLoss(u, writer') /\ ~Live(writer')
        /\ writer'.next = v.next /\ writer'.since = v.since /\ writer'.phase = v.phase
        /\ writer'.snapshots = v.snapshots /\ writer'.open = v.open
    <3> DEFINE e == v.episode + 1
    <3>1. e \in Nat /\ NoGap \in Gap
      BY DEF Writes, Gap, NoGap
    <3>2. writer' = [v EXCEPT !.pending = NoGap, !.episode = e]
      BY <2>1 DEF Writes
    <3>3. /\ u.pending = NoGap /\ u.total = v.total /\ u.episode = e /\ u.delivered = v.delivered
      BY <1>1 DEF Writes, SameLoss
    <3> HIDE DEF e, u
    <3>4. /\ writer' \in Writes /\ writer'.pending = NoGap
          /\ writer'.total = v.total /\ writer'.episode = e /\ writer'.delivered = v.delivered
          /\ writer'.next = v.next /\ writer'.since = v.since /\ writer'.phase = v.phase
          /\ writer'.snapshots = v.snapshots /\ writer'.open = v.open
      BY <3>1, <3>2 DEF Writes
    <3> QED BY <3>3, <3>4 DEF SameLoss, Live
  <2> HIDE DEF d, u
  <2>5. Holes(z, tape, lost, u)
    BY <1>1, <2>2, <2>3, DeclaresLast
  <2>6. z \in Seq(Message) /\ Ids(z) = Ids(wire)
    <3>1. d \in Message
      BY <2>2 DEF Declares, Message
    <3> QED BY <1>1, <2>2, <3>1, IdsMove
  <2> HIDE DEF z
  <2>7. CASE rest = <<>>
    <3>1. wire' = z
      BY <1>1, <2>1, <2>6, <2>7, Behind
    <3>2. Holes(z, tape, lost, writer')
      BY <2>3, <2>4, <2>5, Silent
    <3> QED BY <2>4, <2>6, <3>1, <3>2
  <2>8. CASE rest = <<Close>>
    <3>1. wire' = Append(z, Close)
      BY <1>1, <2>1, <2>6, <2>8, Behind
    <3>2. Holes(Append(z, Close), tape, lost, writer')
      BY <1>1, <2>3, <2>4, <2>5, <2>6, Aside
    <3>3. Ids(Append(z, Close)) = Ids(wire) /\ Append(z, Close) \in Seq(Message)
      BY <1>1, <2>6, IdsMove
    <3> QED BY <2>4, <3>1, <3>2, <3>3
  <2> QED BY <2>7, <2>8
<1>3. CASE ~(Owed /\ ~withholding)
  <2>1. writer' = v /\ wire' = wire \o rest
    BY <1>3 DEF Settled
  <2>2. CASE rest = <<>>
    <3>1. wire' = wire
      BY <1>1, <2>1, <2>2, Behind
    <3>2. Holes(wire, tape, lost, v)
      BY Silent
    <3> QED BY <1>1, <2>1, <3>1, <3>2
  <2>3. CASE rest = <<Close>>
    <3>1. wire' = Append(wire, Close)
      BY <1>1, <2>1, <2>3, Behind
    <3>2. Holes(Append(wire, Close), tape, lost, v)
      BY <1>1, Aside
    <3>3. Ids(Append(wire, Close)) = Ids(wire) /\ Append(wire, Close) \in Seq(Message)
      BY <1>1, IdsMove
    <3> QED BY <2>1, <3>1, <3>2, <3>3
  <2> QED BY <2>2, <2>3
<1> QED BY <1>2, <1>3

------------------------------------------------------------------------------
(* Steps of the writer and of the socket.                                  *)

Waiting(v) == {v.snapshots[k] : k \in 1..Len(v.snapshots)}

LEMMA NamedIs == Named = Ids(wire) \cup Waiting(writer)
BY DEF Named, Waiting

LEMMA OutsideIs ==
  \A i \in 1..Len(tape) : i \in Outside <=> PastEnd(i)
BY DEF Outside, PastEnd

\* What a step of the writer, or of the socket beside it, does to the frames.
Moves ==
  /\ Bound /\ UNCHANGED <<tapeVars, end>>
  /\ withholding' \in BOOLEAN /\ queued' \in Seq({Close, Terminal})
  /\ writer' \in Writes /\ wire' \in Seq(Message)
  /\ Holes(wire', tape, lost', writer')
  /\ writer'.since = writer.since /\ writer'.phase # "unbound"
  /\ writer'.phase = "replaying" => lost' = {} /\ writer'.open
  /\ writer'.phase = "serving" => writer'.snapshots = <<>>
  /\ writer.next <= writer'.next /\ writer'.next <= sent + 1
  /\ \A i \in Ids(wire') :
       i \in Ids(wire) \/ (i \in 1..Len(tape) /\ i <= writer'.next /\ i \notin Outside)
  /\ \A i \in Waiting(writer)' : i \in Waiting(writer)
  /\ \A i \in lost' : i \in lost \/ (i \in 1..Len(tape) /\ i < writer'.next)
  /\ writer'.phase # "ended" =>
       /\ writer.phase # "ended"
       /\ lost \subseteq lost' /\ withheld \subseteq withheld' /\ Ids(wire) \subseteq Ids(wire')
       /\ \A i \in Nat : writer.next <= i /\ i < writer'.next =>
            i \in lost' \cup withheld' \cup Outside \cup Ids(wire')
       /\ \A i \in Waiting(writer) :
            i \in Waiting(writer)' \cup lost' \cup withheld' \cup Outside \cup Ids(wire')

LEMMA MovesIs == FeedInv /\ Moves => FeedInv'
<1> SUFFICES ASSUME FeedInv, Moves PROVE FeedInv'
  OBVIOUS
<1>1. /\ tape' = tape /\ sent' = sent /\ slots' = slots /\ end' = end /\ Outside' = Outside
      /\ writer.next \in Nat /\ writer'.next \in Nat /\ writer.since \in Nat /\ sent \in Nat
      /\ slots.quote \in Nat
  BY DEF Moves, tapeVars, Outside, FeedInv, Typed, Writes
<1>2. Typed'
  BY <1>1 DEF FeedInv, Typed, Moves
<1>3. Placed'
  <2>1. \A i \in Named' : i \in 1..Len(tape) /\ i <= writer'.next
    <3> TAKE i \in Named'
    <3>1. i \in Ids(wire') \/ i \in Waiting(writer)'
      BY NamedIs DEF Named, Waiting
    <3>2. i \in Named \/ (i \in 1..Len(tape) /\ i <= writer'.next)
      BY <3>1, NamedIs DEF Moves
    <3>3. i \in Named => i \in 1..Len(tape) /\ i <= writer.next
      BY DEF FeedInv, Placed
    <3>4. writer.next <= writer'.next
      BY DEF Moves
    <3> QED BY <1>1, <3>2, <3>3, <3>4
  <2>2. \A i \in lost' : i \in 1..Len(tape) /\ i < writer'.next
    <3> TAKE i \in lost'
    <3>1. i \in lost => i \in 1..Len(tape) /\ i < writer.next
      BY DEF FeedInv, Placed
    <3>2. i \in lost \/ (i \in 1..Len(tape) /\ i < writer'.next)
      BY DEF Moves
    <3>4. writer.next <= writer'.next
      BY DEF Moves
    <3> QED BY <1>1, <3>1, <3>2, <3>4
  <2>3. writer'.next <= sent' + 1
    BY <1>1 DEF Moves
  <2> QED BY <1>1, <2>1, <2>2, <2>3 DEF Placed
<1>4. Phased'
  <2>1. writer.next > 0
    BY DEF FeedInv, Phased, Moves, Bound
  <2> QED BY <1>1, <2>1 DEF Phased, Moves
<1>5. writer'.phase # "ended" =>
        /\ \A i : Passed(i) => i \in lost' \cup withheld' \cup Outside' \cup Ids(wire')
        /\ \A i \in Nat : writer.next <= i /\ i < writer'.next =>
             i \in lost' \cup withheld' \cup Outside' \cup Ids(wire')
        /\ \A i \in Waiting(writer) :
             i \in Waiting(writer)' \cup lost' \cup withheld' \cup Outside' \cup Ids(wire')
  BY <1>1 DEF Moves, Passed
<1>6. Covered'
  <2> SUFFICES ASSUME writer'.phase # "ended", NEW i \in writer'.since..writer'.next - 1
               PROVE  i \in lost' \cup withheld' \cup Outside' \cup Ids(wire')
    BY DEF Covered, Passed
  <2>1. writer'.since = writer.since /\ writer.phase # "ended"
    BY DEF Moves
  <2>2. CASE i < writer.next
    <3>1. i \in writer.since..writer.next - 1
      BY <1>1, <2>1, <2>2
    <3>2. Passed(i)
      BY <2>1, <3>1 DEF FeedInv, Covered
    <3> QED BY <1>5, <3>2
  <2>3. CASE writer.next <= i
    <3>1. i \in Nat /\ i < writer'.next
      BY <1>1, <2>1
    <3> QED BY <1>5, <2>3, <3>1
  <2> QED BY <1>1, <2>1, <2>2, <2>3
<1>7. Inside'
  <2> SUFFICES ASSUME NEW i \in Ids(wire') PROVE i \notin Outside'
    BY DEF Inside
  <2>1. i \in Ids(wire) \/ i \notin Outside
    BY DEF Moves
  <2> QED BY <1>1, <2>1 DEF FeedInv, Inside
<1>8. Quoted'
  <2> SUFFICES ASSUME writer'.phase # "ended", slots.quote # 0
               PROVE  \/ slots.quote \in lost' \cup withheld' \cup Outside' \cup Ids(wire')
                      \/ slots.quote \in Waiting(writer)' \/ slots.quote >= writer'.next
    BY <1>1 DEF Quoted, Passed, Bound, Named, Waiting
  <2>1. \/ Passed(slots.quote) \/ slots.quote \in Ids(wire)
        \/ slots.quote \in Waiting(writer) \/ slots.quote >= writer.next
    BY NamedIs DEF FeedInv, Quoted, Moves
  <2>2. slots.quote >= writer.next => slots.quote >= writer'.next \/ slots.quote < writer'.next
    BY <1>1
  <2>3. slots.quote \in Ids(wire) => Passed(slots.quote)
    BY DEF Passed
  <2> QED BY <1>1, <1>5, <2>1, <2>2, <2>3
<1>9. Holes(wire, tape, lost, writer)'
  BY <1>1 DEF Moves
<1> QED BY <1>2, <1>3, <1>4, <1>6, <1>7, <1>8, <1>9 DEF FeedInv

\* A step that changes nothing of the frames and little of the writer.
LEMMA Rests ==
  ASSUME FeedInv, Bound, UNCHANGED <<tapeVars, end, lost, withheld>>,
         withholding' \in BOOLEAN, queued' \in Seq({Close, Terminal}),
         writer' \in Writes, wire' \in Seq(Message), Holes(wire', tape, lost, writer'),
         Ids(wire') = Ids(wire),
         writer'.snapshots = writer.snapshots, writer'.next = writer.next,
         writer'.since = writer.since,
         writer'.phase \in {writer.phase, "serving", "ended"},
         writer'.phase = "replaying" => writer'.open,
         writer'.phase = "serving" => writer.snapshots = <<>>
  PROVE  FeedInv'
<1>1. lost' = lost /\ withheld' = withheld /\ UNCHANGED <<tapeVars, end>>
  OBVIOUS
<1>2. Waiting(writer)' = Waiting(writer)
  BY DEF Waiting
<1>3. writer.next \in Nat /\ writer.next <= sent + 1 /\ writer.phase \in {"replaying", "serving"}
  BY DEF FeedInv, Typed, Writes, Placed, Bound
<1>4. writer'.phase = "replaying" => lost' = {} /\ writer'.open
  BY <1>1, <1>3 DEF FeedInv, Phased
<1>5. \A i \in Nat : ~(writer.next <= i /\ i < writer'.next)
  BY <1>3
<1>6. Moves
  BY <1>1, <1>2, <1>3, <1>4, <1>5 DEF Moves
<1> QED BY <1>6, MovesIs

------------------------------------------------------------------------------
(* Frames taken and left.                                                  *)

\* A frame before the window's end was taken, from a snapshot or from the ring.
LEMMA Takes ==
  ASSUME FeedInv, Bound, UNCHANGED <<tapeVars, socketVars, lost>>, NEW v, NEW i,
         v.phase = writer.phase, v.since = writer.since, v.open = writer.open,
         i \in 1..Len(tape), ~PastEnd(i), Took(v, i),
         v.next \in Nat, writer.next <= v.next, v.next <= sent + 1, i <= v.next,
         \A j \in Nat : writer.next <= j /\ j < v.next => j = i,
         Waiting(v) \subseteq Waiting(writer), Waiting(writer) \subseteq Waiting(v) \cup {i},
         v.phase = "serving" => v.snapshots = <<>>
  PROVE  FeedInv'
<1>1. /\ lost' = lost /\ UNCHANGED <<tapeVars, end>>
      /\ withholding' \in BOOLEAN /\ queued' \in Seq({Close, Terminal})
  BY DEF socketVars, FeedInv, Typed
<1>2. Waiting(writer)' = Waiting(v)
  BY DEF Took, Waiting
<1>3. i \notin Outside
  BY OutsideIs
<1>4. /\ writer' \in Writes /\ wire' \in Seq(Message)
      /\ writer'.next = v.next /\ writer'.since = v.since
      /\ writer'.snapshots = v.snapshots /\ writer'.open = v.open
      /\ Holes(wire', tape, lost, writer')
      /\ writer'.phase \in {"ended", v.phase}
  BY DEF Took
<1>5. /\ Ids(wire) \subseteq Ids(wire') /\ Ids(wire') \subseteq Ids(wire) \cup {i}
      /\ withheld \subseteq withheld'
      /\ writer'.phase # "ended" => i \in withheld' \cup Ids(wire')
  BY DEF Took
<1>6. writer.phase \in {"replaying", "serving"}
  BY DEF Bound
<1>7. writer'.phase = "replaying" => lost' = {} /\ writer'.open
  BY <1>1, <1>4, <1>6 DEF FeedInv, Phased
<1>8. writer'.phase = "serving" => writer'.snapshots = <<>>
  BY <1>4
<1>9. \A j \in Ids(wire') :
        j \in Ids(wire) \/ (j \in 1..Len(tape) /\ j <= writer'.next /\ j \notin Outside)
  BY <1>3, <1>4, <1>5
<1>10. writer'.phase # "ended" =>
         /\ \A j \in Nat : writer.next <= j /\ j < writer'.next =>
              j \in lost' \cup withheld' \cup Outside \cup Ids(wire')
         /\ \A j \in Waiting(writer) :
              j \in Waiting(writer)' \cup lost' \cup withheld' \cup Outside \cup Ids(wire')
  BY <1>2, <1>4, <1>5
<1>11. Moves
  BY <1>1, <1>2, <1>4, <1>5, <1>6, <1>7, <1>8, <1>9, <1>10 DEF Moves
<1> QED BY <1>11, MovesIs

\* A frame past the window's end is left.
LEMMA Leaves ==
  ASSUME FeedInv, Bound, UNCHANGED <<tapeVars, socketVars, lost, withheld>>, NEW v, NEW i,
         v.phase = writer.phase, v.since = writer.since,
         i \in 1..Len(tape), PastEnd(i),
         writer' \in Writes, wire' \in Seq(Message), Holes(wire', tape, lost, writer'),
         Ids(wire') = Ids(wire),
         writer'.next = v.next, writer'.since = v.since, writer'.phase = v.phase,
         writer'.snapshots = v.snapshots,
         v.phase = "replaying" => writer'.open,
         v.next \in Nat, writer.next <= v.next, v.next <= sent + 1,
         \A j \in Nat : writer.next <= j /\ j < v.next => j = i,
         Waiting(v) \subseteq Waiting(writer), Waiting(writer) \subseteq Waiting(v) \cup {i},
         v.phase = "serving" => v.snapshots = <<>>
  PROVE  FeedInv'
<1>1. /\ lost' = lost /\ withheld' = withheld /\ UNCHANGED <<tapeVars, end>>
      /\ withholding' \in BOOLEAN /\ queued' \in Seq({Close, Terminal})
  BY DEF socketVars, FeedInv, Typed
<1>2. Waiting(writer)' = Waiting(v)
  BY DEF Waiting
<1>3. i \in Outside
  BY OutsideIs
<1>6. writer.phase \in {"replaying", "serving"}
  BY DEF Bound
<1>7. writer'.phase = "replaying" => lost' = {} /\ writer'.open
  BY <1>1, <1>6 DEF FeedInv, Phased
<1>11. Moves
  BY <1>1, <1>2, <1>3, <1>6, <1>7 DEF Moves
<1> QED BY <1>11, MovesIs

\* What the snapshots hold but the first.
LEMMA FirstAndRest ==
  ASSUME NEW s \in Seq(Nat), s # <<>>
  PROVE  /\ Tail(s) \in Seq(Nat) /\ Head(s) \in Nat /\ Head(s) = s[1] /\ 1 \in 1..Len(s)
         /\ \A k \in 1..Len(Tail(s)) : Tail(s)[k] = s[k + 1] /\ k + 1 \in 1..Len(s)
         /\ \A k \in 1..Len(s) : k = 1 \/ (k - 1 \in 1..Len(Tail(s)) /\ Tail(s)[k - 1] = s[k])
OBVIOUS

LEMMA ReplayKeeps == FeedInv /\ Replay => FeedInv'
<1> SUFFICES ASSUME FeedInv, Replay PROVE FeedInv'
  OBVIOUS
<1> DEFINE s == writer.snapshots
           i == Head(s)
           v == [writer EXCEPT !.snapshots = Tail(@)]
<1>1. /\ writer \in Writes /\ s \in Seq(Nat) /\ s # <<>> /\ writer.phase = "replaying"
      /\ lost = {} /\ writer.open /\ Live(writer) /\ Bound /\ wire \in Seq(Message)
      /\ UNCHANGED <<tapeVars, socketVars, lost>>
  BY DEF FeedInv, Typed, Phased, Writes, Replay, Live, Bound
<1>2. /\ v \in Writes /\ v.phase = writer.phase /\ v.since = writer.since /\ v.open = writer.open
      /\ v.next = writer.next /\ v.snapshots = Tail(s) /\ SameLoss(writer, v)
  <2>1. Tail(s) \in Seq(Nat)
    BY <1>1, FirstAndRest
  <2> QED BY <1>1, <2>1 DEF Writes, SameLoss
<1>3. Live(v) /\ v.phase # "ended"
  BY <1>1, <1>2 DEF Live
<1>4. Waiting(v) \subseteq Waiting(writer) /\ Waiting(writer) \subseteq Waiting(v) \cup {i}
  <2> DEFINE t == Tail(s)
  <2>1. /\ s[1] = i /\ 1 \in 1..Len(s)
        /\ \A k \in 1..Len(t) : t[k] = s[k + 1] /\ k + 1 \in 1..Len(s)
        /\ \A k \in 1..Len(s) : k = 1 \/ (k - 1 \in 1..Len(t) /\ t[k - 1] = s[k])
    BY <1>1, FirstAndRest
  <2>2. v.snapshots = t /\ writer.snapshots = s
    BY <1>2
  <2> HIDE DEF v, s, t, i
  <2>3. /\ Waiting(v) = {t[k] : k \in 1..Len(t)}
        /\ Waiting(writer) = {s[k] : k \in 1..Len(s)}
    BY <2>2 DEF Waiting
  <2>4. \A k \in 1..Len(t) : t[k] \in Waiting(writer)
    BY <2>1, <2>3
  <2>5. \A k \in 1..Len(s) : s[k] \in Waiting(v) \cup {i}
    BY <2>1, <2>3
  <2> QED BY <2>3, <2>4, <2>5
<1>5. i \in Waiting(writer)
  BY <1>1, FirstAndRest DEF Waiting
<1>6. /\ i \in 1..Len(tape) /\ i <= v.next /\ v.next \in Nat /\ writer.next <= v.next
      /\ v.next <= sent + 1
  <2>1. writer.next \in Nat /\ sent \in Nat
    BY <1>1 DEF Writes, FeedInv, Typed
  <2>2. writer.next <= sent + 1
    BY DEF FeedInv, Placed
  <2>3. i \in Named
    BY <1>5, NamedIs
  <2>4. i \in 1..Len(tape) /\ i <= writer.next
    BY <2>3 DEF FeedInv, Placed
  <2> HIDE DEF v, i
  <2> QED BY <1>2, <2>1, <2>2, <2>4
<1>7. \A j \in Nat : ~(writer.next <= j /\ j < v.next)
  BY <1>2, <1>6
<1>8. CASE PastEnd(i)
  <2>1. writer' = v /\ wire' = wire /\ withheld' = withheld
    BY <1>8 DEF Replay
  <2> HIDE DEF v, i, s
  <2>2. Holes(wire, tape, lost, v)
    BY <1>1, <1>2, <1>3, Silent DEF FeedInv
  <2> QED BY <1>1, <1>2, <1>3, <1>4, <1>6, <1>7, <1>8, <2>1, <2>2, Leaves
<1>9. CASE ~PastEnd(i)
  <2>1. Written(v, i)
    BY <1>9 DEF Replay
  <2> HIDE DEF v, i, s
  <2>2. Cardinality({j \in lost : j < i}) = Cardinality(lost)
    <3>1. {j \in lost : j < i} = lost
      BY <1>1
    <3> QED BY <3>1
  <2>3. Took(v, i)
    BY <1>1, <1>2, <1>3, <1>6, <2>1, <2>2, WrittenIs DEF FeedInv
  <2> QED BY <1>1, <1>2, <1>3, <1>4, <1>6, <1>7, <1>9, <2>3, Takes
<1> QED BY <1>8, <1>9

LEMMA ReadKeeps == FeedInv /\ Read => FeedInv'
<1> SUFFICES ASSUME FeedInv, Read PROVE FeedInv'
  OBVIOUS
<1> DEFINE i == writer.next
           v == [writer EXCEPT !.next = i + 1]
           u == [v EXCEPT !.open = FALSE]
<1>1. /\ writer \in Writes /\ writer.phase = "serving" /\ writer.open /\ writer.snapshots = <<>>
      /\ Live(writer) /\ Bound /\ wire \in Seq(Message) /\ writer.phase # "ended"
      /\ UNCHANGED <<tapeVars, socketVars, lost>>
      /\ i \in 1..Len(tape) /\ i <= sent
  <2>1. writer \in Writes /\ writer.phase = "serving" /\ writer.open /\ wire \in Seq(Message)
    BY DEF FeedInv, Typed, Read, Reads
  <2>2. writer.snapshots = <<>> /\ writer.next > 0 /\ writer.next \in Nat
    BY <2>1 DEF FeedInv, Phased, Writes
  <2>3. sent \in Nat /\ sent <= Len(tape) /\ Len(tape) \in Nat
    BY DEF FeedInv, Typed
  <2>4. i <= sent /\ UNCHANGED <<tapeVars, socketVars, lost>>
    BY DEF Read
  <2> QED BY <2>1, <2>2, <2>3, <2>4 DEF Live, Bound
<1>2. /\ v \in Writes /\ v.phase = writer.phase /\ v.since = writer.since /\ v.open = writer.open
      /\ v.next = i + 1 /\ v.snapshots = writer.snapshots /\ SameLoss(writer, v)
      /\ u \in Writes /\ u.phase = writer.phase /\ u.since = writer.since /\ u.open = FALSE
      /\ u.next = i + 1 /\ u.snapshots = writer.snapshots /\ SameLoss(writer, u)
  <2> DEFINE e == i + 1
  <2>1. e \in Nat
    BY <1>1 DEF Writes
  <2> HIDE DEF e
  <2>2. /\ v = [writer EXCEPT !.next = e]
        /\ u = [writer EXCEPT !.next = e, !.open = FALSE]
    BY <1>1 DEF e, Writes
  <2>3. /\ v \in Writes /\ v.phase = writer.phase /\ v.since = writer.since
        /\ v.open = writer.open
        /\ v.next = e /\ v.snapshots = writer.snapshots /\ SameLoss(writer, v)
    <3> HIDE DEF v
    <3> QED BY <1>1, <2>1, <2>2 DEF Writes, SameLoss
  <2>4. /\ u \in Writes /\ u.phase = writer.phase /\ u.since = writer.since /\ u.open = FALSE
        /\ u.next = e /\ u.snapshots = writer.snapshots /\ SameLoss(writer, u)
    <3> HIDE DEF u, v
    <3> QED BY <1>1, <2>1, <2>2 DEF Writes, SameLoss
  <2> QED BY <2>3, <2>4 DEF e
<1>3. Live(v) /\ v.phase # "ended" /\ ~Live(u)
  BY <1>1, <1>2 DEF Live
<1>4. /\ Waiting(v) = Waiting(writer) /\ Waiting(u) = Waiting(writer)
      /\ v.phase = "serving" => v.snapshots = <<>>
      /\ u.phase = "serving" => u.snapshots = <<>>
  <2> HIDE DEF v, u
  <2> QED BY <1>1, <1>2 DEF Waiting
<1>6. /\ i <= v.next /\ v.next \in Nat /\ writer.next <= v.next /\ v.next <= sent + 1
      /\ \A j \in Nat : writer.next <= j /\ j < v.next => j = i
      /\ u.next \in Nat /\ writer.next <= u.next /\ u.next <= sent + 1
      /\ \A j \in Nat : writer.next <= j /\ j < u.next => j = i
  <2>1. sent \in Nat /\ i \in Nat
    BY <1>1 DEF FeedInv, Typed
  <2> HIDE DEF v, u
  <2> QED BY <1>1, <1>2, <2>1
<1>8. CASE PastEnd(i)
  <2>1. Settled(u, <<>>) /\ withheld' = withheld
    BY <1>8 DEF Read
  <2> HIDE DEF v, i, u
  <2>2. /\ writer' \in Writes /\ wire' \in Seq(Message)
        /\ writer'.next = u.next /\ writer'.since = u.since /\ writer'.phase = u.phase
        /\ writer'.snapshots = u.snapshots /\ writer'.open = u.open
        /\ Ids(wire') = Ids(wire)
        /\ Holes(wire', tape, lost, writer')
    BY <1>1, <1>2, <1>3, <2>1, SettledIs DEF FeedInv
  <2>3. u.phase # "replaying"
    BY <1>1, <1>2
  <2> QED BY <1>1, <1>2, <1>3, <1>4, <1>6, <1>8, <2>1, <2>2, <2>3, Leaves
<1>9. CASE ~PastEnd(i)
  <2>1. Written(v, i)
    BY <1>9 DEF Read
  <2>2. Cardinality({j \in lost : j < i}) = Cardinality(lost)
    <3>1. {j \in lost : j < i} = lost
      BY DEF FeedInv, Placed
    <3> QED BY <3>1
  <2> HIDE DEF v, i, u
  <2>3. Took(v, i)
    BY <1>1, <1>2, <1>3, <2>1, <2>2, WrittenIs DEF FeedInv
  <2> QED BY <1>1, <1>2, <1>3, <1>4, <1>6, <1>9, <2>3, Takes
<1> QED BY <1>8, <1>9

------------------------------------------------------------------------------
(* The tape and the socket.                                                *)

LEMMA InitIs == Init => FeedInv
<1> SUFFICES ASSUME Init PROVE FeedInv
  OBVIOUS
<1>1. /\ writer \in Writes /\ writer = Unbound /\ wire = <<>> /\ lost = {} /\ withheld = {}
      /\ writer.phase = "unbound" /\ writer.next = 0 /\ writer.since = 0 /\ writer.open
      /\ writer.pending.skipped = 0 /\ writer.total = 0 /\ writer.episode = 0
      /\ writer.delivered = 0 /\ writer.snapshots = <<>>
  BY DEF Init, Unbound, Writes, Gap, NoGap
<1>2. Typed
  <2>1. /\ tape = <<>> /\ sent = 0 /\ slots = [quote |-> 0, funding |-> 0] /\ queued = <<>>
        /\ withholding = FALSE /\ end \in WindowEnds
    BY DEF Init
  <2>2. tape \in Seq(Frame) /\ Len(tape) = 0 /\ queued \in Seq({Close, Terminal})
        /\ wire \in Seq(Message)
    BY <1>1, <2>1
  <2>3. slots \in [{"quote", "funding"} -> Nat] /\ slots.quote = 0 /\ slots.funding = 0
    BY <2>1
  <2>4. end \in Nat
    BY <2>1, FeedAssumption
  <2>5. /\ sent \in Nat /\ sent <= Len(tape) /\ Len(tape) <= sent + 1
        /\ slots.quote <= sent /\ slots.funding <= Len(tape)
    BY <2>1, <2>2, <2>3
  <2>6. withholding \in BOOLEAN
    BY <2>1
  <2> HIDE <2>1
  <2> QED BY <1>1, <2>2, <2>3, <2>4, <2>5, <2>6 DEF Typed
<1>3. Ids(wire) = {}
  BY <1>1 DEF Ids, Places
<1>4. Named = {}
  BY <1>1, <1>3 DEF Named
<1>5. Placed /\ Phased /\ Inside
  BY <1>1, <1>3, <1>4, <1>2 DEF Placed, Phased, Inside, Typed
<1>6. Covered /\ Quoted
  BY <1>1 DEF Covered, Quoted, Bound
<1>7. Holes(wire, tape, lost, writer)
  BY <1>1, Bare
<1> QED BY <1>2, <1>5, <1>6, <1>7 DEF FeedInv

\* The tape goes on, beside the socket.
LEMMA TapeSteps ==
  ASSUME FeedInv, UNCHANGED <<socketVars, writerVars>>,
         tape' \in Seq(Frame), sent' \in Nat, sent <= sent', sent' <= Len(tape'),
         Len(tape') <= sent' + 1, Len(tape) <= Len(tape'),
         slots' \in [{"quote", "funding"} -> Nat], slots.quote' <= sent',
         slots.funding' <= Len(tape'), slots.quote' \in {slots.quote, sent + 1},
         \A i \in 1..Len(tape) : tape'[i] = tape[i],
         Holes(wire, tape', lost, writer)
  PROVE  FeedInv'
<1>1. /\ writer' = writer /\ wire' = wire /\ lost' = lost /\ withheld' = withheld
      /\ end' = end /\ withholding' = withholding /\ queued' = queued
      /\ Len(tape) \in Nat /\ Len(tape') \in Nat /\ sent \in Nat /\ writer.next \in Nat
      /\ slots.quote \in Nat
  <2>1. /\ writer' = writer /\ wire' = wire /\ lost' = lost /\ withheld' = withheld
        /\ end' = end /\ withholding' = withholding /\ queued' = queued
    BY DEF socketVars, writerVars
  <2>2. /\ Len(tape) \in Nat /\ sent \in Nat /\ writer.next \in Nat /\ slots.quote \in Nat
    BY DEF FeedInv, Typed, Writes
  <2>3. Len(tape') \in Nat
    OBVIOUS
  <2> QED BY <2>1, <2>2, <2>3
<1>2. Typed'
  <2>1. /\ end \in Nat /\ withholding \in BOOLEAN /\ queued \in Seq({Close, Terminal})
        /\ writer \in Writes /\ wire \in Seq(Message)
    BY DEF FeedInv, Typed
  <2>2. /\ end' \in Nat /\ withholding' \in BOOLEAN /\ queued' \in Seq({Close, Terminal})
        /\ writer' \in Writes /\ wire' \in Seq(Message)
    BY <1>1, <2>1
  <2> QED BY <2>2 DEF Typed
<1>3. Named' = Named
  BY <1>1 DEF Named
<1>4. Placed'
  BY <1>1, <1>3 DEF FeedInv, Placed
<1>5. Phased'
  BY <1>1 DEF FeedInv, Phased
<1>6. \A i \in 1..Len(tape) : i \in Outside' <=> i \in Outside
  BY <1>1 DEF Outside
<1>7. \A i \in Outside : i \in Outside'
  BY <1>6 DEF Outside
<1>8. \A i : Passed(i) => Passed(i)'
  BY <1>1, <1>7 DEF Passed
<1>9. Covered'
  BY <1>1, <1>8 DEF FeedInv, Covered
<1>10. Inside'
  <2> SUFFICES ASSUME NEW i \in Ids(wire) PROVE i \notin Outside'
    BY <1>1 DEF Inside
  <2>1. i \in 1..Len(tape)
    BY NamedIs DEF FeedInv, Placed
  <2> QED BY <1>6, <2>1 DEF FeedInv, Inside
<1>11. Quoted'
  <2> SUFFICES ASSUME Bound, slots.quote' # 0
               PROVE  \/ Passed(slots.quote)' \/ slots.quote' \in Named
                      \/ slots.quote' >= writer.next
    BY <1>1, <1>3 DEF Quoted, Bound
  <2>1. CASE slots.quote' = slots.quote
    BY <1>1, <1>8, <2>1 DEF FeedInv, Quoted
  <2>2. CASE slots.quote' = sent + 1
    <3>1. writer.next <= sent + 1
      BY DEF FeedInv, Placed
    <3> QED BY <1>1, <2>2, <3>1
  <2> QED BY <2>1, <2>2
<1> QED BY <1>1, <1>2, <1>4, <1>5, <1>9, <1>10, <1>11 DEF FeedInv

\* A frame is made.
LEMMA Makes ==
  ASSUME FeedInv, NEW kind \in Kinds, Make(kind)
  PROVE  /\ tape' \in Seq(Frame) /\ Len(tape') = Len(tape) + 1 /\ Len(tape) \in Nat
         /\ \A i \in 1..Len(tape) : tape'[i] = tape[i]
         /\ sent = Len(tape)
         /\ Holes(wire, tape', lost, writer)
<1> DEFINE f == [kind |-> kind, ts |-> Instants[Len(tape) + 1]]
<1>1. tape \in Seq(Frame) /\ Len(tape) < Len(Instants) /\ tape' = Append(tape, f)
      /\ sent = Len(tape)
  BY DEF Make, FeedInv, Typed, MaxFrames
<1>2. Instants[Len(tape) + 1] \in Nat
  BY <1>1, FeedAssumption
<1>3. f \in Frame
  BY <1>2 DEF Frame
<1> HIDE DEF f
<1>4. \A i \in Ids(wire) : i \in 1..Len(tape)
  BY NamedIs DEF FeedInv, Placed
<1>5. Holes(wire, tape', lost, writer)
  BY <1>1, <1>4, TapeGrows DEF FeedInv, Typed
<1> QED BY <1>1, <1>3, <1>5

LEMMA PublishKeeps == FeedInv /\ Publish => FeedInv'
<1> SUFFICES ASSUME FeedInv, Publish PROVE FeedInv'
  OBVIOUS
<1>1. /\ sent \in Nat /\ slots \in [{"quote", "funding"} -> Nat] /\ Len(tape) \in Nat
      /\ slots.quote <= sent /\ slots.funding <= Len(tape) /\ sent <= Len(tape)
      /\ Len(tape) <= sent + 1 /\ tape \in Seq(Frame)
      /\ slots.quote \in Nat /\ slots.funding \in Nat
  BY DEF FeedInv, Typed
<1>2. CASE PublishQuote
  <2>1. Make("quote") /\ "quote" \in Kinds /\ sent' = sent + 1
        /\ slots' = [slots EXCEPT !.quote = sent + 1] /\ UNCHANGED <<socketVars, writerVars>>
    BY <1>2 DEF PublishQuote, Kinds
  <2>2. /\ slots' \in [{"quote", "funding"} -> Nat] /\ slots'.quote = sent + 1
        /\ slots'.funding = slots.funding
    BY <1>1, <2>1
  <2>3. /\ tape' \in Seq(Frame) /\ Len(tape') = Len(tape) + 1
        /\ \A i \in 1..Len(tape) : tape'[i] = tape[i]
        /\ sent = Len(tape) /\ Holes(wire, tape', lost, writer)
    BY <2>1, Makes
  <2> QED BY <1>1, <2>1, <2>2, <2>3, TapeSteps
<1>3. CASE PublishTrade
  <2>1. Make("trade") /\ "trade" \in Kinds /\ sent' = sent + 1
        /\ slots' = slots /\ UNCHANGED <<socketVars, writerVars>>
    BY <1>3 DEF PublishTrade, Kinds
  <2>3. /\ tape' \in Seq(Frame) /\ Len(tape') = Len(tape) + 1
        /\ \A i \in 1..Len(tape) : tape'[i] = tape[i]
        /\ sent = Len(tape) /\ Holes(wire, tape', lost, writer)
    BY <2>1, Makes
  <2> QED BY <1>1, <2>1, <2>3, TapeSteps
<1>4. CASE KeepFunding
  <2>1. Make("funding") /\ "funding" \in Kinds /\ sent' = sent
        /\ slots' = [slots EXCEPT !.funding = sent + 1] /\ UNCHANGED <<socketVars, writerVars>>
    BY <1>4 DEF KeepFunding, Kinds
  <2>2. /\ slots' \in [{"quote", "funding"} -> Nat] /\ slots'.quote = slots.quote
        /\ slots'.funding = sent + 1
    BY <1>1, <2>1
  <2>3. /\ tape' \in Seq(Frame) /\ Len(tape') = Len(tape) + 1
        /\ \A i \in 1..Len(tape) : tape'[i] = tape[i]
        /\ sent = Len(tape) /\ Holes(wire, tape', lost, writer)
    BY <2>1, Makes
  <2> QED BY <1>1, <2>1, <2>2, <2>3, TapeSteps
<1>5. CASE SendKept
  <2>1. /\ sent < Len(tape) /\ sent' = sent + 1 /\ tape' = tape /\ slots' = slots
        /\ UNCHANGED <<socketVars, writerVars>>
    BY <1>5 DEF SendKept
  <2>2. Holes(wire, tape', lost, writer)
    BY <2>1 DEF FeedInv
  <2> QED BY <1>1, <2>1, <2>2, TapeSteps
<1> QED BY <1>2, <1>3, <1>4, <1>5 DEF Publish

\* What the socket's own task does touches no frame.
LEMMA SocketSteps ==
  ASSUME FeedInv, UNCHANGED <<tapeVars, end, writerVars>>,
         withholding' \in BOOLEAN, queued' \in Seq({Close, Terminal})
  PROVE  FeedInv'
<1>1. /\ tape' = tape /\ sent' = sent /\ slots' = slots /\ end' = end
      /\ writer' = writer /\ wire' = wire /\ lost' = lost /\ withheld' = withheld
  BY DEF tapeVars, writerVars
<1>2. /\ Outside' = Outside /\ Named' = Named /\ (Bound' <=> Bound)
      /\ \A i : Passed(i)' <=> Passed(i)
  BY <1>1 DEF Outside, Named, Passed, Bound
<1>3. Typed'
  <2>1. Typed
    BY DEF FeedInv
  <2>2. /\ tape' \in Seq(Frame) /\ sent' \in Nat /\ sent' <= Len(tape') /\ Len(tape') <= sent' + 1
        /\ slots' \in [{"quote", "funding"} -> Nat] /\ slots.quote' <= sent'
        /\ slots.funding' <= Len(tape') /\ end' \in Nat /\ writer' \in Writes
        /\ wire' \in Seq(Message)
    BY <1>1, <2>1 DEF Typed
  <2> QED BY <2>2 DEF Typed
<1>4. Placed' /\ Phased'
  BY <1>1, <1>2 DEF FeedInv, Placed, Phased
<1>5. Covered' /\ Inside'
  BY <1>1, <1>2 DEF FeedInv, Covered, Inside
<1>6. Quoted'
  <2>1. Bound' => \/ slots.quote = 0 \/ Passed(slots.quote)
                  \/ slots.quote \in Named \/ slots.quote >= writer.next
    BY <1>2 DEF FeedInv, Quoted
  <2> QED BY <1>1, <1>2, <2>1 DEF Quoted
<1> QED BY <1>1, <1>3, <1>4, <1>5, <1>6 DEF FeedInv

LEMMA SocketKeeps == FeedInv /\ (Arm \/ Complete \/ Evict \/ PeerLeaves) => FeedInv'
<1> SUFFICES ASSUME FeedInv, Arm \/ Complete \/ Evict \/ PeerLeaves PROVE FeedInv'
  OBVIOUS
<1>1. queued \in Seq({Close, Terminal}) /\ withholding \in BOOLEAN
  BY DEF FeedInv, Typed
<1>2. UNCHANGED <<tapeVars, end, writerVars>>
  BY DEF Arm, Complete, Evict, PeerLeaves
<1>3. withholding' \in BOOLEAN
  <2>1. Arm => withholding' = ~withholding
    BY DEF Arm
  <2>2. ~Arm => withholding' = withholding
    BY DEF Complete, Evict, PeerLeaves
  <2> QED BY <1>1, <2>1, <2>2
<1>4. queued' \in Seq({Close, Terminal})
  <2>1. CASE queued' = queued
    BY <1>1, <2>1
  <2>2. CASE Complete
    <3>1. queued' = queued \o <<Terminal, Close>>
      BY <2>2 DEF Complete
    <3>2. <<Terminal, Close>> \in Seq({Close, Terminal})
      OBVIOUS
    <3> QED BY <1>1, <3>1, <3>2, ConcatProperties
  <2>3. CASE Evict
    <3>1. queued' = <<Close>> \o queued
      BY <2>3 DEF Evict
    <3>2. <<Close>> \in Seq({Close, Terminal})
      OBVIOUS
    <3> QED BY <1>1, <3>1, <3>2, ConcatProperties
  <2> QED BY <2>1, <2>2, <2>3 DEF Arm, PeerLeaves
<1> QED BY <1>2, <1>3, <1>4, SocketSteps

------------------------------------------------------------------------------
(* The other steps of the writer.                                          *)

LEMMA Pair ==
  ASSUME NEW a \in Nat, NEW b \in Nat
  PROVE  LET s == <<a>> \o <<b>>
         IN  /\ s \in Seq(Nat) /\ Len(s) = 2 /\ s[1] = a /\ s[2] = b
<1> DEFINE x == <<a>>
           y == <<b>>
<1>1. /\ x \in Seq(Nat) /\ y \in Seq(Nat) /\ Len(x) = 1 /\ Len(y) = 1 /\ x[1] = a /\ y[1] = b
  OBVIOUS
<1> HIDE DEF x, y
<1>2. x \o y \in Seq(Nat) /\ Len(x \o y) = 2 /\ (x \o y)[1] = a /\ (x \o y)[2] = b
  <2>1. /\ x \o y \in Seq(Nat) /\ Len(x \o y) = Len(x) + Len(y)
        /\ \A i \in 1..Len(x) + Len(y) : (x \o y)[i] = IF i <= Len(x) THEN x[i] ELSE y[i - Len(x)]
    BY <1>1, ConcatProperties
  <2>2. 1 \in 1..Len(x) + Len(y) /\ 2 \in 1..Len(x) + Len(y)
    BY <1>1
  <2>3. (x \o y)[1] = x[1]
    BY <1>1, <2>1, <2>2
  <2>4. (x \o y)[2] = y[1]
    BY <1>1, <2>1, <2>2
  <2> QED BY <1>1, <2>1, <2>3, <2>4
<1> QED BY <1>2 DEF x, y

LEMMA SnapshotsIs ==
  ASSUME FeedInv
  PROVE  /\ Snapshots \in Seq(Nat)
         /\ \A k \in 1..Len(Snapshots) : Snapshots[k] \in {slots.quote, slots.funding} \ {0}
         /\ slots.quote # 0 => \E k \in 1..Len(Snapshots) : Snapshots[k] = slots.quote
<1> DEFINE q == slots.quote
           f == slots.funding
<1>1. q \in Nat /\ f \in Nat
  BY DEF FeedInv, Typed
<1>2. Snapshots \in {<<>>, <<q>>, <<f>>, <<q>> \o <<f>>, <<f, q>>}
      /\ (Snapshots = <<>> => q = 0) /\ (Snapshots = <<f>> /\ q # f => q = 0)
      /\ (Snapshots = <<q>> => q # 0) /\ (Snapshots = <<f>> => f # 0)
      /\ (Snapshots \in {<<q>> \o <<f>>, <<f, q>>} => q # 0 /\ f # 0)
  <2>1. CASE q # 0 /\ f # 0 /\ tape[f].ts < tape[q].ts
    <3>1. Snapshots = <<f, q>>
      BY <2>1 DEF Snapshots
    <3> QED BY <2>1, <3>1
  <2>2. CASE ~(q # 0 /\ f # 0 /\ tape[f].ts < tape[q].ts) /\ q # 0 /\ f # 0
    <3>0. ~(tape[f].ts < tape[q].ts)
      BY <2>2
    <3>1. Snapshots = <<q>> \o <<f>>
      BY <2>2, <3>0 DEF Snapshots
    <3>2. Len(Snapshots) = 2
      BY <1>1, <3>1, Pair
    <3> QED BY <2>2, <3>1, <3>2
  <2>3. CASE q = 0 /\ f # 0
    <3>1. Snapshots = <<>> \o <<f>>
      BY <2>3 DEF Snapshots
    <3>2. Snapshots = <<f>>
      BY <3>1
    <3> QED BY <2>3, <3>2
  <2>4. CASE q # 0 /\ f = 0
    <3>1. Snapshots = <<q>> \o <<>>
      BY <2>4 DEF Snapshots
    <3>2. Snapshots = <<q>>
      BY <3>1
    <3> QED BY <2>4, <3>2
  <2>5. CASE q = 0 /\ f = 0
    <3>1. Snapshots = <<>> \o <<>>
      BY <2>5 DEF Snapshots
    <3>2. Snapshots = <<>>
      BY <3>1
    <3> QED BY <2>5, <3>2
  <2> QED BY <2>1, <2>2, <2>3, <2>4, <2>5
<1> HIDE DEF q, f
<1>3. CASE Snapshots = <<>>
  BY <1>1, <1>2, <1>3 DEF q, f
<1>4. CASE Snapshots = <<q>>
  <2>1. 1 \in 1..Len(Snapshots) /\ Snapshots[1] = q
    BY <1>4
  <2> QED BY <1>1, <1>2, <1>4, <2>1 DEF q, f
<1>5. CASE Snapshots = <<f>>
  <2>1. 1 \in 1..Len(Snapshots) /\ Snapshots[1] = f
    BY <1>5
  <2> QED BY <1>1, <1>2, <1>5, <2>1 DEF q, f
<1>6. CASE Snapshots = <<q>> \o <<f>>
  <2>1. /\ Snapshots \in Seq(Nat) /\ Len(Snapshots) = 2 /\ Snapshots[1] = q /\ Snapshots[2] = f
    BY <1>1, <1>6, Pair
  <2> QED BY <1>1, <1>2, <1>6, <2>1 DEF q, f
<1>7. CASE Snapshots = <<f, q>>
  <2>1. 2 \in 1..Len(Snapshots) /\ Snapshots[2] = q
    BY <1>7
  <2> QED BY <1>1, <1>2, <1>7, <2>1 DEF q, f
<1> QED BY <1>2, <1>3, <1>4, <1>5, <1>6, <1>7

LEMMA SubscribeKeeps == FeedInv /\ Subscribe => FeedInv'
<1> SUFFICES ASSUME FeedInv, Subscribe PROVE FeedInv'
  OBVIOUS
<1> DEFINE s == Snapshots
<1>1. /\ writer.phase = "unbound" /\ writer = Unbound /\ wire = <<>> /\ withheld = {} /\ lost = {}
      /\ writer \in Writes /\ UNCHANGED <<tapeVars, socketVars, wire, lost, withheld>>
      /\ writer' = [writer EXCEPT !.phase = "replaying", !.snapshots = s,
                                  !.next = sent + 1, !.since = sent + 1]
  BY DEF FeedInv, Typed, Phased, Subscribe
<1>2. /\ sent \in Nat /\ slots.quote <= sent /\ slots.funding <= Len(tape) /\ Len(tape) <= sent + 1
      /\ slots.quote \in Nat /\ slots.funding \in Nat /\ Len(tape) \in Nat /\ sent <= Len(tape)
  BY DEF FeedInv, Typed
<1>3. /\ s \in Seq(Nat)
      /\ \A k \in 1..Len(s) : s[k] \in {slots.quote, slots.funding} \ {0}
      /\ slots.quote # 0 => \E k \in 1..Len(s) : s[k] = slots.quote
  BY SnapshotsIs
<1> HIDE DEF s
<1>4. /\ tape' = tape /\ sent' = sent /\ slots' = slots /\ end' = end /\ withholding' = withholding
      /\ queued' = queued /\ wire' = wire /\ lost' = lost /\ withheld' = withheld
  BY <1>1 DEF tapeVars, socketVars
<1>5. /\ writer' \in Writes /\ writer'.phase = "replaying" /\ writer'.snapshots = s
      /\ writer'.next = sent + 1 /\ writer'.since = sent + 1
      /\ writer'.pending = writer.pending /\ writer'.total = writer.total
      /\ writer'.episode = writer.episode /\ writer'.delivered = writer.delivered
      /\ writer'.open = writer.open
  <2> DEFINE e == sent + 1
  <2>1. e \in Nat
    BY <1>2
  <2>2. writer' = [writer EXCEPT !.phase = "replaying", !.snapshots = s, !.next = e, !.since = e]
    BY <1>1
  <2> HIDE DEF e
  <2>3. /\ writer' \in Writes /\ writer'.phase = "replaying" /\ writer'.snapshots = s
        /\ writer'.next = e /\ writer'.since = e
        /\ writer'.pending = writer.pending /\ writer'.total = writer.total
        /\ writer'.episode = writer.episode /\ writer'.delivered = writer.delivered
        /\ writer'.open = writer.open
    BY <1>1, <1>3, <2>1, <2>2 DEF Writes
  <2> QED BY <2>3 DEF e
<1>6. /\ writer.pending.skipped = 0 /\ writer.total = 0 /\ writer.episode = 0
      /\ writer.delivered = 0 /\ writer.open
  BY <1>1 DEF Unbound, NoGap
<1>7. Holes(wire, tape, lost, writer)'
  <2>1. Holes(<<>>, tape, {}, writer')
    BY <1>5, <1>6, Bare
  <2> QED BY <1>1, <1>4, <2>1
<1>8. Typed'
  <2>1. /\ tape \in Seq(Frame) /\ slots \in [{"quote", "funding"} -> Nat] /\ end \in Nat
        /\ withholding \in BOOLEAN /\ queued \in Seq({Close, Terminal}) /\ wire \in Seq(Message)
    BY DEF FeedInv, Typed
  <2>2. /\ tape' \in Seq(Frame) /\ slots' \in [{"quote", "funding"} -> Nat] /\ end' \in Nat
        /\ withholding' \in BOOLEAN /\ queued' \in Seq({Close, Terminal}) /\ wire' \in Seq(Message)
        /\ sent' \in Nat /\ sent' <= Len(tape') /\ Len(tape') <= sent' + 1
        /\ slots'.quote <= sent' /\ slots'.funding <= Len(tape')
    BY <1>2, <1>4, <2>1
  <2> QED BY <1>5, <2>2 DEF Typed
<1>9. Ids(wire') = {}
  BY <1>1, <1>4 DEF Ids, Places
<1>10. Named' = {s[k] : k \in 1..Len(s)}
  BY <1>5, <1>9 DEF Named
<1>11. Placed'
  <2>1. \A i \in Named' : i \in 1..Len(tape) /\ i <= sent + 1
    <3>1. \A i \in {slots.quote, slots.funding} \ {0} : i \in 1..Len(tape) /\ i <= sent + 1
      BY <1>2
    <3> DEFINE G == {slots.quote, slots.funding} \ {0}
    <3>2. \A k \in 1..Len(s) : s[k] \in G
      BY <1>3
    <3> HIDE DEF G
    <3> QED BY <1>10, <3>1, <3>2 DEF G
  <2>2. writer'.next <= sent' + 1 /\ lost' = {}
    BY <1>1, <1>2, <1>4, <1>5
  <2> QED BY <1>4, <1>5, <2>1, <2>2 DEF Placed
<1>12. Phased'
  BY <1>1, <1>2, <1>4, <1>5, <1>6 DEF Phased
<1>13. Covered' /\ Inside'
  BY <1>2, <1>5, <1>9 DEF Covered, Inside
<1>14. Quoted'
  BY <1>3, <1>4, <1>10 DEF Quoted
<1> QED BY <1>7, <1>8, <1>11, <1>12, <1>13, <1>14 DEF FeedInv

LEMMA ReplayedKeeps == FeedInv /\ (Replayed \/ End) => FeedInv'
<1> SUFFICES ASSUME FeedInv, Replayed \/ End PROVE FeedInv'
  OBVIOUS
<1>1. /\ writer \in Writes /\ wire \in Seq(Message) /\ withholding \in BOOLEAN
      /\ queued \in Seq({Close, Terminal}) /\ Holes(wire, tape, lost, writer)
  BY DEF FeedInv, Typed
<1>2. /\ UNCHANGED <<tapeVars, socketVars, wire, lost, withheld>> /\ Bound
      /\ \E p \in {"serving", "ended"} :
           /\ writer' = [writer EXCEPT !.phase = p]
           /\ p = "serving" => writer.phase = "replaying" /\ writer.snapshots = <<>>
  BY DEF Replayed, End, Bound
<1>3. PICK p \in {"serving", "ended"} :
        /\ writer' = [writer EXCEPT !.phase = p]
        /\ p = "serving" => writer.phase = "replaying" /\ writer.snapshots = <<>>
  BY <1>2
<1>4. /\ writer' \in Writes /\ writer'.phase = p /\ writer'.snapshots = writer.snapshots
      /\ writer'.next = writer.next /\ writer'.since = writer.since
      /\ SameLoss(writer, writer') /\ writer'.open = writer.open
  BY <1>1, <1>3 DEF Writes, SameLoss
<1>5. Live(writer') => Live(writer)
  BY <1>3, <1>4 DEF Live
<1>6. writer.phase # "ended"
  BY <1>2 DEF Bound
<1>7. Holes(wire, tape, lost, writer')
  BY <1>1, <1>4, <1>5, <1>6, Silent
<1>8. /\ wire' = wire /\ lost' = lost /\ withheld' = withheld /\ end' = end
      /\ withholding' = withholding /\ queued' = queued /\ UNCHANGED tapeVars
  BY <1>2 DEF socketVars
<1> QED BY <1>1, <1>2, <1>3, <1>4, <1>7, <1>8, Rests

LEMMA WriteLaneKeeps == FeedInv /\ WriteLane => FeedInv'
<1> SUFFICES ASSUME FeedInv, WriteLane PROVE FeedInv'
  OBVIOUS
<1>1. /\ writer \in Writes /\ wire \in Seq(Message) /\ withholding \in BOOLEAN
      /\ queued \in Seq({Close, Terminal}) /\ Holes(wire, tape, lost, writer) /\ Typed
      /\ writer.phase = "serving" /\ writer.snapshots = <<>> /\ Bound /\ queued # <<>>
  BY DEF FeedInv, Typed, Phased, WriteLane, Bound
<1>2. /\ queued' = Tail(queued) /\ UNCHANGED <<tapeVars, end, withholding, leaving, lost, withheld>>
  BY DEF WriteLane
<1>3. queued' \in Seq({Close, Terminal}) /\ Head(queued) \in {Close, Terminal}
  BY <1>1, <1>2, HeadTailProperties
<1>4. CASE Head(queued) = Close
  <2> DEFINE v == [writer EXCEPT !.phase = "ended"]
  <2>1. Settled(v, <<Close>>)
    BY <1>4 DEF WriteLane
  <2>2. /\ v \in Writes /\ SameLoss(writer, v) /\ v.phase = "ended"
        /\ v.next = writer.next /\ v.since = writer.since /\ v.snapshots = writer.snapshots
    BY <1>1 DEF Writes, SameLoss
  <2> HIDE DEF v
  <2>3. ~Live(v)
    BY <2>2 DEF Live
  <2>4. /\ writer' \in Writes /\ wire' \in Seq(Message)
        /\ writer'.next = v.next /\ writer'.since = v.since /\ writer'.phase = v.phase
        /\ writer'.snapshots = v.snapshots
        /\ Ids(wire') = Ids(wire)
        /\ Holes(wire', tape, lost, writer')
    BY <1>1, <2>1, <2>2, <2>3, SettledIs
  <2> QED BY <1>1, <1>2, <1>3, <2>2, <2>4, Rests
<1>5. CASE Head(queued) # Close
  <2>1. wire' = Append(wire, Terminal) /\ writer' = writer
    BY <1>3, <1>5 DEF WriteLane
  <2>2. Terminal \in Message /\ Terminal.m = "terminal"
    BY DEF Terminal, Message
  <2>3. SameLoss(writer, writer)
    BY DEF SameLoss
  <2>4. Holes(Append(wire, Terminal), tape, lost, writer)
    BY <1>1, <2>2, <2>3, Aside
  <2>5. Ids(Append(wire, Terminal)) = Ids(wire) /\ Append(wire, Terminal) \in Seq(Message)
    BY <1>1, <2>2, IdsMove
  <2> QED BY <1>1, <1>2, <1>3, <2>1, <2>4, <2>5, Rests
<1> QED BY <1>4, <1>5

LEMMA FailKeeps == FeedInv /\ FailAfterDeclaring => FeedInv'
<1> SUFFICES ASSUME FeedInv, FailAfterDeclaring PROVE FeedInv'
  OBVIOUS
<1> DEFINE r == tape[writer.next].ts
           x == Declaration(r)
<1>1. /\ writer \in Writes /\ wire \in Seq(Message) /\ withholding \in BOOLEAN
      /\ queued \in Seq({Close, Terminal}) /\ Holes(wire, tape, lost, writer)
      /\ writer.phase = "serving" /\ Bound /\ Owed
      /\ UNCHANGED <<tapeVars, socketVars, lost, withheld>>
  BY DEF FeedInv, Typed, FailAfterDeclaring, Bound, Reads
<1>2. writer.next \in 1..Len(tape) /\ writer.next <= sent /\ sent \in Nat /\ tape \in Seq(Frame)
  <2>1. writer.next <= sent
    BY DEF FailAfterDeclaring
  <2>2. sent \in Nat /\ sent <= Len(tape) /\ tape \in Seq(Frame) /\ Len(tape) \in Nat
    BY DEF FeedInv, Typed
  <2>3. writer.next > 0 /\ writer.next \in Nat
    BY <1>1 DEF FeedInv, Phased, Writes
  <2> QED BY <2>1, <2>2, <2>3
<1>3. r \in Nat
  <2>1. tape[writer.next] \in Frame
    BY <1>2
  <2> QED BY <2>1 DEF Frame
<1>4. wire' = Append(wire, x)
  BY DEF FailAfterDeclaring
<1>5. /\ writer' \in Writes /\ writer'.phase = "ended" /\ writer'.next = writer.next + 1
      /\ writer'.since = writer.since /\ writer'.snapshots = writer.snapshots
      /\ writer'.pending.skipped = 0 /\ writer'.total = writer.total
      /\ writer'.episode = writer.episode + 1 /\ writer'.delivered = writer.delivered
      /\ writer.total \in Nat
  <2> DEFINE e == writer.episode + 1
             n == writer.next + 1
  <2>1. e \in Nat /\ n \in Nat /\ NoGap \in Gap /\ NoGap.skipped = 0
    BY <1>1 DEF Writes, Gap, NoGap
  <2>2. writer' = [writer EXCEPT !.phase = "ended", !.pending = NoGap, !.episode = e,
                                 !.next = n, !.seen = r]
    BY <1>1 DEF FailAfterDeclaring, Writes
  <2> HIDE DEF e, n, r, x
  <2>3. /\ writer' \in Writes /\ writer'.phase = "ended" /\ writer'.next = n
        /\ writer'.since = writer.since /\ writer'.snapshots = writer.snapshots
        /\ writer'.pending = NoGap /\ writer'.total = writer.total
        /\ writer'.episode = e /\ writer'.delivered = writer.delivered
        /\ writer.total \in Nat
    BY <1>1, <1>3, <2>1, <2>2 DEF Writes
  <2> QED BY <2>1, <2>3 DEF e, n
<1>6. Declares(writer, x)
  <2>1. SameLoss(writer, writer)
    BY DEF SameLoss
  <2> HIDE DEF r
  <2> QED BY <1>1, <1>3, <2>1, DeclarationIs
<1>7. x \in Message /\ x.m = "lagged"
  BY <1>6 DEF Declares, Message, Lagged
<1> HIDE DEF x
<1>8. Ids(wire') = Ids(wire) /\ wire' \in Seq(Message)
  BY <1>1, <1>4, <1>7, IdsMove
<1>9. Holes(wire', tape, lost, writer')
  <2>1. ~Live(writer')
    BY <1>5 DEF Live
  <2> QED BY <1>1, <1>4, <1>5, <1>6, <2>1, DeclaresLast
<1>10. /\ lost' = lost /\ withheld' = withheld /\ UNCHANGED <<tapeVars, end>>
       /\ withholding' = withholding /\ queued' = queued
  BY <1>1 DEF socketVars
<1>11. Waiting(writer)' = Waiting(writer)
  BY <1>5 DEF Waiting
<1>12. Moves
  BY <1>1, <1>2, <1>5, <1>8, <1>9, <1>10, <1>11 DEF Moves
<1> QED BY <1>12, MovesIs

LEMMA LagKeeps == FeedInv /\ Lag => FeedInv'
<1> SUFFICES ASSUME FeedInv, Lag PROVE FeedInv'
  OBVIOUS
<1> DEFINE k == Oldest - writer.next
           D == writer.next..Oldest - 1
           p == IF Owed
                THEN [skipped |-> writer.pending.skipped + k, after |-> writer.pending.after]
                ELSE [skipped |-> k, after |-> writer.delivered]
<1>1. /\ writer \in Writes /\ wire \in Seq(Message) /\ withholding \in BOOLEAN
      /\ queued \in Seq({Close, Terminal}) /\ Holes(wire, tape, lost, writer)
      /\ writer.phase = "serving" /\ writer.snapshots = <<>> /\ Bound /\ tape \in Seq(Frame)
      /\ UNCHANGED <<tapeVars, socketVars, wire, withheld>>
      /\ lost' = lost \cup D
  BY DEF FeedInv, Typed, Phased, Lag, Bound, Reads
<1>2. /\ sent \in Nat /\ sent <= Len(tape) /\ Len(tape) \in Nat
      /\ writer.next \in Nat /\ writer.next > 0 /\ writer.next < Oldest
      /\ writer.pending \in Gap /\ writer.total \in Nat /\ writer.delivered \in Nat
      /\ writer.pending.skipped \in Nat /\ writer.pending.after \in Nat
  BY <1>1 DEF FeedInv, Typed, Phased, Lag, Writes, Gap
<1>3. Oldest \in Nat /\ Oldest <= sent
  BY <1>2, FeedAssumption DEF Oldest
<1>4. k \in Nat /\ k > 0 /\ D \subseteq 1..Len(tape) /\ IsFiniteSet(D) /\ Cardinality(D) = k
  <2>1. Oldest - 1 \in Int /\ writer.next \in Int /\ ~(writer.next > Oldest - 1)
    BY <1>2, <1>3
  <2>2. IsFiniteSet(D) /\ Cardinality(D) = Oldest - 1 - writer.next + 1
    BY <2>1, FS_Interval
  <2> QED BY <1>2, <1>3, <2>2
<1>5. /\ p \in Gap /\ p.skipped = writer.pending.skipped + k
      /\ p.after = IF writer.pending.skipped > 0 THEN writer.pending.after ELSE writer.delivered
  <2>1. CASE Owed
    <3> DEFINE e == writer.pending.skipped + k
    <3>1. e \in Nat /\ writer.pending.skipped > 0
      BY <1>2, <1>4, <2>1 DEF Owed
    <3>2. p = [skipped |-> e, after |-> writer.pending.after]
      BY <2>1
    <3> HIDE DEF p, e, k
    <3>3. p \in Gap /\ p.skipped = e /\ p.after = writer.pending.after
      BY <1>2, <3>1, <3>2 DEF Gap
    <3> QED BY <3>1, <3>3 DEF e
  <2>2. CASE ~Owed
    <3>1. writer.pending.skipped = 0
      BY <1>2, <2>2 DEF Owed
    <3>2. p = [skipped |-> k, after |-> writer.delivered]
      BY <2>2
    <3> HIDE DEF p
    <3> QED BY <1>2, <1>4, <3>1, <3>2 DEF Gap
  <2> QED BY <2>1, <2>2
<1>6. /\ writer' \in Writes /\ writer'.phase = writer.phase /\ writer'.next = Oldest
      /\ writer'.since = writer.since /\ writer'.snapshots = writer.snapshots
      /\ writer'.pending = p /\ writer'.total = writer.total + k
      /\ writer'.episode = writer.episode /\ writer'.delivered = writer.delivered
      /\ writer'.open = writer.open
  <2> DEFINE t == writer.total + k
  <2>1. t \in Nat
    BY <1>2, <1>4
  <2>2. writer' = [writer EXCEPT !.next = Oldest, !.total = t, !.pending = p]
    BY DEF Lag
  <2> HIDE DEF t, p, k
  <2>3. /\ writer' \in Writes /\ writer'.phase = writer.phase /\ writer'.next = Oldest
        /\ writer'.since = writer.since /\ writer'.snapshots = writer.snapshots
        /\ writer'.pending = p /\ writer'.total = t
        /\ writer'.episode = writer.episode /\ writer'.delivered = writer.delivered
        /\ writer'.open = writer.open
    BY <1>1, <1>3, <1>5, <2>1, <2>2 DEF Writes
  <2> QED BY <2>3 DEF t
<1> HIDE DEF p
<1>7. /\ IsFiniteSet(lost) /\ \A i \in lost : i \in 1..Len(tape) /\ i < writer.next
  <2>1. \A i \in lost : i \in 1..Len(tape) /\ i < writer.next
    BY DEF FeedInv, Placed
  <2>2. IsFiniteSet(1..Len(tape))
    BY <1>2, FS_Interval
  <2>3. lost \subseteq 1..Len(tape)
    BY <2>1
  <2> QED BY <2>1, <2>2, <2>3, FS_Subset
<1>8. lost \cap D = {}
  BY <1>2, <1>3, <1>7
<1>9. \A n \in Places(wire, "market") : \A i \in D : ~(i < wire[n].id)
  <2> SUFFICES ASSUME NEW n \in Places(wire, "market"), NEW i \in D PROVE ~(i < wire[n].id)
    OBVIOUS
  <2>1. wire[n].id \in Ids(wire)
    BY <1>1, Marked
  <2>2. wire[n].id \in 1..Len(tape) /\ wire[n].id <= writer.next
    BY <2>1, NamedIs DEF FeedInv, Placed
  <2> QED BY <1>2, <1>3, <2>2
<1>10. Live(writer') => Live(writer)
  BY <1>6 DEF Live
<1>11. writer.phase # "ended"
  BY <1>1
<1> HIDE DEF D, k
<1>12. Holes(wire, tape, lost \cup D, writer')
  BY <1>1, <1>2, <1>4, <1>5, <1>6, <1>7, <1>8, <1>9, <1>10, <1>11, Loses
<1>13. /\ wire' = wire /\ withheld' = withheld /\ UNCHANGED <<tapeVars, end>>
       /\ withholding' = withholding /\ queued' = queued
  BY <1>1 DEF socketVars
<1>14. Waiting(writer)' = Waiting(writer)
  BY <1>6 DEF Waiting
<1>15. \A i \in Nat : writer.next <= i /\ i < Oldest <=> i \in D
  BY <1>2, <1>3 DEF D
<1>16. /\ writer.next <= writer'.next /\ writer'.next <= sent + 1
       /\ \A i \in Nat : writer.next <= i /\ i < writer'.next => i \in lost'
       /\ \A i \in lost' : i \in lost \/ (i \in 1..Len(tape) /\ i < writer'.next)
  <2>1. writer'.next = Oldest /\ lost' = lost \cup D
    BY <1>1, <1>6
  <2>2. \A i \in D : i \in 1..Len(tape) /\ i \in Nat
    BY <1>2, <1>4
  <2>3. \A i \in D : i < Oldest
    BY <1>15, <2>2
  <2>4. writer.next <= Oldest /\ Oldest <= sent + 1
    BY <1>2, <1>3
  <2> QED BY <1>15, <2>1, <2>2, <2>3, <2>4
<1>17. Moves
  BY <1>1, <1>6, <1>12, <1>13, <1>14, <1>16 DEF Moves
<1> QED BY <1>17, MovesIs

------------------------------------------------------------------------------
(* The theorems about the feed.                                            *)

LEMMA StutterKeeps == FeedInv /\ UNCHANGED vars => FeedInv'
<1> SUFFICES ASSUME FeedInv, UNCHANGED vars PROVE FeedInv'
  OBVIOUS
<1>1. UNCHANGED <<tapeVars, end, writerVars>> /\ withholding' = withholding /\ queued' = queued
  BY DEF vars, socketVars
<1>2. withholding \in BOOLEAN /\ queued \in Seq({Close, Terminal})
  BY DEF FeedInv, Typed
<1> QED BY <1>1, <1>2, SocketSteps

LEMMA NextKeeps == FeedInv /\ [Next]_vars => FeedInv'
BY StutterKeeps, PublishKeeps, SubscribeKeeps, SocketKeeps, ReplayKeeps, ReplayedKeeps,
   WriteLaneKeeps, LagKeeps, ReadKeeps, FailKeeps DEF Next, Write

LEMMA Invariant == Spec => []FeedInv
<1>1. Init => FeedInv
  BY InitIs
<1>2. FeedInv /\ [Next]_vars => FeedInv'
  BY NextKeeps
<1> QED BY <1>1, <1>2, PTL DEF Spec

\* What a declaration is dated by is the next market frame on the wire.
LEMMA Dated ==
  ASSUME FeedInv, NEW n \in OnWire("lagged")
  PROVE  wire[n].resumed = TsAt(FirstAfter("market", n)) \/ n = Len(wire)
<1> DEFINE E == {k \in OnWire("market") : k > n}
<1>1. n \in Places(wire, "lagged") /\ OnWire("market") = Places(wire, "market")
  BY OnWireIs
<1>2. DatedAt(wire, tape, writer, n)
  BY <1>1 DEF FeedInv, Holes
<1>3. FirstAfter("market", n) = IF E = {} THEN 0 ELSE Min(E)
  BY DEF FirstAfter
<1>4. E \in SUBSET Int /\ n \in Int
  BY <1>1 DEF Places
<1>5. CASE FollowedAt(wire, tape, n)
  <2>1. n + 1 \in E
    BY <1>1, <1>4, <1>5 DEF FollowedAt
  <2>2. \A k \in E : n + 1 <= k
    BY <1>4
  <2> HIDE DEF E
  <2>3. Min(E) = n + 1
    BY <1>4, <2>1, <2>2, MinIs
  <2>4. FirstAfter("market", n) = n + 1 /\ n + 1 # 0
    BY <1>1, <1>3, <2>1, <2>3 DEF Places
  <2> QED BY <1>5, <2>4 DEF TsAt, FollowedAt
<1>6. CASE (\A k \in Places(wire, "market") : k < n) /\ wire[n].resumed = 0
  <2>1. E = {}
    BY <1>1, <1>4, <1>6 DEF Places
  <2>2. FirstAfter("market", n) = 0
    BY <1>3, <2>1
  <2> QED BY <1>6, <2>2 DEF TsAt
<1> QED BY <1>2, <1>5, <1>6 DEF DatedAt

LEMMA InvHoles == FeedInv => HolesStated
<1> SUFFICES ASSUME FeedInv PROVE HolesStated
  OBVIOUS
<1>1. /\ \A kind : OnWire(kind) = Places(wire, kind)
      /\ \A kind, n : LastBefore(kind, n) = Latest(wire, kind, n)
  BY OnWireIs
<1>2. /\ \A k : Declared(k) = DeclaredIn(wire, k)
      /\ \A k : TsAt(k) = TsIn(wire, tape, k)
  BY DEF Declared, DeclaredIn, TsAt, TsIn
<1>3. /\ Fair(wire, tape) /\ Counted(wire, lost)
      /\ Stated(wire) + writer.pending.skipped = Cardinality(lost)
  BY DEF FeedInv, Holes, Agrees
<1>4. Declared(LastBefore("lagged", Len(wire) + 1)).total + writer.pending.skipped
        = Cardinality(lost)
  BY <1>1, <1>2, <1>3 DEF Stated
<1>5. \A n \in OnWire("lagged") :
        LET before == Declared(LastBefore("lagged", n))
        IN /\ wire[n].episode = before.episode + 1
           /\ wire[n].total = before.total + wire[n].skipped
           /\ wire[n].after = TsAt(LastBefore("market", n))
           /\ wire[n].resumed = TsAt(FirstAfter("market", n)) \/ n = Len(wire)
  <2> TAKE n \in OnWire("lagged")
  <2>1. FairAt(wire, tape, n)
    BY <1>1, <1>3 DEF Fair
  <2>2. wire[n].resumed = TsAt(FirstAfter("market", n)) \/ n = Len(wire)
    BY Dated
  <2> QED BY <1>1, <1>2, <2>1, <2>2 DEF FairAt
<1>6. \A n \in OnWire("market") :
        Cardinality({i \in lost : i < wire[n].id}) = Declared(LastBefore("lagged", n)).total
  BY <1>1, <1>2, <1>3 DEF Counted, CountedAt
<1> QED BY <1>4, <1>5, <1>6 DEF HolesStated

LEMMA InvMissed == FeedInv => NothingMissed
<1> SUFFICES ASSUME FeedInv PROVE NothingMissed
  OBVIOUS
<1>1. Delivered = Ids(wire)
  BY OnWireIs
<1>2. writer.phase = "serving" =>
        \A i \in writer.since..writer.next - 1 :
          i \in lost \cup withheld \cup Outside \cup Delivered
  BY <1>1 DEF FeedInv, Covered, Passed
<1>3. Delivered \cap Outside = {}
  BY <1>1 DEF FeedInv, Inside
<1>4. ASSUME writer.phase = "serving", writer.next = sent + 1, lost = {}, withheld = {},
             slots.quote \notin {0} \cup Outside
      PROVE  slots.quote \in Delivered
  <2>1. Bound /\ writer.snapshots = <<>>
    BY <1>4 DEF FeedInv, Phased, Bound
  <2>2. Named = Ids(wire)
    BY <2>1 DEF Named
  <2>3. sent \in Nat /\ slots.quote \in Nat /\ slots.quote <= sent
    BY DEF FeedInv, Typed
  <2>4. ~(slots.quote >= writer.next)
    BY <1>4, <2>3
  <2>5. Passed(slots.quote) \/ slots.quote \in Named
    BY <1>4, <2>1, <2>4 DEF FeedInv, Quoted
  <2> QED BY <1>1, <1>4, <2>2, <2>5 DEF Passed
<1> QED BY <1>2, <1>3, <1>4 DEF NothingMissed

\* Every hole is declared with its count, its running total and the instants of
\* the frames around it before the next frame crosses, whatever the ring has
\* overwritten in between (tape.rs, ws.rs).
THEOREM HolesAreStated == Spec => []HolesStated
<1>1. FeedInv => HolesStated
  BY InvHoles
<1> QED BY <1>1, Invariant, PTL

\* Every frame the writer is past was written, withheld, declared lost or is
\* outside the window, and a socket that read everything knows the quote, also
\* one that subscribed between the publisher's two slots (tape.rs, ws.rs).
THEOREM NothingIsMissed == Spec => []NothingMissed
<1>1. FeedInv => NothingMissed
  BY InvMissed
<1> QED BY <1>1, Invariant, PTL

------------------------------------------------------------------------------
(* The end of the run.                                                     *)

\* The stop is sent after the plan is on record, and the trigger's select
\* takes the stop branch only when it was sent.
Ordered ==
    /\ deadline \in {"flagged", "stopped"} => planned
    /\ stop => deadline = "stopped"
    /\ trigger = "stop" => stop

\* Behind the serve future there is no request left and none begins.
Closed == serve # "serving" => (trigger # "none" /\ NoHttp)

\* A planned end is done only when the last token was dropped.
Drained ==
    (serve = "done" /\ trigger = "stop") =>
        \A s \in Sockets : phase[s] \notin Aboard

ZeroIsDone == exit = "zero" => serve = "done"

\* A socket that has an ending to announce leaves by its writer, and a writer
\* that is done has lost its peer, delivered a close or the ending, or had none
\* of the two to deliver.
Flushed ==
    \A s \in Sockets :
        /\ decided[s] # "none" => phase[s] \in {"telling", "closing", "gone"}
        /\ sink[s] = "ending" => (phase[s] \in {"closing", "gone"} /\ decided[s] # "none")
        /\ sink[s] = "close" => displaced[s]
        /\ sink[s] = "done" =>
             \/ peer[s] = "left"
             \/ heard[s] = "displaced" /\ displaced[s]
             \/ phase[s] \in {"closing", "gone"} /\ decided[s] = "none"
             \/ phase[s] \in {"closing", "gone"} /\ heard[s] = decided[s]
        /\ (phase[s] = "gone" /\ decided[s] # "none" /\ peer[s] = "reading")
              => sink[s] = "done"

EndInv == EndTypeOK /\ Ordered /\ Closed /\ Drained /\ ZeroIsDone /\ Flushed

-----------------------------------------------------------------------------

LEMMA EndInvInit == EndInit => EndInv
<1> SUFFICES ASSUME EndInit PROVE EndInv
  OBVIOUS
<1>1. EndTypeOK
  BY DEF EndInit, EndTypeOK, Endings, Aboard
<1>2. Ordered /\ Closed /\ Drained /\ ZeroIsDone /\ Flushed
  BY DEF EndInit, Ordered, Closed, Drained, ZeroIsDone, Flushed
<1> QED BY <1>1, <1>2 DEF EndInv

\* What calls for the end never touches a socket.
LEMMA CallsKeep == EndInv /\ Calls => EndInv'
<1> SUFFICES ASSUME EndInv, Calls PROVE EndInv'
  OBVIOUS
<1> USE DEF EndInv, EndTypeOK, Aboard, Endings, serveVars, sockVars, laneVars, faultVars, runVars
<1>1. UNCHANGED <<trigger, serve, exit, sockVars>>
  BY DEF Calls, DeadlineCompletes, DeadlineFlags, DeadlineStops, Breach,
         Signal, SourceFaults, Relay, AskFault, AnswerFault
<1>2. EndTypeOK'
  <2>1. published' \in BOOLEAN /\ planned' \in BOOLEAN /\ stop' \in BOOLEAN
    BY DEF Calls, DeadlineCompletes, DeadlineFlags, DeadlineStops, Breach,
           Signal, SourceFaults, Relay, AskFault, AnswerFault
  <2>2. signal' \in BOOLEAN /\ forwarded' \in BOOLEAN /\ faults' \in BOOLEAN
    BY DEF Calls, DeadlineCompletes, DeadlineFlags, DeadlineStops, Breach,
           Signal, SourceFaults, Relay, AskFault, AnswerFault
  <2>3. /\ deadline' \in {"asleep", "completed", "flagged", "stopped"}
        /\ relay' \in {"listening", "ended"}
        /\ post' \in [Posts -> {"none", "asked", "exiting", "already"}]
    BY DEF Calls, DeadlineCompletes, DeadlineFlags, DeadlineStops, Breach,
           Signal, SourceFaults, Relay, AskFault, AnswerFault
  <2> QED BY <1>1, <2>1, <2>2, <2>3
<1>3. Ordered'
  BY <1>1 DEF Ordered, Calls, DeadlineCompletes, DeadlineFlags, DeadlineStops,
         Breach, Signal, SourceFaults, Relay, AskFault, AnswerFault
<1>4. Closed'
  <2>1. ASSUME NEW p \in Posts, AskFault(p) PROVE Closed'
    BY <2>1, <1>1 DEF Closed, AskFault
  <2>2. ASSUME NEW p \in Posts, AnswerFault(p), NoHttp PROVE NoHttp'
    BY <2>2, <1>1 DEF NoHttp, AnswerFault
  <2>3. CASE ~ \E p \in Posts : AskFault(p) \/ AnswerFault(p)
    <3>1. UNCHANGED post
      BY <2>3 DEF Calls, DeadlineCompletes, DeadlineFlags, DeadlineStops, Breach,
             Signal, SourceFaults, Relay
    <3> QED BY <1>1, <3>1 DEF Closed, NoHttp
  <2> QED BY <1>1, <2>1, <2>2, <2>3 DEF Closed
<1>5. Drained' /\ ZeroIsDone' /\ Flushed'
  BY <1>1 DEF Drained, ZeroIsDone, Flushed
<1> QED BY <1>2, <1>3, <1>4, <1>5

\* The process' own steps.
LEMMA ServingKeeps == EndInv /\ Serving => EndInv'
<1> SUFFICES ASSUME EndInv, Serving PROVE EndInv'
  OBVIOUS
<1> USE DEF EndInv, EndTypeOK, Aboard, Endings, sockVars, laneVars, faultVars, runVars
<1>1. CASE Trigger
  BY <1>1 DEF Trigger, Ordered, Closed, Drained, ZeroIsDone, Flushed, NoHttp
<1>2. CASE ServeEnds
  <2>1. trigger = "stop" => planned
    BY DEF Ordered
  <2> QED
    BY <1>2, <2>1 DEF ServeEnds, Running, Ordered, Closed, Drained, ZeroIsDone,
        Flushed, NoHttp
<1>3. CASE PassengersDrained
  BY <1>3 DEF PassengersDrained, Ordered, Closed, Drained, ZeroIsDone, Flushed, NoHttp
<1>4. CASE Exit \/ GraceEnds
  BY <1>4 DEF Exit, GraceEnds, Ordered, Closed, Drained, ZeroIsDone, Flushed, NoHttp
<1> QED BY <1>1, <1>2, <1>3, <1>4 DEF Serving

\* A socket moves only itself, and towards no state the drain has excluded.
LEMMA UpgradingKeeps == ASSUME NEW s \in Sockets
                        PROVE  EndInv /\ Upgrading(s) => EndInv'
<1> SUFFICES ASSUME EndInv, Upgrading(s) PROVE EndInv'
  OBVIOUS
<1> USE DEF EndInv, Upgrading, Ask, TurnedAway, Seat, Admit, HangUp, OrphanDropped,
            Goes, serveVars, faultVars, runVars, laneVars
<1>1. EndTypeOK'
  BY DEF EndTypeOK, Aboard
<1>2. Ordered' /\ ZeroIsDone'
  BY DEF Ordered, ZeroIsDone
<1>3. Closed'
  BY DEF Closed, NoHttp, OnHttp, EndTypeOK
<1>4. Drained'
  BY DEF Drained, Closed, NoHttp, OnHttp, Aboard, EndTypeOK
<1>5. Flushed'
  BY DEF Flushed, EndTypeOK, Aboard, OnHttp
<1> QED BY <1>1, <1>2, <1>3, <1>4, <1>5

LEMMA RidingKeeps == ASSUME NEW s \in Sockets
                     PROVE  EndInv /\ Riding(s) => EndInv'
<1> SUFFICES ASSUME EndInv, Riding(s) PROVE EndInv'
  OBVIOUS
<1> USE DEF EndInv, Riding, Board, HearsEnd, TimesOut, NoticesClose,
            SeesPeerLeft, Tell, Disembark, CloseGraceEnds, Decides, Goes,
            serveVars, faultVars, runVars, laneVars
<1>1. EndTypeOK'
  BY DEF EndTypeOK, Aboard, Endings
<1>2. Ordered' /\ ZeroIsDone'
  BY DEF Ordered, ZeroIsDone
<1>3. Closed'
  BY DEF Closed, NoHttp, OnHttp, EndTypeOK
<1>4. Drained'
  BY DEF Drained, Aboard, EndTypeOK
<1>5. Flushed'
  <2> USE DEF EndTypeOK, Flushed
  <2>1. CASE Board(s)
    BY <2>1
  <2>2. CASE HearsEnd(s) \/ TimesOut(s)
    BY <2>2
  <2>3. CASE NoticesClose(s) \/ SeesPeerLeft(s)
    BY <2>3
  <2>4. CASE Tell(s)
    BY <2>4
  <2>5. CASE Disembark(s)
    <3>1. phase' = [phase EXCEPT ![s] = "gone"] /\ phase[s] = "closing" /\ sink[s] = "done"
      BY <2>5
    <3>2. UNCHANGED <<peer, displaced, sink, decided, heard>>
      BY <2>5
    <3> HIDE DEF Riding, Disembark
    <3> QED BY <3>1, <3>2
  <2>6. CASE CloseGraceEnds(s)
    <3>1. phase' = [phase EXCEPT ![s] = "gone"] /\ phase[s] = "closing" /\ peer[s] = "stalled"
      BY <2>6
    <3>2. UNCHANGED <<peer, displaced, sink, decided, heard>>
      BY <2>6
    <3>3. phase'[s] = "gone" /\ \A t \in Sockets : t # s => phase'[t] = phase[t]
      BY <3>1
    <3> HIDE DEF Riding, CloseGraceEnds
    <3> SUFFICES ASSUME NEW t \in Sockets
                 PROVE
        /\ decided[t] # "none" => phase'[t] \in {"telling", "closing", "gone"}
        /\ sink[t] = "ending" => (phase'[t] \in {"closing", "gone"} /\ decided[t] # "none")
        /\ sink[t] = "close" => displaced[t]
        /\ sink[t] = "done" =>
             \/ peer[t] = "left"
             \/ heard[t] = "displaced" /\ displaced[t]
             \/ phase'[t] \in {"closing", "gone"} /\ decided[t] = "none"
             \/ phase'[t] \in {"closing", "gone"} /\ heard[t] = decided[t]
        /\ (phase'[t] = "gone" /\ decided[t] # "none" /\ peer[t] = "reading")
              => sink[t] = "done"
      BY <3>2
    <3>4. CASE t = s
      BY <3>1, <3>3, <3>4
    <3>5. CASE t # s
      BY <3>3, <3>5
    <3> QED BY <3>4, <3>5
  <2> QED BY <2>1, <2>2, <2>3, <2>4, <2>5, <2>6
<1> QED BY <1>1, <1>2, <1>3, <1>4, <1>5

\* The writer and the admissions that displace a connection leave every phase.
LEMMA WritingKeeps == ASSUME NEW s \in Sockets
                      PROVE  EndInv /\ (Writing(s) \/ Displace(s)) => EndInv'
<1> SUFFICES ASSUME EndInv, Writing(s) \/ Displace(s) PROVE EndInv'
  OBVIOUS
<1> USE DEF EndInv, WriterTurns, Connected, laneVars, serveVars, faultVars, runVars
<1>1. UNCHANGED <<phase, peer, full, decided, runVars, faultVars, serveVars>>
  BY DEF Writing, WriterTakes, WriterWrites, WriterStops, Displace
<1>2. Ordered' /\ ZeroIsDone' /\ Drained' /\ Closed'
  BY <1>1 DEF Ordered, ZeroIsDone, Drained, Closed, NoHttp
<1>3. CASE Displace(s)
  <2>1. UNCHANGED <<sink, heard>> /\ displaced' = [displaced EXCEPT ![s] = TRUE]
    BY <1>3 DEF Displace
  <2>2. EndTypeOK' /\ Flushed'
    BY <1>1, <2>1 DEF EndTypeOK, Flushed
  <2> QED BY <1>2, <2>2
<1>4. CASE WriterTakes(s)
  <2>1. UNCHANGED <<displaced, heard>> /\ sink[s] = "frames"
    BY <1>4 DEF WriterTakes
  <2>2. \/ displaced[s] /\ sink' = [sink EXCEPT ![s] = "close"]
        \/ /\ phase[s] = "closing" /\ decided[s] # "none"
           /\ sink' = [sink EXCEPT ![s] = "ending"]
    BY <1>4 DEF WriterTakes
  <2>3. EndTypeOK' /\ Flushed'
    BY <1>1, <2>1, <2>2 DEF EndTypeOK, Flushed
  <2> QED BY <1>2, <2>3
<1>5. CASE WriterStops(s)
  <2>1. /\ UNCHANGED <<displaced, heard>> /\ sink' = [sink EXCEPT ![s] = "done"]
        /\ peer[s] = "left" \/ (phase[s] = "closing" /\ decided[s] = "none")
    BY <1>5 DEF WriterStops
  <2>2. EndTypeOK' /\ Flushed'
    BY <1>1, <2>1 DEF EndTypeOK, Flushed
  <2> QED BY <1>2, <2>2
<1>6. CASE WriterWrites(s)
  <2> DEFINE word == IF peer[s] = "left" THEN heard[s]
                     ELSE IF sink[s] = "close" THEN "displaced" ELSE decided[s]
  <2>1. /\ UNCHANGED displaced /\ sink' = [sink EXCEPT ![s] = "done"]
        /\ heard' = [heard EXCEPT ![s] = word]
        /\ sink[s] \in {"ending", "close"} /\ peer[s] # "stalled"
    BY <1>6 DEF WriterWrites
  <2>2. word \in Endings \cup {"displaced"}
    BY DEF EndTypeOK
  <2>3. \/ peer[s] = "left"
        \/ word = "displaced" /\ displaced[s]
        \/ phase[s] \in {"closing", "gone"} /\ word = decided[s]
    BY <2>1 DEF EndTypeOK, Flushed
  <2> HIDE DEF word
  <2>4. EndTypeOK'
    BY <1>1, <2>1, <2>2 DEF EndTypeOK
  <2>5. heard'[s] = word /\ sink'[s] = "done"
    BY <2>1 DEF EndTypeOK
  <2>6. \A t \in Sockets : t # s => heard'[t] = heard[t] /\ sink'[t] = sink[t]
    BY <2>1 DEF EndTypeOK
  <2>7. Flushed'
    BY <1>1, <2>1, <2>3, <2>5, <2>6 DEF Flushed
  <2> QED BY <1>2, <2>4, <2>7
<1> QED BY <1>3, <1>4, <1>5, <1>6 DEF Writing

LEMMA ConsumerKeeps == ASSUME NEW s \in Sockets
                       PROVE  EndInv /\ Consumer(s) => EndInv'
<1> SUFFICES ASSUME EndInv, Consumer(s) PROVE EndInv'
  OBVIOUS
<1> USE DEF EndInv, EndTypeOK, Aboard, Endings, Consumer, PeerTurns, Fills,
    Connected, serveVars, faultVars, runVars, laneVars
<1>1. EndTypeOK'
  <2>1. CASE Fills(s)
    BY <2>1
  <2>2. ASSUME NEW to \in {"reading", "stalled", "left"}, PeerTurns(s, to)
        PROVE  EndTypeOK'
    <3>1. peer' \in [Sockets -> {"reading", "stalled", "left"}]
      BY <2>2
    <3>2. \A t \in Sockets : (full[t] /\ to # "reading") \in BOOLEAN
      OBVIOUS
    <3>3. full' \in [Sockets -> BOOLEAN]
      BY <2>2, <3>2, Zenon
    <3> QED BY <2>2, <3>1, <3>3
  <2> QED BY <2>1, <2>2
<1>2. Ordered' /\ ZeroIsDone' /\ Drained'
  BY DEF Ordered, ZeroIsDone, Drained
<1>3. Closed'
  BY DEF Closed, NoHttp
<1>4. Flushed'
  BY DEF Flushed
<1> QED BY <1>1, <1>2, <1>3, <1>4

LEMMA EndInvStep == EndInv /\ [EndNext]_endVars => EndInv'
<1> SUFFICES ASSUME EndInv, [EndNext]_endVars PROVE EndInv'
  OBVIOUS
<1>1. CASE UNCHANGED endVars
  BY <1>1 DEF endVars, runVars, faultVars, serveVars, sockVars, laneVars, EndInv, EndTypeOK,
              Ordered, Closed, NoHttp, Drained, ZeroIsDone, Flushed
<1>2. CASE EndNext
  BY <1>2, CallsKeep, ServingKeeps, UpgradingKeeps, RidingKeeps,
      WritingKeeps, ConsumerKeeps DEF EndNext
<1> QED BY <1>1, <1>2

LEMMA EndInvHolds == EndSpec => []EndInv
BY EndInvInit, EndInvStep, PTL DEF EndSpec

\* A run that stopped at its deadline and exits zero has told every passenger
\* that still reads, of its ending or, where that came first, of its
\* displacement, whatever else asked for the end (serve.rs, run.rs, ws.rs).
THEOREM CleanExitIsTold == EndSpec => []ToldBeforeCleanExit
<1>1. EndInv => ToldBeforeCleanExit
  BY DEF EndInv, EndTypeOK, Aboard, Drained, ZeroIsDone, Flushed, ToldBeforeCleanExit
<1> QED BY <1>1, EndInvHolds, PTL

==============================================================================
