---------------------------- MODULE Upgrade_proofs ----------------------------
(***************************************************************************)
(* Proofs about a socket's life on the venue (module Upgrade), for any     *)
(* number of sockets, accounts, boat keys and ledgers.  First about the    *)
(* connection registry alone (module Registry), under any order of calls:  *)
(* the lease of an account is exact, and no two ledgers share an           *)
(* incarnation.  Then that every step of a socket uses the registry as the *)
(* registry allows, an admission keeps what it reserved, the boats kept    *)
(* are the boats ridden, and the ledger a socket is served is the one its  *)
(* checks were made of.                                                    *)
(***************************************************************************)
EXTENDS Upgrade, FiniteSetTheorems, TLAPS

(* The registry.                                                           *)

\* The part of the lease that does not read the freeze stamp.  Finiteness is
\* what lets the stored count be compared with a cardinality at all, and a
\* connection with two records would not be gone when one of them is.
Counted(e) ==
  /\ e \in Entry
  /\ IsFiniteSet(e.connections)
  /\ \A c, d \in e.connections : c.id = d.id => c = d
  /\ e.handoffs = Cardinality(Handoffs(e))

Leased(e) == /\ Counted(e)
             /\ IF e.open THEN e.frozen <=> e.connections = {} ELSE e.connections = {}

LeaseInv ==
  /\ minted \in Nat
  /\ entries \in [Account -> Entry]
  /\ \A a \in Account : Leased(entries[a])
------------------------------------------------------------------------------
(* The operations on one account's record.                                 *)

\* The handoffs of a counted record are finitely many.
LEMMA HandoffsFinite ==
  ASSUME NEW e \in Entry, IsFiniteSet(e.connections)
  PROVE  IsFiniteSet(Handoffs(e)) /\ Cardinality(Handoffs(e)) \in Nat
<1>1. Handoffs(e) \subseteq e.connections
  BY DEF Handoffs
<1> QED
  BY <1>1, FS_Subset, FS_CardinalityType

\* A record nobody opened is leased to nobody.
LEMMA NoEntryLeased == Leased(NoEntry)
<1>1. Handoffs(NoEntry) = {}
  BY DEF Handoffs, NoEntry
<1>2. NoEntry \in Entry
  BY DEF NoEntry, Entry
<1> QED
  BY <1>1, <1>2, FS_EmptySet DEF Leased, Counted, NoEntry

\* Settling the stamp of a counted record makes the whole lease exact.
LEMMA SettledLeased ==
  ASSUME NEW e, Counted(e), e.open
  PROVE  Leased(SettleAttendance(e))
<1> DEFINE s == SettleAttendance(e)
<1>1. /\ s \in Entry
      /\ s.connections = e.connections /\ s.handoffs = e.handoffs /\ s.open = e.open
      /\ s.frozen = ~Attended(e)
  BY DEF SettleAttendance, Counted, Entry, Attended
<1>2. Handoffs(s) = Handoffs(e)
  BY <1>1 DEF Handoffs
<1>3. Counted(s)
  BY <1>1, <1>2 DEF Counted
<1>4. IsFiniteSet(Handoffs(e)) /\ Cardinality(Handoffs(e)) \in Nat
  BY HandoffsFinite DEF Counted
<1>5. e.handoffs > 0 <=> Handoffs(e) # {}
  BY <1>4, FS_EmptySet DEF Counted
<1>6. e.connections = Readers(e) \cup Handoffs(e)
  BY DEF Counted, Entry, Record, Phases, Readers, Handoffs
<1>7. ~Attended(e) <=> e.connections = {}
  BY <1>5, <1>6 DEF Attended
<1> QED
  BY <1>1, <1>3, <1>7 DEF Leased

\* Opening an entry that is not there leaves it leased to nobody.
LEMMA OpenedLeased ==
  ASSUME LeaseInv, NEW a \in Account
  PROVE  Leased(Opened(a)) /\ Opened(a).open /\ MintedFor(a) \in Nat
<1>1. CASE entries[a].open
  BY <1>1 DEF LeaseInv, Opened, MintedFor
<1>2. CASE ~entries[a].open
  <2> DEFINE e == Opened(a)
  <2>1. e = [open |-> TRUE, incarnation |-> minted + 1, connections |-> {},
             pending |-> NoConn, handoffs |-> 0, frozen |-> TRUE]
    BY <1>2 DEF Opened, NoEntry
  <2>3. /\ e \in Entry /\ e.open /\ e.frozen /\ e.connections = {} /\ e.handoffs = 0
    BY <2>1 DEF Entry, LeaseInv
  <2>2. Handoffs(e) = {}
    BY <2>3 DEF Handoffs
  <2> HIDE DEF e
  <2> QED
    BY <1>2, <2>3, <2>2, FS_EmptySet DEF e, Leased, Counted, MintedFor, LeaseInv
<1> QED
  BY <1>1, <1>2

\* A connection that starts to read gives back the handoff it held, once.
LEMMA ReadingCounted ==
  ASSUME NEW e, Counted(e), NEW c \in e.connections
  PROVE  Counted(ReadingNow(e, c))
<1>1. CASE c.phase = "reading"
  BY <1>1 DEF ReadingNow
<1>2. CASE c.phase # "reading"
  <2> DEFINE n == ReadingNow(e, c)
             r == [c EXCEPT !.phase = "reading"]
  <2>1. c \in Handoffs(e) /\ c \in Record
    BY <1>2 DEF Handoffs, Counted, Entry, Record, Phases
  <2>2. IsFiniteSet(Handoffs(e)) /\ Cardinality(Handoffs(e)) \in Nat \ {0}
    BY <2>1, HandoffsFinite, FS_EmptySet DEF Counted
  <2>3. r \in Record /\ r.phase = "reading"
    BY <2>1 DEF Record, Phases
  <2>8. e.handoffs \in Nat \ {0}
    BY <2>2 DEF Counted
  <2> DEFINE cs == (e.connections \ {c}) \cup {r}
             hs == e.handoffs - 1
  <2>9. n = [e EXCEPT !.connections = cs, !.handoffs = hs]
    BY <1>2, <2>8 DEF ReadingNow
  <2>10. e \in Entry /\ cs \in SUBSET Record /\ hs \in Nat
    BY <2>3, <2>8 DEF Counted, Entry
  <2> HIDE DEF r, n, cs, hs
  <2>4. n \in Entry /\ n.connections = cs /\ n.handoffs = hs
    BY <2>9, <2>10 DEF Entry
  <2> USE DEF cs, hs
  <2>5. Handoffs(n) = Handoffs(e) \ {c}
    BY <2>3, <2>4 DEF Handoffs, r
  <2>6. Cardinality(Handoffs(n)) = Cardinality(Handoffs(e)) - 1
    BY <2>1, <2>2, <2>5, FS_RemoveElement
  <2>11. IsFiniteSet(e.connections \ {c})
    BY FS_RemoveElement DEF Counted
  <2>7. IsFiniteSet(n.connections)
    BY <2>4, <2>11, FS_AddElement
  <2>12. \A x, y \in n.connections : x.id = y.id => x = y
    BY <2>1, <2>4 DEF Counted, r, Record
  <2> QED
    BY <2>4, <2>6, <2>7, <2>2, <2>12 DEF n, Counted
<1> QED
  BY <1>1, <1>2

\* A connection that goes gives back a handoff only if it still held one.
LEMMA WithoutCounted ==
  ASSUME NEW e, Counted(e), NEW c \in e.connections
  PROVE  Counted(Without(e, c))
<1> DEFINE n == Without(e, c)
<1>1. IsFiniteSet(Handoffs(e)) /\ Cardinality(Handoffs(e)) \in Nat
  BY HandoffsFinite DEF Counted
<1>2. c \in Handoffs(e) <=> c.phase = "committed"
  BY DEF Handoffs
<1>3. c \in Handoffs(e) => Cardinality(Handoffs(e)) > 0
  BY <1>1, FS_EmptySet
<1> DEFINE hs == IF c \in Handoffs(e) THEN e.handoffs - 1 ELSE e.handoffs
           cs == e.connections \ {c}
<1>4. n = [e EXCEPT !.connections = cs, !.handoffs = hs]
  BY <1>1, <1>2, <1>3 DEF Without, Counted
<1>5. e \in Entry /\ cs \in SUBSET Record /\ hs \in Nat
  BY <1>1, <1>3 DEF Counted, Entry
<1>10. IsFiniteSet(cs)
  BY FS_RemoveElement DEF Counted
<1>11. Cardinality(Handoffs(e) \ {c}) = hs
  BY <1>1, FS_RemoveElement DEF Counted
<1> HIDE DEF hs, n, cs
<1>6. n \in Entry /\ n.connections = cs /\ n.handoffs = hs
  BY <1>4, <1>5 DEF Entry
<1>7. Handoffs(n) = Handoffs(e) \ {c}
  BY <1>6 DEF Handoffs, cs
<1>12. \A x, y \in n.connections : x.id = y.id => x = y
  BY <1>6 DEF Counted, cs
<1> QED
  BY <1>6, <1>7, <1>10, <1>11, <1>12 DEF n, Counted

\* A commit surrenders the handoffs of those it displaces and takes one of its
\* own, which is new because the connection was not registered.
LEMMA InstalledCounted ==
  ASSUME NEW e, Counted(e), NEW u \in Conn, NEW key \in Key,
         NEW callsign \in Callsign \cup {NoCallsign}, NEW evicts \in BOOLEAN,
         \A c \in e.connections : c.id # u
  PROVE  Counted(Installed(e, u, callsign, key, evicts))
<1> DEFINE n == Installed(e, u, callsign, key, evicts)
           gone == Evicted(e, callsign, evicts)
           new == [id |-> u, callsign |-> callsign, ride |-> key, phase |-> "committed"]
           left == Handoffs(e) \ gone
<1>1. new \in Record /\ new.phase = "committed" /\ new \notin e.connections
  BY DEF Record, Phases
<1>2. IsFiniteSet(Handoffs(e)) /\ Cardinality(Handoffs(e)) \in Nat
  BY HandoffsFinite DEF Counted
<1>3. gone \subseteq e.connections
  BY DEF Evicted
<1>4. /\ Cardinality(Handoffs(e) \cap gone) \in Nat
      /\ Cardinality(left) = Cardinality(Handoffs(e)) - Cardinality(Handoffs(e) \cap gone)
      /\ Cardinality(left) \in Nat
      /\ IsFiniteSet(left)
  <2>1. IsFiniteSet(Handoffs(e) \cap gone)
    BY <1>2, FS_Subset, Handoffs(e) \cap gone \subseteq Handoffs(e)
  <2>2. IsFiniteSet(left)
    BY <1>2, FS_Subset, left \subseteq Handoffs(e)
  <2>3. Cardinality(left) = Cardinality(Handoffs(e)) - Cardinality(Handoffs(e) \cap gone)
    BY <1>2, FS_Difference
  <2> QED
    BY <2>1, <2>2, <2>3, FS_CardinalityType
<1>5. /\ n.connections = (e.connections \ gone) \cup {new}
      /\ n.handoffs = Cardinality(left) + 1
      /\ n \in Entry
  <2> DEFINE cs == (e.connections \ gone) \cup {new}
             both == Cardinality(Handoffs(e) \cap gone)
             hs == (IF e.handoffs < both THEN 0 ELSE e.handoffs - both) + 1
  <2>1. gone \cap Handoffs(e) = Handoffs(e) \cap gone
    OBVIOUS
  <2>2. n = [e EXCEPT !.pending = NoConn, !.connections = cs, !.handoffs = hs]
    BY <2>1 DEF Installed
  <2>3. /\ both \in Nat /\ e.handoffs \in Nat
        /\ Cardinality(left) = e.handoffs - both /\ Cardinality(left) \in Nat
    BY <1>2, <1>4 DEF Counted
  <2>4. hs = Cardinality(left) + 1
    <3> HIDE DEF left, both
    <3> QED
      BY <2>3
  <2>5. e \in Entry /\ cs \in SUBSET Record
    BY <1>1 DEF Counted, Entry
  <2>6. hs \in Nat
    BY <2>3, <2>4
  <2> HIDE DEF cs, n, hs
  <2>7. n \in Entry /\ n.connections = cs /\ n.handoffs = hs
    BY <2>2, <2>5, <2>6 DEF Entry
  <2> QED
    BY <2>4, <2>7 DEF cs
<1>6. Handoffs(n) = left \cup {new}
  BY <1>1, <1>5 DEF Handoffs
<1>7. Cardinality(Handoffs(n)) = Cardinality(left) + 1
  <2>1. new \notin left
    BY <1>1 DEF Handoffs
  <2> HIDE DEF left, new
  <2> QED
    BY <1>4, <1>6, <2>1, FS_AddElement
<1>8. IsFiniteSet(n.connections)
  <2>1. IsFiniteSet(e.connections \ gone)
    BY FS_Subset, e.connections \ gone \subseteq e.connections DEF Counted
  <2> HIDE DEF gone, new
  <2> QED
    BY <1>5, <2>1, FS_AddElement
<1>9. \A x, y \in n.connections : x.id = y.id => x = y
  BY <1>5 DEF Counted
<1> QED
  BY <1>5, <1>7, <1>8, <1>9 DEF n, Counted
------------------------------------------------------------------------------
(* What each operation does to the account it is called for.               *)

\* No other account's record changes.
Elsewhere(a) == \A b \in Account : b # a => entries'[b] = entries[b]

\* The entry stays the same ledger's, held by the same admission.
SameClaim(a) ==
  /\ entries'[a].open = entries[a].open
  /\ entries'[a].incarnation = entries[a].incarnation
  /\ entries'[a].pending = entries[a].pending

\* Nobody is registered who was not, nor under another ride.
NobodyNew(a) ==
  \A c \in entries'[a].connections :
    \E d \in entries[a].connections : d.id = c.id /\ d.ride = c.ride

\* Replacing one account's record by a leased one keeps the invariant.
LEMMA EntryReplaced ==
  ASSUME LeaseInv, NEW a \in Account, NEW e, Leased(e), minted' \in Nat,
         entries' = [entries EXCEPT ![a] = e]
  PROVE  LeaseInv' /\ entries'[a] = e /\ Elsewhere(a)
BY DEF LeaseInv, Leased, Counted, Elsewhere

\* Opening an account's entry touches nothing of one that is open.
LEMMA EnsureStep ==
  ASSUME LeaseInv, NEW a \in Account, Ensure(a)
  PROVE  /\ LeaseInv' /\ Elsewhere(a) /\ NobodyNew(a)
         /\ entries'[a] = Opened(a) /\ entries'[a].open
         /\ entries[a].open => entries' = entries /\ minted' = minted
         /\ ~entries[a].open => /\ entries'[a].incarnation = minted + 1
                               /\ entries'[a].pending = NoConn
                               /\ minted' = minted + 1
<1>1. Leased(Opened(a)) /\ Opened(a).open /\ MintedFor(a) \in Nat
  BY OpenedLeased
<1>2. LeaseInv' /\ entries'[a] = Opened(a) /\ Elsewhere(a)
  BY <1>1, EntryReplaced DEF Ensure
<1>3. ASSUME entries[a].open
      PROVE  entries' = entries /\ minted' = minted /\ NobodyNew(a)
  BY <1>3 DEF Ensure, Opened, MintedFor, LeaseInv, NobodyNew, Registered
<1>4. ASSUME ~entries[a].open
      PROVE  /\ Opened(a).incarnation = minted + 1 /\ Opened(a).pending = NoConn
             /\ minted' = minted + 1 /\ Opened(a).connections = {}
  BY <1>4 DEF Ensure, Opened, MintedFor, NoEntry
<1>5. NobodyNew(a)
  BY <1>2, <1>3, <1>4 DEF NobodyNew, Registered
<1> QED
  BY <1>1, <1>2, <1>3, <1>4, <1>5

\* A reservation is taken of a free account whose ledger has not moved, and
\* nothing else about it changes.
LEMMA ReserveStep ==
  ASSUME LeaseInv, NEW a \in Account, NEW u \in Conn, NEW key \in Key,
         NEW resetting \in BOOLEAN, NEW observed \in Nat,
         Reserve(a, u, key, resetting, observed)
  PROVE  /\ LeaseInv' /\ Elsewhere(a) /\ NobodyNew(a)
         /\ entries'[a].open
         /\ entries[a].open => entries'[a].incarnation = entries[a].incarnation /\ minted' = minted
         /\ ~entries[a].open => entries'[a].incarnation = minted + 1 /\ minted' = minted + 1
         /\ ReserveAnswer(Opened(a), key, resetting, observed) = "reserved" =>
              /\ entries[a].open => entries[a].pending = NoConn
              /\ entries'[a].pending = u /\ entries'[a].incarnation = observed
         /\ ReserveAnswer(Opened(a), key, resetting, observed) # "reserved" =>
              entries'[a].pending = Opened(a).pending
<1> DEFINE o == Opened(a)
           taken == ReserveAnswer(o, key, resetting, observed) = "reserved"
           e == IF taken THEN [o EXCEPT !.pending = u] ELSE o
<1>1. Leased(o) /\ o.open /\ MintedFor(a) \in Nat
  BY OpenedLeased
<1>2. /\ entries[a].open => o = entries[a] /\ MintedFor(a) = minted
      /\ ~entries[a].open => /\ o.incarnation = minted + 1 /\ MintedFor(a) = minted + 1
                            /\ o.connections = {}
  BY DEF Opened, MintedFor, NoEntry
<1>3. taken => o.pending = NoConn /\ o.incarnation = observed
  BY DEF ReserveAnswer
<1>4. entries' = [entries EXCEPT ![a] = e] /\ minted' = MintedFor(a)
  BY DEF Reserve
<1> HIDE DEF o, taken
<1>5. /\ Leased(e) /\ e.open /\ e.connections = o.connections
      /\ e.incarnation = o.incarnation
      /\ e.pending = IF taken THEN u ELSE o.pending
  BY <1>1 DEF Leased, Counted, Entry, Handoffs
<1> HIDE DEF e
<1>6. LeaseInv' /\ entries'[a] = e /\ Elsewhere(a)
  BY <1>1, <1>4, <1>5, EntryReplaced
<1>7. NobodyNew(a)
  BY <1>2, <1>5, <1>6 DEF NobodyNew, Registered
<1> QED
  BY <1>2, <1>3, <1>4, <1>5, <1>6, <1>7 DEF o, taken

\* A rollback frees the account only of the admission that rolls back.
LEMMA RollbackStep ==
  ASSUME LeaseInv, NEW a \in Account, NEW u \in Conn, Rollback(a, u)
  PROVE  /\ LeaseInv' /\ Elsewhere(a) /\ NobodyNew(a) /\ minted' = minted
         /\ entries'[a].open = entries[a].open
         /\ entries'[a].incarnation = entries[a].incarnation
         /\ entries[a].open /\ entries[a].pending = u => entries'[a].pending = NoConn
         /\ entries[a].pending # u => entries'[a].pending = entries[a].pending
<1>1. CASE ~entries[a].open
  <2>1. entries' = entries /\ minted' = minted
    BY <1>1 DEF Rollback, LeaseInv
  <2> QED
    BY <1>1, <2>1 DEF LeaseInv, Elsewhere, NobodyNew, Registered
<1>2. CASE entries[a].open
  <2> DEFINE f == [entries[a] EXCEPT !.pending = IF @ = u THEN NoConn ELSE @]
             e == SettleAttendance(f)
  <2>1. Counted(f) /\ f.open
    BY <1>2 DEF LeaseInv, Leased, Counted, Entry, Handoffs
  <2>2. Leased(e)
    BY <2>1, SettledLeased
  <2>3. entries' = [entries EXCEPT ![a] = e] /\ minted' = minted
    BY <1>2 DEF Rollback, RolledBack
  <2>4. /\ e.open = entries[a].open /\ e.incarnation = entries[a].incarnation
        /\ e.pending = (IF entries[a].pending = u THEN NoConn ELSE entries[a].pending)
        /\ e.connections = entries[a].connections
    BY <2>1 DEF SettleAttendance, LeaseInv, Entry, Counted
  <2> HIDE DEF e, f
  <2>5. LeaseInv' /\ entries'[a] = e /\ Elsewhere(a)
    BY <2>2, <2>3, EntryReplaced DEF LeaseInv
  <2> QED
    BY <1>2, <2>3, <2>4, <2>5 DEF NobodyNew, Registered
<1> QED
  BY <1>1, <1>2

\* Starting to read leaves the claim and the registered connections alone.
LEMMA BeginReadingStep ==
  ASSUME LeaseInv, NEW a \in Account, NEW u \in Conn, BeginReading(a, u)
  PROVE  LeaseInv' /\ Elsewhere(a) /\ SameClaim(a) /\ NobodyNew(a) /\ minted' = minted
<1>1. CASE ~Registered(a, u)
  BY <1>1 DEF BeginReading, LeaseInv, Elsewhere, SameClaim, NobodyNew, Registered
<1>2. CASE Registered(a, u)
  <2> DEFINE c == RecordOf(a, u)
             f == ReadingNow(entries[a], c)
             e == SettleAttendance(f)
  <2>1. c \in entries[a].connections /\ c.id = u /\ entries[a].open
    BY <1>2 DEF Registered, RecordOf, LeaseInv, Leased
  <2>2. Counted(entries[a])
    BY DEF LeaseInv, Leased
  <2> HIDE DEF c
  <2>3. Counted(f)
    BY <2>1, <2>2, ReadingCounted
  <2>5. entries' = [entries EXCEPT ![a] = e] /\ minted' = minted
    BY <1>2 DEF BeginReading, c
  <2>6. /\ f.open = entries[a].open /\ f.incarnation = entries[a].incarnation
        /\ f.pending = entries[a].pending
        /\ \A x \in f.connections :
             \E y \in entries[a].connections : x.id = y.id /\ x.ride = y.ride
    BY <2>1, <2>2 DEF ReadingNow, Counted, Entry, Record
  <2>4. Leased(e)
    BY <2>3, <2>6, <2>1, SettledLeased
  <2> HIDE DEF f
  <2>7. /\ e.open = f.open /\ e.incarnation = f.incarnation /\ e.pending = f.pending
        /\ e.connections = f.connections
    BY <2>3 DEF SettleAttendance, Counted, Entry
  <2> HIDE DEF e
  <2>8. LeaseInv' /\ entries'[a] = e /\ Elsewhere(a)
    BY <2>4, <2>5, EntryReplaced DEF LeaseInv
  <2> QED
    BY <2>5, <2>6, <2>7, <2>8 DEF SameClaim, NobodyNew, Registered
<1> QED
  BY <1>1, <1>2

\* A release leaves the claim alone and no record of the connection.
LEMMA ReleaseStep ==
  ASSUME LeaseInv, NEW a \in Account, NEW u \in Conn, Release(a, u)
  PROVE  /\ LeaseInv' /\ Elsewhere(a) /\ SameClaim(a) /\ NobodyNew(a) /\ minted' = minted
         /\ \A c \in entries'[a].connections : c.id # u
<1>1. CASE ~entries[a].open
  BY <1>1 DEF Release, LeaseInv, Leased, Elsewhere, SameClaim, NobodyNew, Registered
<1>2. CASE entries[a].open
  <2> DEFINE c == RecordOf(a, u)
             f == IF Registered(a, u) THEN Without(entries[a], c) ELSE entries[a]
             e == SettleAttendance(f)
  <2>1. Registered(a, u) => c \in entries[a].connections /\ c.id = u
    BY DEF Registered, RecordOf
  <2>2. Counted(entries[a])
    BY DEF LeaseInv, Leased
  <2>5. entries' = [entries EXCEPT ![a] = e] /\ minted' = minted
    BY <1>2 DEF Release
  <2> HIDE DEF c
  <2>3. Counted(f)
    BY <2>1, <2>2, WithoutCounted
  <2>6. /\ f.open = entries[a].open /\ f.incarnation = entries[a].incarnation
        /\ f.pending = entries[a].pending
        /\ f.connections = IF Registered(a, u) THEN entries[a].connections \ {c}
                           ELSE entries[a].connections
    BY <2>2 DEF Without, Counted, Entry
  <2>4. Leased(e)
    BY <1>2, <2>3, <2>6, SettledLeased
  <2>9. \A x \in f.connections : x \in entries[a].connections /\ x.id # u
    BY <2>1, <2>2, <2>6 DEF Counted, Registered
  <2> HIDE DEF f
  <2>7. /\ e.open = f.open /\ e.incarnation = f.incarnation /\ e.pending = f.pending
        /\ e.connections = f.connections
    BY <2>3 DEF SettleAttendance, Counted, Entry
  <2> HIDE DEF e
  <2>8. LeaseInv' /\ entries'[a] = e /\ Elsewhere(a)
    BY <2>4, <2>5, EntryReplaced DEF LeaseInv
  <2> QED
    BY <2>5, <2>6, <2>7, <2>8, <2>9 DEF SameClaim, NobodyNew, Registered
<1> QED
  BY <1>1, <1>2

\* Only a free, unattended account is collected, and nobody is on it then.
LEMMA CollectStep ==
  ASSUME LeaseInv, NEW a \in Account, Collect(a)
  PROVE  /\ LeaseInv' /\ Elsewhere(a) /\ NobodyNew(a) /\ minted' = minted
         /\ entries[a].open /\ entries[a].pending = NoConn
         /\ ~entries'[a].open /\ entries'[a].pending = NoConn
<1>1. LeaseInv' /\ entries'[a] = NoEntry /\ Elsewhere(a)
  BY NoEntryLeased, EntryReplaced DEF Collect, LeaseInv
<1> QED
  BY <1>1 DEF Collect, Collectable, NoEntry, NobodyNew, Registered

\* A commit ends the admission that held the account, registers its connection
\* and nobody else's, and renumbers the ledger only if it resets.
LEMMA InstallStep ==
  ASSUME LeaseInv, NEW a \in Account, NEW u \in Conn, NEW key \in Key,
         NEW callsign \in Callsign \cup {NoCallsign}, NEW evicts \in BOOLEAN,
         NEW resetting \in BOOLEAN, NEW observed \in Nat,
         ~Registered(a, u),
         Install(a, u, callsign, key, resetting, observed, evicts)
  PROVE  /\ LeaseInv' /\ Elsewhere(a)
         /\ entries[a].open /\ entries[a].pending = u
         /\ entries'[a].open /\ entries'[a].pending = NoConn
         /\ minted' = IF resetting THEN minted + 1 ELSE minted
         /\ entries'[a].incarnation = IF resetting THEN minted + 1
                                      ELSE entries[a].incarnation
         /\ \A c \in entries'[a].connections :
              (c.id = u /\ c.ride = key) \/ c \in entries[a].connections
<1> DEFINE i == Installed(entries[a], u, callsign, key, evicts)
           number == IF resetting THEN minted + 1 ELSE entries[a].incarnation
           f == [i EXCEPT !.incarnation = number]
           e == SettleAttendance(f)
<1>1. Counted(entries[a]) /\ minted \in Nat
  BY DEF LeaseInv, Leased
<1>2. Counted(i)
  BY <1>1, InstalledCounted DEF Registered
<1>3. /\ i.open = entries[a].open /\ i.pending = NoConn
      /\ i.incarnation = entries[a].incarnation
      /\ \A x \in i.connections : (x.id = u /\ x.ride = key) \/ x \in entries[a].connections
  BY <1>1 DEF Installed, Counted, Entry
<1>4. /\ entries' = [entries EXCEPT ![a] = e]
      /\ minted' = (IF resetting THEN minted + 1 ELSE minted)
  BY <1>3 DEF Install
<1>5. number \in Nat
  BY <1>1 DEF Counted, Entry
<1> HIDE DEF i, number
<1>6. /\ Counted(f) /\ f.open = i.open /\ f.pending = i.pending
      /\ f.incarnation = number /\ f.connections = i.connections
  BY <1>2, <1>5 DEF Counted, Entry, Handoffs
<1> HIDE DEF f
<1>10. f.open
  BY <1>3, <1>6 DEF Install, Holds
<1>7. /\ Leased(e) /\ e.open = f.open /\ e.pending = f.pending
      /\ e.incarnation = f.incarnation /\ e.connections = f.connections
  BY <1>6, <1>10, SettledLeased DEF SettleAttendance, Counted, Entry
<1> HIDE DEF e
<1>9. Leased(e) /\ minted' \in Nat /\ entries' = [entries EXCEPT ![a] = e]
  BY <1>1, <1>4, <1>7
<1>8. LeaseInv' /\ entries'[a] = e /\ Elsewhere(a)
  BY <1>9, EntryReplaced
<1> QED
  BY <1>3, <1>4, <1>6, <1>7, <1>8 DEF number, Install, Holds, Registered
------------------------------------------------------------------------------
(* The registry alone.                                                     *)

\* No account is on record before anything is called.
LEMMA InitLease == RegistryInit => LeaseInv
BY NoEntryLeased DEF RegistryInit, LeaseInv, Leased, Counted

\* Every call keeps the lease of every account.
LEMMA NextLease == LeaseInv /\ [RegistryNext]_registryVars => LeaseInv'
<1> SUFFICES ASSUME LeaseInv, [RegistryNext]_registryVars
             PROVE  LeaseInv'
  OBVIOUS
<1>1. CASE UNCHANGED registryVars
  BY <1>1 DEF LeaseInv, registryVars
<1>2. CASE RegistryNext
  <2>1. ASSUME NEW a \in Account, Ensure(a)
        PROVE  LeaseInv'
    BY <2>1, EnsureStep
  <2>2. ASSUME NEW a \in Account, Collect(a)
        PROVE  LeaseInv'
    BY <2>2, CollectStep
  <2>3. ASSUME NEW a \in Account, NEW u \in Conn,
               Rollback(a, u) \/ BeginReading(a, u) \/ Release(a, u)
        PROVE  LeaseInv'
    BY <2>3, RollbackStep, BeginReadingStep, ReleaseStep
  <2>4. ASSUME NEW a \in Account, NEW u \in Conn, NEW key \in Key,
               NEW resetting \in BOOLEAN, NEW observed \in Nat,
               Reserve(a, u, key, resetting, observed)
        PROVE  LeaseInv'
    BY <2>4, ReserveStep
  <2>5. ASSUME NEW a \in Account, NEW u \in Conn, NEW key \in Key,
               NEW resetting \in BOOLEAN, NEW observed \in Nat,
               NEW callsign \in Callsign \cup {NoCallsign}, NEW evicts \in BOOLEAN,
               ~\E b \in Account : Registered(b, u),
               Install(a, u, callsign, key, resetting, observed, evicts)
        PROVE  LeaseInv'
    BY <2>5, InstallStep
  <2> QED
    BY <1>2, <2>1, <2>2, <2>3, <2>4, <2>5 DEF RegistryNext
<1> QED
  BY <1>1, <1>2

\* Registry.rs called in any order keeps every account's lease exact.
THEOREM RegistryLeaseExact == RegistrySpec => []LeaseExact
<1>1. LeaseInv => LeaseExact
  BY DEF LeaseInv, Leased, Counted, LeaseExact
<1> QED
  BY <1>1, InitLease, NextLease, PTL DEF RegistrySpec

\* An account that kept its number, was closed, or was given the next one
\* keeps the numbers of the open accounts apart.
LEMMA FreshStep ==
  ASSUME LeaseInv, LeaseInv', IncarnationsFresh, NEW a \in Account, Elsewhere(a),
         \/ ~entries'[a].open /\ minted' = minted
         \/ /\ entries[a].open /\ minted' = minted
            /\ entries'[a].incarnation = entries[a].incarnation
         \/ entries'[a].incarnation = minted + 1 /\ minted' = minted + 1
  PROVE  IncarnationsFresh'
<1> SUFFICES ASSUME NEW b \in Account, NEW c \in Account, entries'[b].open
             PROVE  /\ entries'[b].incarnation \in 1..minted'
                    /\ entries'[c].open /\ entries'[b].incarnation = entries'[c].incarnation
                         => b = c
  BY DEF IncarnationsFresh
<1>1. minted \in Nat /\ entries'[b].incarnation \in Nat
  BY DEF LeaseInv, Entry
<1> QED
  BY <1>1 DEF IncarnationsFresh, Elsewhere

\* Every call keeps the incarnations of the open accounts fresh.
LEMMA NextFresh ==
  LeaseInv /\ IncarnationsFresh /\ [RegistryNext]_registryVars => IncarnationsFresh'
<1> SUFFICES ASSUME LeaseInv, IncarnationsFresh, [RegistryNext]_registryVars
             PROVE  IncarnationsFresh'
  OBVIOUS
<1>1. CASE UNCHANGED registryVars
  BY <1>1 DEF IncarnationsFresh, registryVars
<1>2. CASE RegistryNext
  <2>1. ASSUME NEW a \in Account, Ensure(a)
        PROVE  IncarnationsFresh'
    BY <2>1, EnsureStep, FreshStep
  <2>2. ASSUME NEW a \in Account, Collect(a)
        PROVE  IncarnationsFresh'
    BY <2>2, CollectStep, FreshStep
  <2>3. ASSUME NEW a \in Account, NEW u \in Conn,
               Rollback(a, u) \/ BeginReading(a, u) \/ Release(a, u)
        PROVE  IncarnationsFresh'
    <3>1. /\ LeaseInv' /\ Elsewhere(a) /\ minted' = minted
          /\ entries'[a].open = entries[a].open
          /\ entries'[a].incarnation = entries[a].incarnation
      BY <2>3, RollbackStep, BeginReadingStep, ReleaseStep DEF SameClaim
    <3> QED
      BY <3>1, FreshStep
  <2>4. ASSUME NEW a \in Account, NEW u \in Conn, NEW key \in Key,
               NEW resetting \in BOOLEAN, NEW observed \in Nat,
               Reserve(a, u, key, resetting, observed)
        PROVE  IncarnationsFresh'
    BY <2>4, ReserveStep, FreshStep
  <2>5. ASSUME NEW a \in Account, NEW u \in Conn, NEW key \in Key,
               NEW resetting \in BOOLEAN, NEW observed \in Nat,
               NEW callsign \in Callsign \cup {NoCallsign}, NEW evicts \in BOOLEAN,
               ~\E b \in Account : Registered(b, u),
               Install(a, u, callsign, key, resetting, observed, evicts)
        PROVE  IncarnationsFresh'
    BY <2>5, InstallStep, FreshStep
  <2> QED
    BY <1>2, <2>1, <2>2, <2>3, <2>4, <2>5 DEF RegistryNext
<1> QED
  BY <1>1, <1>2

\* An entry born again after a collection never passes for its predecessor,
\* which is what commit's comparison of incarnations rests on.
THEOREM IncarnationsAlwaysFresh == RegistrySpec => []IncarnationsFresh
<1>1. RegistryInit => IncarnationsFresh
  BY DEF RegistryInit, IncarnationsFresh, NoEntry
<1> QED
  BY <1>1, InitLease, NextLease, NextFresh, PTL DEF RegistrySpec
------------------------------------------------------------------------------
(* A socket upgrade over the registry.                                     *)

Typed ==
  /\ BoatyardTypeOK
  /\ resets \in BOOLEAN
  /\ ledgers \in [Account -> Nat]
  /\ opened \in Nat
  /\ upgrades \in [Conn -> Upgrading]
  /\ closing \subseteq Conn
  /\ announcing \subseteq Conn
  /\ expired \subseteq Account

\* The steps in which a connection may be on record.
Booked == {"installing", "crossing", "serving"}

\* Only a connection between its commit and its release is on record, on the
\* account and under the ride its socket asked for.
Riders ==
  \A a \in Account : \A c \in entries[a].connections :
    /\ a = AccountOf(c.id) /\ c.ride = KeyOf(c.id)
    /\ upgrades[c.id].step \in Booked

\* An account is held by one admission under way, and each admission that
\* reserved holds its account.
Holders ==
  /\ \A u \in Conn : upgrades[u].step \in Reserved =>
                       Holds(AccountOf(u), u, upgrades[u].observed)
  /\ \A a \in Account : entries[a].pending # NoConn =>
       /\ upgrades[entries[a].pending].step \in Reserved
       /\ AccountOf(entries[a].pending) = a

IInv == Typed /\ LeaseInv /\ Riders /\ Holders
------------------------------------------------------------------------------
(* How a step moves the upgrade it is a step of.                           *)

Others(u) == \A v \in Conn : v # u => upgrades'[v] = upgrades[v]

\* The upgrade goes on, or ends and forgets what it asked for.
Goes(u, from, to) ==
  /\ upgrades' \in [Conn -> Upgrading] /\ Others(u)
  /\ upgrades[u].step = from /\ upgrades'[u].step = to
  /\ upgrades'[u].asks = upgrades[u].asks
  /\ upgrades'[u].observed = upgrades[u].observed

Quits(u, from, to) ==
  /\ upgrades' \in [Conn -> Upgrading] /\ Others(u)
  /\ upgrades[u].step = from /\ upgrades'[u].step = to

\* An upgrade that has not begun is a typed one.
LEMMA NotBegunTyped == NotBegun \in Upgrading /\ NotBegun.step = "idle"
<1>1. (CHOOSE r \in Requests : TRUE) \in Request
  BY UpgradeAssumption
<1> QED
  BY <1>1 DEF NotBegun, Upgrading, Steps, NoLedger

\* Moving to a step changes nothing else.
LEMMA MovesGoes ==
  ASSUME Typed, NEW u \in Conn, NEW from, NEW to \in Steps, At(u, from), Moves(u, to)
  PROVE  Goes(u, from, to) /\ upgrades'[u].resetting = upgrades[u].resetting
BY DEF Typed, At, Moves, Goes, Others, Upgrading

\* An upgrade that ends forgets everything.
LEMMA EndsQuits ==
  ASSUME Typed, NEW u \in Conn, NEW from, NEW to \in Steps, At(u, from), Ends(u, to)
  PROVE  Quits(u, from, to)
<1>1. [NotBegun EXCEPT !.step = to] \in Upgrading /\ [NotBegun EXCEPT !.step = to].step = to
  BY NotBegunTyped DEF Upgrading
<1> HIDE DEF NotBegun
<1> QED
  BY <1>1 DEF Typed, At, Ends, Quits, Others

\* What a socket asks for is one account and one key.
LEMMA AsksTyped ==
  ASSUME Typed, NEW u \in Conn
  PROVE  /\ AccountOf(u) \in Account /\ KeyOf(u) \in Key
         /\ upgrades[u].asks.callsign \in Callsign \cup {NoCallsign}
         /\ upgrades[u].asks.named \in BOOLEAN
         /\ upgrades[u].resetting \in BOOLEAN
         /\ upgrades[u].observed \in Nat
BY DEF Typed, AccountOf, KeyOf, Upgrading, Request
------------------------------------------------------------------------------
(* How each step of an upgrade moves it, and what it does to the registry  *)
(* and the yard besides.                                                   *)

\* Where the tail of an admission starts.
InTail == {"discarding", "obtaining"}

\* Deciding leads to checking.
LEMMA DecideShape ==
  ASSUME Typed, NEW u \in Conn, Decide(u)
  PROVE  Goes(u, "deciding", "checking")
<1> DEFINE fresh == LET r == upgrades[u].asks
                    IN  /\ r.named /\ resets
                        /\ ~(r.callsign # NoCallsign /\ HasCallsign(r.account, r.callsign))
           n == [upgrades[u] EXCEPT !.step = "checking", !.resetting = fresh]
<1>1. fresh \in BOOLEAN
  BY DEF HasCallsign
<1>2. upgrades' = [upgrades EXCEPT ![u] = n]
  BY DEF Decide
<1> HIDE DEF fresh
<1>3. /\ n \in Upgrading /\ n.step = "checking"
      /\ n.asks = upgrades[u].asks /\ n.observed = upgrades[u].observed
  BY <1>1 DEF Typed, Upgrading, Steps, Admitting
<1> HIDE DEF n
<1> QED
  BY <1>2, <1>3 DEF Decide, At, Goes, Others, Typed

\* A check passes, or the upgrade ends.
LEMMA CheckShape ==
  ASSUME Typed, NEW u \in Conn, Check(u)
  PROVE  Goes(u, "checking", "reserving") \/ Quits(u, "checking", "refused")
<1>1. CASE Ends(u, "refused")
  BY <1>1, EndsQuits DEF Check, Steps
<1>2. CASE ~Ends(u, "refused")
  <2> DEFINE old == IF upgrades[u].resetting THEN NoLedger ELSE ledgers[AccountOf(u)]
             n == [upgrades[u] EXCEPT !.step = "reserving", !.checked = old]
  <2>1. old \in Nat
    BY AsksTyped DEF Typed, NoLedger
  <2>2. upgrades' = [upgrades EXCEPT ![u] = n]
    BY <1>2 DEF Check
  <2> HIDE DEF old
  <2>3. /\ n \in Upgrading /\ n.step = "reserving"
        /\ n.asks = upgrades[u].asks /\ n.observed = upgrades[u].observed
    BY <2>1 DEF Typed, Upgrading, Steps, Admitting
  <2> HIDE DEF n
  <2> QED
    BY <2>2, <2>3 DEF Check, At, Goes, Others, Typed
<1> QED
  BY <1>1, <1>2

\* Boarding joins a boat, starts to place one, waits, or gives up.
LEMMA BoardShape ==
  ASSUME Typed, NEW u \in Conn, Board(u)
  PROVE  LET k == KeyOf(u) IN
         \/ /\ Join(u, k) /\ UNCHANGED registryVars
            /\ \E s \in InTail : Goes(u, "boarding", s)
         \/ StartPlacing(u, k) /\ UNCHANGED registryVars /\ Goes(u, "boarding", "placing")
         \/ UNCHANGED <<registryVars, boatyardVars>> /\ Goes(u, "boarding", "joining")
         \/ Refuse(u) /\ UNCHANGED boatyardVars /\ Quits(u, "boarding", "refused")
<1>1. CASE Join(u, KeyOf(u)) /\ Moves(u, Tail(u)) /\ UNCHANGED registryVars
  <2>1. Tail(u) \in InTail /\ Tail(u) \in Steps
    BY DEF Tail, InTail, Steps, Admitting, Reserved
  <2> QED
    BY <1>1, <2>1, MovesGoes DEF Board
<1>2. CASE StartPlacing(u, KeyOf(u)) /\ Moves(u, "placing") /\ UNCHANGED registryVars
  BY <1>2, MovesGoes DEF Board, Steps, Admitting, Reserved
<1>3. CASE /\ upgrades' = [upgrades EXCEPT ![u].step = "joining",
                                           ![u].awaits = slots[KeyOf(u)].placer]
           /\ UNCHANGED <<registryVars, boatyardVars>>
  <2> DEFINE boat == slots[KeyOf(u)].placer
             n == [upgrades[u] EXCEPT !.step = "joining", !.awaits = boat]
  <2>1. boat \in Conn \cup {NoConn}
    BY AsksTyped DEF Typed, BoatyardTypeOK, Slot
  <2>2. upgrades' = [upgrades EXCEPT ![u] = n]
    BY <1>3
  <2> HIDE DEF boat
  <2>3. /\ n \in Upgrading /\ n.step = "joining"
        /\ n.asks = upgrades[u].asks /\ n.observed = upgrades[u].observed
    BY <2>1 DEF Typed, Upgrading, Steps, Admitting, Reserved
  <2> HIDE DEF n
  <2>4. Goes(u, "boarding", "joining")
    BY <2>2, <2>3 DEF Board, At, Goes, Others, Typed
  <2> QED
    BY <1>3, <2>4
<1>4. CASE Refuse(u) /\ UNCHANGED boatyardVars
  BY <1>4, EndsQuits DEF Board, Refuse, Steps
<1> QED
  BY <1>1, <1>2, <1>3, <1>4 DEF Board

\* Who waited boards again.
LEMMA WakeShape ==
  ASSUME Typed, NEW u \in Conn, Wake(u)
  PROVE  Goes(u, "joining", "boarding")
<1> DEFINE n == [upgrades[u] EXCEPT !.step = "boarding", !.awaits = NoConn]
<1>1. upgrades' = [upgrades EXCEPT ![u] = n]
  BY DEF Wake
<1>2. /\ n \in Upgrading /\ n.step = "boarding"
      /\ n.asks = upgrades[u].asks /\ n.observed = upgrades[u].observed
  BY DEF Typed, Upgrading, Steps, Admitting, Reserved
<1> HIDE DEF n
<1> QED
  BY <1>1, <1>2 DEF Wake, At, Goes, Others, Typed

\* A placement launches its boat with the placer aboard, or gives up.
LEMMA PlacedShape ==
  ASSUME Typed, NEW u \in Conn, Placed(u)
  PROVE  LET k == KeyOf(u) IN
         \/ /\ Launch(u, k) /\ UNCHANGED registryVars
            /\ \E s \in InTail : Goes(u, "placing", s)
         \/ PlacementFailed(u, k) /\ Refuse(u) /\ Quits(u, "placing", "refused")
<1>1. CASE Launch(u, KeyOf(u)) /\ Moves(u, Tail(u)) /\ UNCHANGED registryVars
  <2>1. Tail(u) \in InTail /\ Tail(u) \in Steps
    BY DEF Tail, InTail, Steps, Admitting, Reserved
  <2> QED
    BY <1>1, <2>1, MovesGoes DEF Placed
<1>2. CASE PlacementFailed(u, KeyOf(u)) /\ Refuse(u)
  BY <1>2, EndsQuits DEF Placed, Refuse, Steps
<1> QED
  BY <1>1, <1>2 DEF Placed

\* Whatever ledger the tail obtains, it goes on to the commit.
LEMMA ObtainShape ==
  ASSUME Typed, NEW u \in Conn, Obtain(u)
  PROVE  Goes(u, "obtaining", "committing") /\ ledgers' \in [Account -> Nat] /\ opened' \in Nat
<1> DEFINE a == AccountOf(u)
           n == [upgrades[u] EXCEPT !.step = "committing", !.served = ledgers'[a]]
<1>1. a \in Account
  BY AsksTyped
<1>2. ledgers' \in [Account -> Nat] /\ opened' \in Nat
  BY <1>1 DEF Obtain, Opening, Typed
<1>3. upgrades' = [upgrades EXCEPT ![u] = n]
  BY DEF Obtain
<1>4. /\ n \in Upgrading /\ n.step = "committing"
      /\ n.asks = upgrades[u].asks /\ n.observed = upgrades[u].observed
  <2>1. ledgers'[a] \in Nat /\ upgrades[u] \in Upgrading
    BY <1>1, <1>2 DEF Typed
  <2> QED
    BY <2>1 DEF Upgrading, Steps, Admitting, Reserved
<1> HIDE DEF n
<1> QED
  BY <1>2, <1>3, <1>4 DEF Goes, Others, Typed, At, Obtain

\* A client that goes ends its upgrade, leaves its tail running, or is released.
LEMMA ClientGoneShape ==
  ASSUME Typed, NEW u \in Conn, ClientGone(u)
  PROVE  \/ UNCHANGED registryVars /\ Quits(u, "checking", "refused")
         \/ \E s \in {"joining", "placing"} : Refuse(u) /\ Quits(u, s, "refused")
         \/ \E s \in {"discarding", "obtaining", "committing", "installing"} :
              UNCHANGED registryVars /\ Goes(u, s, s)
         \/ Release(AccountOf(u), u) /\ Moves(u, "leaving") /\ Goes(u, "crossing", "leaving")
<1>1. CASE At(u, "checking") /\ Ends(u, "refused") /\ UNCHANGED registryVars
  BY <1>1, EndsQuits DEF Steps
<1>2. CASE upgrades[u].step \in {"joining", "placing"} /\ Refuse(u)
  BY <1>2, EndsQuits DEF Steps, Refuse, At
<1>3. CASE /\ upgrades[u].step \in {"discarding", "obtaining", "committing", "installing"}
           /\ upgrades' = [upgrades EXCEPT ![u].abandoned = TRUE]
           /\ UNCHANGED registryVars
  <2>1. Goes(u, upgrades[u].step, upgrades[u].step)
    BY <1>3 DEF Goes, Others, Typed, Upgrading
  <2> QED
    BY <1>3, <2>1
<1>4. CASE At(u, "crossing") /\ Release(AccountOf(u), u) /\ Moves(u, "leaving")
  BY <1>4, MovesGoes DEF Steps
<1> QED
  BY <1>1, <1>2, <1>3, <1>4 DEF ClientGone

\* The steps that only move the upgrade on or end it.
LEMMA PlainShapes ==
  ASSUME Typed, NEW u \in Conn
  PROVE  /\ TakeReservation(u) => \/ Goes(u, "reserving", "boarding")
                                 \/ Quits(u, "reserving", "refused")
         /\ Discard(u) => Goes(u, "discarding", "obtaining")
         /\ Commit(u) => Goes(u, "committing", "installing")
         /\ HandOver(u) => \E s \in {"leaving", "crossing"} : Goes(u, "installing", s)
         /\ Bind(u) => Goes(u, "crossing", "serving")
         /\ EndServing(u) => Goes(u, "serving", "leaving")
         /\ Leave(u) => Quits(u, "leaving", "left")
<1> USE DEF Steps, Admitting, Reserved
<1>1. ASSUME TakeReservation(u)
      PROVE  Goes(u, "reserving", "boarding") \/ Quits(u, "reserving", "refused")
  BY <1>1, MovesGoes, EndsQuits DEF TakeReservation
<1>2. ASSUME Discard(u) PROVE Goes(u, "discarding", "obtaining")
  BY <1>2, MovesGoes DEF Discard
<1>3. ASSUME Commit(u) PROVE Goes(u, "committing", "installing")
  BY <1>3, MovesGoes DEF Commit
<1>4. ASSUME HandOver(u) PROVE \E s \in {"leaving", "crossing"} : Goes(u, "installing", s)
  BY <1>4, MovesGoes DEF HandOver
<1>5. ASSUME Bind(u) PROVE Goes(u, "crossing", "serving")
  BY <1>5, MovesGoes DEF Bind
<1>6. ASSUME EndServing(u) PROVE Goes(u, "serving", "leaving")
  BY <1>6, MovesGoes DEF EndServing
<1>7. ASSUME Leave(u) PROVE Quits(u, "leaving", "left")
  BY <1>7, EndsQuits DEF Leave
<1> QED
  BY <1>1, <1>2, <1>3, <1>4, <1>5, <1>6, <1>7
------------------------------------------------------------------------------
(* Riders and holders through one upgrade's step.                          *)

\* A step of u that is about account a only, that leaves the claims and the
\* records of everybody else as they are and gets u's own right, keeps both.
LEMMA OneUpgrade ==
  ASSUME IInv, LeaseInv', NEW u \in Conn, NEW a \in Account,
         upgrades' \in [Conn -> Upgrading], Others(u), Elsewhere(a),
         \A c \in entries'[a].connections : c.id # u =>
           \E d \in entries[a].connections : d.id = c.id /\ d.ride = c.ride,
         entries[a].pending \notin {NoConn, u} => SameClaim(a),
         entries'[a].pending \in {NoConn, u, entries[a].pending},
         \A b \in Account : \A c \in entries'[b].connections : c.id = u =>
           /\ b = AccountOf(u)' /\ c.ride = KeyOf(u)'
           /\ upgrades'[u].step \in Booked,
         upgrades'[u].step \in Reserved =>
           Holds(AccountOf(u), u, upgrades[u].observed)',
         \A b \in Account : entries'[b].pending = u =>
           upgrades'[u].step \in Reserved /\ AccountOf(u)' = b
  PROVE  Riders' /\ Holders'
<1>1. Riders'
  <2> SUFFICES ASSUME NEW b \in Account, NEW c \in entries'[b].connections
               PROVE  /\ b = AccountOf(c.id)' /\ c.ride = KeyOf(c.id)'
                      /\ upgrades'[c.id].step \in Booked
    BY DEF Riders, AccountOf, KeyOf
  <2>1. c.id \in Conn
    BY DEF LeaseInv, Entry, Record
  <2>2. CASE c.id = u
    BY <2>2
  <2>3. CASE c.id # u
    <3>1. \E d \in entries[b].connections : d.id = c.id /\ d.ride = c.ride
      BY <2>3 DEF Elsewhere
    <3>2. upgrades'[c.id] = upgrades[c.id]
      BY <2>1, <2>3 DEF Others
    <3> QED
      BY <3>1, <3>2 DEF IInv, Riders, AccountOf, KeyOf
  <2> QED
    BY <2>2, <2>3
<1>2. \A v \in Conn : upgrades'[v].step \in Reserved =>
                        Holds(AccountOf(v), v, upgrades[v].observed)'
  <2> SUFFICES ASSUME NEW v \in Conn, upgrades'[v].step \in Reserved, v # u
               PROVE  Holds(AccountOf(v), v, upgrades[v].observed)'
    OBVIOUS
  <2>1. upgrades'[v] = upgrades[v]
    BY DEF Others
  <2>2. Holds(AccountOf(v), v, upgrades[v].observed) /\ AccountOf(v) \in Account
    BY <2>1, AsksTyped DEF IInv, Holders
  <2>3. v # NoConn
    BY SocketsAssumption
  <2> QED
    BY <2>1, <2>2, <2>3 DEF Holds, Elsewhere, SameClaim, AccountOf
<1>3. \A b \in Account : entries'[b].pending # NoConn =>
        /\ upgrades'[entries'[b].pending].step \in Reserved
        /\ AccountOf(entries[b].pending)' = b
  <2> SUFFICES ASSUME NEW b \in Account, entries'[b].pending # NoConn, entries'[b].pending # u
               PROVE  /\ upgrades'[entries'[b].pending].step \in Reserved
                      /\ AccountOf(entries[b].pending)' = b
    OBVIOUS
  <2>1. entries'[b].pending = entries[b].pending
    BY DEF Elsewhere
  <2>2. entries[b].pending \in Conn
    BY <2>1 DEF IInv, LeaseInv, Entry
  <2>3. upgrades'[entries[b].pending] = upgrades[entries[b].pending]
    BY <2>1, <2>2 DEF Others
  <2> QED
    BY <2>1, <2>3 DEF IInv, Holders, AccountOf
<1> QED
  BY <1>1, <1>2, <1>3 DEF Holders

\* What is to be shown of every step.
Kept == LeaseInv' /\ Riders' /\ Holders' /\ [RegistryNext]_registryVars

\* A step that leaves the registry alone and moves its upgrade between steps
\* that mean the same to the registry.
LEMMA QuietStep ==
  ASSUME IInv, NEW u \in Conn, UNCHANGED registryVars,
         NEW from, NEW to,
         \/ /\ Goes(u, from, to)
            /\ from \in Reserved <=> to \in Reserved
            /\ from \in Booked => to \in Booked
         \/ Quits(u, from, to) /\ {from, to} \cap (Reserved \cup Booked) = {}
  PROVE  Kept
<1>1. entries' = entries /\ minted' = minted
  BY DEF registryVars
<1>2. LeaseInv'
  BY <1>1 DEF IInv, LeaseInv
<1>3. AccountOf(u) \in Account /\ u # NoConn
  BY AsksTyped, SocketsAssumption DEF IInv
<1>4. upgrades' \in [Conn -> Upgrading] /\ Others(u)
  BY DEF Goes, Quits
<1>5. \A b \in Account : \A c \in entries'[b].connections : c.id = u =>
        /\ b = AccountOf(u)' /\ c.ride = KeyOf(u)'
        /\ upgrades'[u].step \in Booked
  BY <1>1 DEF Goes, Quits, IInv, Riders, AccountOf, KeyOf
<1>6. upgrades'[u].step \in Reserved => Holds(AccountOf(u), u, upgrades[u].observed)'
  BY <1>1 DEF Goes, Quits, IInv, Holders, Holds, AccountOf
<1>7. \A b \in Account : entries'[b].pending = u =>
        upgrades'[u].step \in Reserved /\ AccountOf(u)' = b
  BY <1>1, <1>3 DEF Goes, Quits, IInv, Holders, AccountOf
<1>8. Elsewhere(AccountOf(u)) /\ SameClaim(AccountOf(u))
  BY <1>1 DEF Elsewhere, SameClaim
<1> QED
  BY <1>1, <1>2, <1>3, <1>4, <1>5, <1>6, <1>7, <1>8, OneUpgrade DEF Kept, registryVars

\* A dial opens the entry of the account it asks for.
LEMMA DialKept ==
  ASSUME IInv, NEW u \in Conn, NEW r \in Requests, Dial(u, r)
  PROVE  Kept
<1> DEFINE a == r.account
           n == [NotBegun EXCEPT !.step = "deciding", !.asks = r,
                                 !.observed = Opened(a).incarnation]
<1>1. a \in Account /\ r \in Request
  BY UpgradeAssumption DEF Request
<1>2. Ensure(a) /\ At(u, "idle") /\ upgrades' = [upgrades EXCEPT ![u] = n]
  BY DEF Dial
<1>3. /\ LeaseInv' /\ Elsewhere(a) /\ NobodyNew(a)
      /\ entries[a].open => entries' = entries /\ minted' = minted
      /\ ~entries[a].open => entries'[a].pending = NoConn
  BY <1>1, <1>2, EnsureStep DEF IInv
<1>4. n \in Upgrading /\ n.step = "deciding"
  <2>1. Opened(a).incarnation \in Nat
    BY <1>1, OpenedLeased DEF IInv, Leased, Counted, Entry
  <2> HIDE DEF NotBegun
  <2> QED
    BY <1>1, <2>1, NotBegunTyped DEF Upgrading, Steps, Admitting
<1> HIDE DEF n
<1>5. upgrades' \in [Conn -> Upgrading] /\ Others(u) /\ upgrades'[u].step = "deciding"
  BY <1>2, <1>4 DEF IInv, Typed, Others
<1>6. "deciding" \notin Reserved /\ upgrades[u].step \notin Reserved \cup Booked
  BY <1>2 DEF Reserved, Booked, At
<1>7. \A b \in Account : entries'[b].pending # u
  <2>1. \A b \in Account : entries[b].pending # u
    BY <1>6, SocketsAssumption DEF IInv, Holders
  <2> QED
    BY <1>3, <2>1, SocketsAssumption DEF Elsewhere
<1>8. \A b \in Account : \A c \in entries'[b].connections : c.id # u
  <2>1. \A b \in Account : \A c \in entries[b].connections : c.id # u
    BY <1>6 DEF IInv, Riders
  <2> QED
    BY <1>1, <1>3, <2>1 DEF Elsewhere, NobodyNew
<1>9. /\ entries[a].pending \notin {NoConn, u} => SameClaim(a)
      /\ entries'[a].pending \in {NoConn, u, entries[a].pending}
  <2>1. entries[a].pending # NoConn => entries[a].open
    BY <1>1, AsksTyped DEF IInv, Holders, Holds, LeaseInv, Entry
  <2> QED
    BY <1>1, <1>3, <2>1 DEF SameClaim
<1>10. Riders' /\ Holders'
  BY <1>1, <1>3, <1>5, <1>6, <1>7, <1>8, <1>9, OneUpgrade DEF NobodyNew
<1> QED
  BY <1>1, <1>2, <1>3, <1>10 DEF Kept, RegistryNext

\* A reservation is granted or not; granted, it is of a free account under the
\* incarnation the checks were made of.
LEMMA TakeReservationKept ==
  ASSUME IInv, NEW u \in Conn, TakeReservation(u)
  PROVE  Kept
<1> DEFINE a == AccountOf(u)
           r == upgrades[u]
           granted == ReserveAnswer(Opened(a), KeyOf(u), r.resetting, r.observed) = "reserved"
<1>1. /\ a \in Account /\ KeyOf(u) \in Key /\ r.resetting \in BOOLEAN /\ r.observed \in Nat
      /\ u # NoConn
  BY AsksTyped, SocketsAssumption DEF IInv
<1>2. /\ At(u, "reserving") /\ Reserve(a, u, KeyOf(u), r.resetting, r.observed)
      /\ IF granted THEN Moves(u, "boarding") ELSE Ends(u, "refused")
  BY DEF TakeReservation
<1> HIDE DEF granted
<1>3. /\ LeaseInv' /\ Elsewhere(a) /\ NobodyNew(a) /\ entries'[a].open
      /\ entries[a].open => entries'[a].incarnation = entries[a].incarnation
      /\ granted => /\ entries[a].open => entries[a].pending = NoConn
                    /\ entries'[a].pending = u /\ entries'[a].incarnation = r.observed
      /\ ~granted => entries'[a].pending = Opened(a).pending
  BY <1>1, <1>2, ReserveStep DEF IInv, granted
<1>4. upgrades[u].step \notin Reserved \cup Booked
  BY <1>2 DEF Reserved, Booked, At
<1>5. /\ \A b \in Account : entries[b].pending # u
      /\ \A b \in Account : \A c \in entries[b].connections : c.id # u
  BY <1>1, <1>4 DEF IInv, Holders, Riders
<1>6. \A b \in Account : \A c \in entries'[b].connections : c.id # u
  BY <1>1, <1>3, <1>5 DEF Elsewhere, NobodyNew
<1>7. /\ entries[a].pending # NoConn => entries[a].open
      /\ Opened(a).pending \in {NoConn, entries[a].pending}
      /\ entries[a].open => Opened(a) = entries[a]
  <2>1. entries[a].pending # NoConn => entries[a].open
    BY <1>1 DEF IInv, Holders, Holds, LeaseInv, Entry
  <2> QED
    BY <2>1 DEF Opened, NoEntry
<1>8. /\ entries[a].pending \notin {NoConn, u} => SameClaim(a)
      /\ entries'[a].pending \in {NoConn, u, entries[a].pending}
  BY <1>3, <1>7 DEF SameClaim
<1>9. Riders' /\ Holders'
  <2>1. CASE granted
    <3>1. Goes(u, "reserving", "boarding")
      BY <1>2, <2>1, MovesGoes DEF IInv, Steps, Admitting, Reserved
    <3>2. "boarding" \in Reserved
      BY DEF Reserved
    <3>3. Holds(AccountOf(u), u, upgrades[u].observed)'
      BY <1>3, <2>1, <3>1 DEF Holds, AccountOf, Goes
    <3>4. \A b \in Account : entries'[b].pending = u => b = a /\ AccountOf(u)' = b
      BY <1>5, <1>3, <3>1 DEF Elsewhere, AccountOf, Goes
    <3> QED
      BY <1>1, <1>3, <1>6, <1>8, <3>1, <3>2, <3>3, <3>4, OneUpgrade DEF NobodyNew, Goes
  <2>2. CASE ~granted
    <3>1. Quits(u, "reserving", "refused")
      BY <1>2, <2>2, EndsQuits DEF IInv, Steps
    <3>2. "refused" \notin Reserved
      BY DEF Reserved
    <3>3. \A b \in Account : entries'[b].pending # u
      BY <1>1, <1>3, <1>5, <1>7, <2>2 DEF Elsewhere
    <3> QED
      BY <1>1, <1>3, <1>6, <1>8, <3>1, <3>2, <3>3, OneUpgrade DEF NobodyNew, Quits
  <2> QED
    BY <2>1, <2>2
<1>10. RegistryNext
  BY <1>1, <1>2 DEF RegistryNext
<1> QED
  BY <1>3, <1>9, <1>10 DEF Kept

\* An admission that is refused gives its account back.
LEMMA RefuseKept ==
  ASSUME IInv, NEW u \in Conn, NEW from \in Reserved, At(u, from), Refuse(u)
  PROVE  Kept
<1> DEFINE a == AccountOf(u)
<1>1. a \in Account /\ u # NoConn
  BY AsksTyped, SocketsAssumption DEF IInv
<1>2. /\ LeaseInv' /\ Elsewhere(a) /\ NobodyNew(a)
      /\ entries'[a].open = entries[a].open
      /\ entries'[a].incarnation = entries[a].incarnation
      /\ entries[a].open /\ entries[a].pending = u => entries'[a].pending = NoConn
      /\ entries[a].pending # u => entries'[a].pending = entries[a].pending
  BY <1>1, RollbackStep DEF IInv, Refuse
<1>3. entries[a].open /\ entries[a].pending = u
  BY DEF IInv, Holders, Holds, At
<1>4. Quits(u, from, "refused")
  BY EndsQuits DEF IInv, Refuse, Steps
<1>5. "refused" \notin Reserved /\ upgrades[u].step \notin Booked
  BY DEF Reserved, Booked, At
<1>6. \A b \in Account : entries'[b].pending # u
  BY <1>1, <1>2, <1>3 DEF Elsewhere, IInv, Holders
<1>7. \A b \in Account : \A c \in entries'[b].connections : c.id # u
  <2>1. \A b \in Account : \A c \in entries[b].connections : c.id # u
    BY <1>5 DEF IInv, Riders
  <2> QED
    BY <1>1, <1>2, <2>1 DEF Elsewhere, NobodyNew
<1>8. Riders' /\ Holders'
  BY <1>1, <1>2, <1>3, <1>4, <1>5, <1>6, <1>7, OneUpgrade DEF NobodyNew, Quits
<1> QED
  BY <1>1, <1>2, <1>8 DEF Kept, RegistryNext, Refuse

\* A connection that goes is off the record.
LEMMA ReleaseKept ==
  ASSUME IInv, NEW u \in Conn, NEW from \in Booked, At(u, from),
         Release(AccountOf(u), u), Moves(u, "leaving")
  PROVE  Kept
<1> DEFINE a == AccountOf(u)
<1>1. a \in Account /\ u # NoConn
  BY AsksTyped, SocketsAssumption DEF IInv
<1>2. /\ LeaseInv' /\ Elsewhere(a) /\ SameClaim(a) /\ NobodyNew(a)
      /\ \A c \in entries'[a].connections : c.id # u
  BY <1>1, ReleaseStep DEF IInv
<1>3. Goes(u, from, "leaving")
  BY MovesGoes DEF IInv, Steps
<1>4. "leaving" \notin Reserved /\ upgrades[u].step \notin Reserved
  BY DEF Reserved, Booked, At
<1>5. \A b \in Account : entries'[b].pending # u
  <2>1. \A b \in Account : entries[b].pending # u
    BY <1>1, <1>4 DEF IInv, Holders
  <2> QED
    BY <1>1, <1>2, <2>1 DEF Elsewhere, SameClaim
<1>6. \A b \in Account : \A c \in entries'[b].connections : c.id # u
  <2>1. \A b \in Account : b # a => \A c \in entries[b].connections : c.id # u
    BY DEF IInv, Riders
  <2> QED
    BY <1>1, <1>2, <2>1 DEF Elsewhere
<1>7. Riders' /\ Holders'
  BY <1>1, <1>2, <1>3, <1>4, <1>5, <1>6, OneUpgrade DEF NobodyNew, Goes, SameClaim
<1> QED
  BY <1>1, <1>2, <1>7 DEF Kept, RegistryNext

\* A connection that starts to read stays on record where it was.
LEMMA BindKept ==
  ASSUME IInv, NEW u \in Conn, Bind(u)
  PROVE  Kept
<1> DEFINE a == AccountOf(u)
<1>1. a \in Account /\ u # NoConn
  BY AsksTyped, SocketsAssumption DEF IInv
<1>8. At(u, "crossing") /\ BeginReading(a, u) /\ Moves(u, "serving")
  BY DEF Bind
<1>2. /\ LeaseInv' /\ Elsewhere(a) /\ SameClaim(a) /\ NobodyNew(a)
  BY <1>1, <1>8, BeginReadingStep DEF IInv
<1>3. Goes(u, "crossing", "serving")
  BY <1>8, MovesGoes DEF IInv, Steps
<1>4. "serving" \notin Reserved /\ "serving" \in Booked /\ upgrades[u].step \notin Reserved
  BY <1>8 DEF Reserved, Booked, At
<1>5. \A b \in Account : entries'[b].pending # u
  <2>1. \A b \in Account : entries[b].pending # u
    BY <1>1, <1>4 DEF IInv, Holders
  <2> QED
    BY <1>1, <1>2, <2>1 DEF Elsewhere, SameClaim
<1>6. \A b \in Account : \A c \in entries'[b].connections : c.id = u =>
        b = AccountOf(u)' /\ c.ride = KeyOf(u)'
  <2>2. AccountOf(u)' = a /\ KeyOf(u)' = KeyOf(u)
    BY <1>3 DEF Goes, AccountOf, KeyOf
  <2>1. \A b \in Account : \A c \in entries[b].connections : c.id = u =>
          b = AccountOf(u)' /\ c.ride = KeyOf(u)'
    BY <2>2 DEF IInv, Riders
  <2> QED
    BY <1>1, <1>2, <2>1 DEF Elsewhere, NobodyNew
<1>7. Riders' /\ Holders'
  BY <1>1, <1>2, <1>3, <1>4, <1>5, <1>6, OneUpgrade DEF NobodyNew, Goes, SameClaim
<1> QED
  BY <1>1, <1>2, <1>7, <1>8 DEF Kept, RegistryNext

\* The tail opens a ledger where there is none; its own account is open.
LEMMA ObtainKept ==
  ASSUME IInv, NEW u \in Conn, Obtain(u)
  PROVE  Kept
<1> DEFINE a == AccountOf(u)
<1>1. a \in Account
  BY AsksTyped DEF IInv
<1>2. At(u, "obtaining") /\ "obtaining" \in Reserved /\ "committing" \in Reserved
      /\ "committing" \in Steps /\ "obtaining" \notin Booked
  BY DEF Obtain, Reserved, Booked, Steps, Admitting
<1>3. UNCHANGED registryVars
  <2>1. entries[a].open
    BY <1>2 DEF IInv, Holders, Holds, At
  <2>2. CASE UNCHANGED <<registryVars, ledgers, opened>>
    BY <2>2
  <2>3. CASE Opening(a)
    BY <1>1, <2>1, <2>3, EnsureStep DEF Opening, IInv, registryVars
  <2> QED
    BY <2>2, <2>3 DEF Obtain
<1>5. Goes(u, "obtaining", "committing")
  BY ObtainShape DEF IInv
<1> QED
  BY <1>2, <1>3, <1>5, QuietStep

\* A commit turns the admission that held the account into its connection.
LEMMA CommitKept ==
  ASSUME IInv, NEW u \in Conn, Commit(u)
  PROVE  Kept
<1> DEFINE a == AccountOf(u)
           r == upgrades[u]
<1>1. /\ a \in Account /\ KeyOf(u) \in Key /\ u # NoConn
      /\ r.asks.callsign \in Callsign \cup {NoCallsign} /\ r.asks.named \in BOOLEAN
      /\ r.resetting \in BOOLEAN /\ r.observed \in Nat
  BY AsksTyped, SocketsAssumption DEF IInv
<1>2. /\ At(u, "committing") /\ Moves(u, "installing")
      /\ Install(a, u, r.asks.callsign, KeyOf(u), r.resetting, r.observed, r.asks.named)
  BY DEF Commit, KeyOf
<1>3. "committing" \in Reserved /\ "installing" \notin Reserved
      /\ "installing" \in Booked /\ "committing" \notin Booked /\ "installing" \in Steps
  BY DEF Reserved, Booked, Steps, Admitting
<1>4. \A b \in Account : \A c \in entries[b].connections : c.id # u
  BY <1>2, <1>3 DEF IInv, Riders, At
<1>5. \A b \in Account : ~Registered(b, u)
  BY <1>4 DEF Registered
<1>6. /\ LeaseInv' /\ Elsewhere(a)
      /\ entries[a].pending = u /\ entries'[a].pending = NoConn
      /\ \A c \in entries'[a].connections :
           (c.id = u /\ c.ride = KeyOf(u)) \/ c \in entries[a].connections
  BY <1>1, <1>2, <1>5, InstallStep DEF IInv
<1>7. Goes(u, "committing", "installing")
  BY <1>2, <1>3, MovesGoes DEF IInv
<1>8. \A b \in Account : entries'[b].pending # u
  BY <1>1, <1>6 DEF Elsewhere, IInv, Holders
<1>9. \A b \in Account : \A c \in entries'[b].connections : c.id = u =>
        b = AccountOf(u)' /\ c.ride = KeyOf(u)'
  <2>1. AccountOf(u)' = a /\ KeyOf(u)' = KeyOf(u)
    BY <1>7 DEF Goes, AccountOf, KeyOf
  <2> QED
    BY <1>1, <1>4, <1>6, <2>1 DEF Elsewhere
<1>10. Riders' /\ Holders'
  BY <1>1, <1>3, <1>6, <1>7, <1>8, <1>9, OneUpgrade DEF Goes
<1>11. RegistryNext
  BY <1>1, <1>2, <1>5 DEF RegistryNext
<1> QED
  BY <1>6, <1>10, <1>11 DEF Kept

\* A collection or an opening of an account is nobody's step.
LEMMA AccountKept ==
  ASSUME IInv, NEW a \in Account, UNCHANGED upgrades,
         Collect(a) \/ Ensure(a)
  PROVE  Kept
<1>1. /\ LeaseInv' /\ Elsewhere(a) /\ NobodyNew(a)
      /\ entries[a].pending # NoConn => SameClaim(a)
      /\ entries[a].pending = NoConn => entries'[a].pending = NoConn
  <2>1. CASE Collect(a)
    BY <2>1, CollectStep DEF IInv
  <2>2. CASE Ensure(a)
    <3>1. entries[a].pending # NoConn => entries[a].open
      BY DEF IInv, Holders, Holds, LeaseInv, Entry
    <3>2. entries[a].open => entries' = entries
      BY <2>2, EnsureStep DEF IInv
    <3>3. ~entries[a].open => entries'[a].pending = NoConn
      BY <2>2, EnsureStep DEF IInv
    <3> QED
      BY <2>2, <3>1, <3>2, <3>3, EnsureStep DEF IInv, SameClaim
  <2> QED
    BY <2>1, <2>2
<1>2. Riders'
  <2>1. \A b \in Account : \A c \in entries'[b].connections :
          \E d \in entries[b].connections : d.id = c.id /\ d.ride = c.ride
    BY <1>1 DEF Elsewhere, NobodyNew
  <2> QED
    BY <2>1 DEF IInv, Riders, AccountOf, KeyOf
<1>3. \A v \in Conn : upgrades'[v].step \in Reserved =>
                        Holds(AccountOf(v), v, upgrades[v].observed)'
  <2> SUFFICES ASSUME NEW v \in Conn, upgrades[v].step \in Reserved
               PROVE  Holds(AccountOf(v), v, upgrades[v].observed)'
    OBVIOUS
  <2>1. Holds(AccountOf(v), v, upgrades[v].observed) /\ AccountOf(v) \in Account /\ v # NoConn
    BY AsksTyped, SocketsAssumption DEF IInv, Holders
  <2> QED
    BY <1>1, <2>1 DEF Holds, Elsewhere, SameClaim, AccountOf
<1>4. \A b \in Account : entries'[b].pending # NoConn => entries'[b].pending = entries[b].pending
  BY <1>1 DEF Elsewhere, SameClaim
<1>5. \A b \in Account : entries'[b].pending # NoConn =>
        /\ upgrades'[entries'[b].pending].step \in Reserved
        /\ AccountOf(entries[b].pending)' = b
  BY <1>4 DEF IInv, Holders, AccountOf
<1> QED
  BY <1>1, <1>2, <1>3, <1>5 DEF Kept, Holders, RegistryNext
------------------------------------------------------------------------------
(* Every step keeps the invariant of the registry and uses it as allowed.  *)

\* Every step of an upgrade keeps the registry's side of the invariant.
LEMMA UpgradeKept ==
  ASSUME IInv, NEW u \in Conn, VenueStep(u) \/ ClientGone(u) \/ Hangup(u)
  PROVE  Kept
<1> USE DEF Reserved, Booked
<1>1. ASSUME Decide(u) \/ Check(u)
      PROVE  Kept
  BY <1>1, DecideShape, CheckShape, QuietStep DEF Decide, Check, IInv
<1>2. ASSUME Board(u)
      PROVE  Kept
  <2>1. CASE UNCHANGED registryVars
    BY <1>2, <2>1, BoardShape, QuietStep DEF IInv, InTail
  <2>2. CASE Refuse(u)
    BY <1>2, <2>2, RefuseKept DEF Board
  <2> QED
    BY <1>2, <2>1, <2>2 DEF Board
<1>3. ASSUME Wake(u)
      PROVE  Kept
  BY <1>3, WakeShape, QuietStep DEF Wake, IInv
<1>4. ASSUME Placed(u)
      PROVE  Kept
  <2>1. CASE UNCHANGED registryVars
    BY <1>4, <2>1, PlacedShape, QuietStep, RefuseKept DEF IInv, InTail, Placed
  <2>2. CASE Refuse(u)
    BY <1>4, <2>2, RefuseKept DEF Placed
  <2> QED
    BY <1>4, <2>1, <2>2 DEF Placed
<1>5. ASSUME Discard(u) \/ Leave(u)
      PROVE  Kept
  BY <1>5, PlainShapes, QuietStep DEF Discard, Leave, IInv
<1>6. ASSUME HandOver(u)
      PROVE  Kept
  <2>1. CASE upgrades[u].abandoned
    BY <1>6, <2>1, ReleaseKept DEF HandOver
  <2>2. CASE ~upgrades[u].abandoned
    <3>1. UNCHANGED registryVars /\ At(u, "installing") /\ Moves(u, "crossing")
      BY <1>6, <2>2 DEF HandOver
    <3>2. Goes(u, "installing", "crossing")
      BY <3>1, MovesGoes DEF IInv, Steps
    <3> QED
      BY <3>1, <3>2, QuietStep
  <2> QED
    BY <2>1, <2>2
<1>7. ASSUME ClientGone(u)
      PROVE  Kept
  <2>1. CASE UNCHANGED registryVars /\ Quits(u, "checking", "refused")
    BY <2>1, QuietStep
  <2>2. CASE \E s \in {"joining", "placing"} : Refuse(u) /\ Quits(u, s, "refused")
    BY <2>2, RefuseKept DEF Quits, At
  <2>3. CASE \E s \in {"discarding", "obtaining", "committing", "installing"} :
               UNCHANGED registryVars /\ Goes(u, s, s)
    BY <2>3, QuietStep
  <2>4. CASE Release(AccountOf(u), u) /\ Moves(u, "leaving") /\ Goes(u, "crossing", "leaving")
    BY <2>4, ReleaseKept DEF Goes, At
  <2> QED
    BY <1>7, <2>1, <2>2, <2>3, <2>4, ClientGoneShape DEF IInv
<1>8. ASSUME EndServing(u)
      PROVE  Kept
  BY <1>8, ReleaseKept DEF EndServing
<1> HIDE DEF Reserved, Booked
<1> QED
  BY <1>1, <1>2, <1>3, <1>4, <1>5, <1>6, <1>7, <1>8,
     TakeReservationKept, ObtainKept, CommitKept, BindKept
  DEF VenueStep, Closed, Hangup
------------------------------------------------------------------------------
(* The boatyard's side: typing, and who rides what.                        *)

\* A placed boat is named and has passengers.  The number of them is what the
\* last ticket's drop is told by, so it must not run below one.
Crewed ==
  \A k \in Key : slots[k].state = "placed" =>
    slots[k].placer \in Conn /\ slots[k].passengers > 0

\* Boarding and dropping keep the yard typed and its boats crewed.
LEMMA YardTyped ==
  ASSUME BoatyardTypeOK, Crewed, NEW u \in Conn, NEW k \in Key,
         \/ Join(u, k) \/ StartPlacing(u, k) \/ Launch(u, k)
         \/ PlacementFailed(u, k) \/ DropTicket(u, k)
  PROVE  BoatyardTypeOK' /\ Crewed'
<1>1. CASE Join(u, k)
  BY <1>1 DEF Join, BoatyardTypeOK, Crewed, Slot
<1>2. CASE StartPlacing(u, k)
  <2> DEFINE n == [NoSlot EXCEPT !.state = "placing", !.placer = u]
  <2>1. n \in Slot /\ n.state = "placing"
    BY DEF NoSlot, Slot
  <2> HIDE DEF n
  <2>2. slots' = [slots EXCEPT ![k] = n] /\ UNCHANGED <<handed, tickets, afloat>>
    BY <1>2 DEF StartPlacing, n
  <2> QED
    BY <2>1, <2>2 DEF BoatyardTypeOK, Crewed
<1>3. CASE Launch(u, k)
  <2> DEFINE n == [slots[k] EXCEPT !.state = "placed", !.passengers = 1]
  <2>1. n \in Slot /\ n.state = "placed" /\ n.placer = u /\ n.passengers = 1
    BY <1>3 DEF Launch, BoatyardTypeOK, Slot
  <2> HIDE DEF n
  <2>2. /\ slots' = [slots EXCEPT ![k] = n] /\ handed' = handed \cup {u}
        /\ tickets' = [tickets EXCEPT ![u] = u] /\ afloat' = afloat \cup {u}
    BY <1>3 DEF Launch, n
  <2> QED
    BY <2>1, <2>2 DEF BoatyardTypeOK, Crewed
<1>4. CASE PlacementFailed(u, k)
  BY <1>4 DEF PlacementFailed, BoatyardTypeOK, Crewed, Slot
<1>5. CASE DropTicket(u, k)
  <2>1. NoSlot \in Slot /\ NoSlot.state = "empty"
    BY DEF NoSlot, Slot
  <2> DEFINE mine == slots[k].state = "placed" /\ slots[k].placer = tickets[u]
             fewer == [slots[k] EXCEPT !.passengers = @ - 1]
  <2>2. slots[k] \in Slot /\ (mine => slots[k].passengers > 0)
    BY DEF BoatyardTypeOK, Crewed
  <2>3. mine /\ slots[k].passengers # 1 =>
          /\ fewer \in Slot /\ fewer.state = "placed" /\ fewer.passengers > 0
          /\ fewer.placer = slots[k].placer
    BY <2>2 DEF Slot
  <2> HIDE DEF fewer, NoSlot
  <2>4. /\ tickets' = [tickets EXCEPT ![u] = NoConn] /\ handed' = handed
        /\ afloat' \subseteq afloat
    BY <1>5 DEF DropTicket
  <2>5. slots' \in [Key -> Slot] /\ Crewed'
    <3>1. CASE ~mine
      BY <1>5, <3>1 DEF DropTicket, BoatyardTypeOK, Crewed
    <3>2. CASE mine /\ slots[k].passengers = 1
      <4>1. slots' = [slots EXCEPT ![k] = NoSlot]
        BY <1>5, <3>2 DEF DropTicket
      <4> QED
        BY <2>1, <4>1 DEF BoatyardTypeOK, Crewed
    <3>3. CASE mine /\ slots[k].passengers # 1
      <4>1. slots' = [slots EXCEPT ![k] = fewer]
        BY <1>5, <3>3 DEF DropTicket, fewer
      <4> QED
        BY <2>3, <3>3, <4>1 DEF BoatyardTypeOK, Crewed
    <3> QED
      BY <3>1, <3>2, <3>3
  <2> QED
    BY <2>4, <2>5 DEF BoatyardTypeOK
<1> QED
  BY <1>1, <1>2, <1>3, <1>4, <1>5

Aboard == {"discarding", "obtaining", "committing", "installing", "crossing",
           "serving", "leaving"}
Ashore == {"idle", "deciding", "checking", "reserving", "boarding", "joining"}

\* Who is aboard holds a ticket of the boat its key is placed with; who placed
\* or is placing a boat has done with boarding; nobody placed two boats; and
\* a boat's slot counts the tickets that name it.
Voyage ==
  /\ \A u \in Conn : tickets[u] # NoConn <=> upgrades[u].step \in Aboard
  /\ \A u \in Conn : upgrades[u].step \in Aboard =>
       slots[KeyOf(u)].state = "placed" /\ slots[KeyOf(u)].placer = tickets[u]
  /\ \A k \in Key : slots[k].placer # NoConn => upgrades[slots[k].placer].step \notin Ashore
  /\ \A k, l \in Key : slots[k].placer = slots[l].placer /\ slots[k].placer # NoConn => k = l
  /\ \A k \in Key : slots[k].state = "placed" =>
       /\ IsFiniteSet(Passengers(slots[k].placer))
       /\ slots[k].passengers = Cardinality(Passengers(slots[k].placer))
  /\ afloat = {slots[k].placer : k \in {l \in Key : slots[l].state = "placed"}}

YInv == Typed /\ Crewed /\ Voyage

\* A step that leaves the yard alone, neither boards nor leaves, and keeps the
\* key of whoever is aboard.
LEMMA QuietVoyage ==
  ASSUME YInv, NEW u \in Conn, UNCHANGED boatyardVars, NEW from, NEW to,
         \/ Goes(u, from, to) /\ (from \in Aboard <=> to \in Aboard)
         \/ Quits(u, from, to) /\ {from, to} \cap Aboard = {},
         to \in Ashore => from \in Ashore
  PROVE  Voyage'
<1>1. /\ slots' = slots /\ tickets' = tickets /\ afloat' = afloat
  BY DEF boatyardVars
<1>2. /\ upgrades[u].step = from /\ upgrades'[u].step = to
      /\ \A v \in Conn : v # u => upgrades'[v] = upgrades[v]
      /\ from \in Aboard <=> to \in Aboard
      /\ from \in Aboard => upgrades'[u].asks = upgrades[u].asks
  BY DEF Goes, Quits, Others
<1>3. \A v \in Conn : /\ upgrades'[v].step \in Aboard <=> upgrades[v].step \in Aboard
                      /\ upgrades'[v].step \in Ashore => upgrades[v].step \in Ashore
                      /\ upgrades[v].step \in Aboard => KeyOf(v)' = KeyOf(v)
  BY <1>2 DEF KeyOf
<1>4. \A k \in Key : slots[k].placer \in Conn \cup {NoConn}
  BY DEF YInv, Typed, BoatyardTypeOK, Slot
<1>5. \A b : Passengers(b)' = Passengers(b)
  BY <1>1 DEF Passengers
<1>6. \A v \in Conn : upgrades'[v].step \in Aboard =>
        slots'[KeyOf(v)'].state = "placed" /\ slots'[KeyOf(v)'].placer = tickets'[v]
  BY <1>1, <1>3 DEF YInv, Voyage
<1>7. \A k \in Key : slots'[k].placer # NoConn => upgrades'[slots'[k].placer].step \notin Ashore
  BY <1>1, <1>3, <1>4 DEF YInv, Voyage
<1>8. \A k \in Key : slots'[k].state = "placed" =>
       /\ IsFiniteSet(Passengers(slots[k].placer)')
       /\ slots'[k].passengers = Cardinality(Passengers(slots[k].placer)')
  BY <1>1, <1>5 DEF YInv, Voyage
<1> QED
  BY <1>1, <1>3, <1>6, <1>7, <1>8 DEF YInv, Voyage

\* Taking a ticket adds one passenger to its boat and nobody to another's.
LEMMA TicketTaken ==
  ASSUME BoatyardTypeOK, NEW u \in Conn, NEW b \in Conn, tickets[u] = NoConn,
         tickets' = [tickets EXCEPT ![u] = b]
  PROVE  /\ Passengers(b)' = Passengers(b) \cup {u} /\ u \notin Passengers(b)
         /\ \A c \in Conn : c # b => Passengers(c)' = Passengers(c)
<1>1. /\ tickets \in [Conn -> Conn \cup {NoConn}] /\ b # NoConn
      /\ tickets'[u] = b /\ \A v \in Conn : v # u => tickets'[v] = tickets[v]
  BY SocketsAssumption DEF BoatyardTypeOK
<1>2. \A c \in Conn : c # NoConn
  BY SocketsAssumption
<1> QED
  BY <1>1, <1>2 DEF Passengers

\* Dropping a ticket takes one passenger off its boat and nobody off another's.
LEMMA TicketDropped ==
  ASSUME BoatyardTypeOK, NEW u \in Conn, NEW b \in Conn, tickets[u] = b,
         tickets' = [tickets EXCEPT ![u] = NoConn]
  PROVE  /\ Passengers(b)' = Passengers(b) \ {u} /\ u \in Passengers(b)
         /\ \A c \in Conn : c # b => Passengers(c)' = Passengers(c)
<1>1. /\ tickets \in [Conn -> Conn \cup {NoConn}]
      /\ tickets'[u] = NoConn /\ \A v \in Conn : v # u => tickets'[v] = tickets[v]
  BY DEF BoatyardTypeOK
<1>2. \A c \in Conn : c # NoConn
  BY SocketsAssumption
<1> QED
  BY <1>1, <1>2 DEF Passengers

\* A step of u that changes no slot but k's, and no ticket but u's, keeps the
\* rest of the voyage if it gets slot k and u's ticket right.
LEMMA OneBoat ==
  ASSUME YInv, NEW u \in Conn, NEW k \in Key, Others(u),
         \A l \in Key : l # k => slots'[l] = slots[l],
         \A v \in Conn : v # u => tickets'[v] = tickets[v],
         tickets'[u] # NoConn <=> upgrades'[u].step \in Aboard,
         upgrades'[u].step \in Aboard =>
           /\ slots'[KeyOf(u)'].state = "placed"
           /\ slots'[KeyOf(u)'].placer = tickets'[u],
         upgrades'[u].step \in Ashore => upgrades[u].step \in Ashore,
         \A v \in Conn : v # u /\ upgrades[v].step \in Aboard /\ KeyOf(v) = k =>
           slots'[k].state = "placed" /\ slots'[k].placer = slots[k].placer,
         \/ slots'[k].placer \in {slots[k].placer, NoConn}
         \/ /\ slots'[k].placer = u
            /\ upgrades[u].step \in Ashore /\ upgrades'[u].step \notin Ashore,
         slots'[k].state = "placed" =>
           \E b \in Conn : /\ b = slots'[k].placer /\ IsFiniteSet(Passengers(b)')
                          /\ slots'[k].passengers = Cardinality(Passengers(b)'),
         \A b \in Conn : (\E l \in Key : l # k /\ slots[l].placer = b) =>
           Passengers(b)' = Passengers(b)
  PROVE  /\ \A v \in Conn : tickets'[v] # NoConn <=> upgrades'[v].step \in Aboard
         /\ \A v \in Conn : upgrades'[v].step \in Aboard =>
              slots'[KeyOf(v)'].state = "placed" /\ slots'[KeyOf(v)'].placer = tickets'[v]
         /\ \A l \in Key : slots'[l].placer # NoConn =>
              upgrades'[slots'[l].placer].step \notin Ashore
         /\ \A l, m \in Key : slots'[l].placer = slots'[m].placer /\ slots'[l].placer # NoConn
              => l = m
         /\ \A l \in Key : slots'[l].state = "placed" =>
              /\ IsFiniteSet(Passengers(slots[l].placer)')
              /\ slots'[l].passengers = Cardinality(Passengers(slots[l].placer)')
<1>1. /\ \A v \in Conn : v # u => upgrades'[v] = upgrades[v] /\ KeyOf(v)' = KeyOf(v)
      /\ \A l \in Key : slots[l].placer \in Conn \cup {NoConn}
      /\ \A v \in Conn : v # NoConn /\ KeyOf(v) \in Key
  BY AsksTyped, SocketsAssumption DEF Others, KeyOf, YInv, Typed, BoatyardTypeOK, Slot
<1>2. \A v \in Conn : tickets'[v] # NoConn <=> upgrades'[v].step \in Aboard
  BY <1>1 DEF YInv, Voyage
<1>3. \A v \in Conn : upgrades'[v].step \in Aboard =>
        slots'[KeyOf(v)'].state = "placed" /\ slots'[KeyOf(v)'].placer = tickets'[v]
  <2> SUFFICES ASSUME NEW v \in Conn, upgrades'[v].step \in Aboard, v # u
               PROVE  slots'[KeyOf(v)'].state = "placed" /\ slots'[KeyOf(v)'].placer = tickets'[v]
    OBVIOUS
  <2>1. upgrades[v].step \in Aboard /\ KeyOf(v)' = KeyOf(v) /\ tickets'[v] = tickets[v]
    BY <1>1
  <2>2. slots[KeyOf(v)].state = "placed" /\ slots[KeyOf(v)].placer = tickets[v]
    BY <2>1 DEF YInv, Voyage
  <2>3. CASE KeyOf(v) = k
    BY <2>1, <2>2, <2>3
  <2>4. CASE KeyOf(v) # k
    BY <1>1, <2>1, <2>2, <2>4
  <2> QED
    BY <2>3, <2>4
<1>4. \A l \in Key : slots'[l].placer # NoConn => upgrades'[slots'[l].placer].step \notin Ashore
  BY <1>1 DEF YInv, Voyage
<1>5. \A l, m \in Key : slots'[l].placer = slots'[m].placer /\ slots'[l].placer # NoConn => l = m
  BY <1>1 DEF YInv, Voyage
<1>6. \A l \in Key : slots'[l].state = "placed" =>
        /\ IsFiniteSet(Passengers(slots[l].placer)')
        /\ slots'[l].passengers = Cardinality(Passengers(slots[l].placer)')
  <2> SUFFICES ASSUME NEW l \in Key, slots'[l].state = "placed"
               PROVE  /\ IsFiniteSet(Passengers(slots[l].placer)')
                      /\ slots'[l].passengers = Cardinality(Passengers(slots[l].placer)')
    OBVIOUS
  <2>1. \E b \in Conn : /\ b = slots'[l].placer /\ IsFiniteSet(Passengers(b)')
                        /\ slots'[l].passengers = Cardinality(Passengers(b)')
    <3>1. CASE l # k
      <4>1. PICK c \in Conn : c = slots[l].placer /\ slots'[l] = slots[l]
        BY <3>1 DEF YInv, Crewed
      <4>2. IsFiniteSet(Passengers(c)) /\ slots[l].passengers = Cardinality(Passengers(c))
        BY <4>1 DEF YInv, Voyage
      <4> QED
        BY <3>1, <4>1, <4>2
    <3> QED
      BY <3>1
  <2>2. PICK b \in Conn : /\ b = slots'[l].placer /\ IsFiniteSet(Passengers(b)')
                         /\ slots'[l].passengers = Cardinality(Passengers(b)')
    BY <2>1
  <2>3. Passengers(slots[l].placer)' = Passengers(b)'
    BY <2>2 DEF Passengers
  <2> QED
    BY <2>2, <2>3
<1> QED
  BY <1>2, <1>3, <1>4, <1>5, <1>6

\* One more passenger of a placed boat.
LEMMA JoinVoyage ==
  ASSUME YInv, NEW u \in Conn, NEW s \in InTail, NEW k \in Key, k = KeyOf(u),
         Join(u, k), Goes(u, "boarding", s)
  PROVE  Voyage'
<1>1. PICK b \in Conn : b = slots[k].placer /\ b # NoConn
  BY SocketsAssumption DEF YInv, Crewed, Join
<1>2. /\ slots[k].state = "placed" /\ u # NoConn
      /\ tickets[u] = NoConn /\ s \in Aboard /\ s \notin Ashore
  BY SocketsAssumption DEF YInv, Voyage, Join, Goes, Aboard, Ashore, InTail
<1>3. /\ \A l \in Key : l # k => slots'[l] = slots[l]
      /\ slots'[k].state = "placed" /\ slots'[k].placer = b
      /\ slots'[k].passengers = slots[k].passengers + 1
      /\ tickets' = [tickets EXCEPT ![u] = b] /\ afloat' = afloat
  BY <1>1 DEF Join, YInv, Typed, BoatyardTypeOK, Slot
<1>4. /\ \A v \in Conn : v # u => tickets'[v] = tickets[v]
      /\ tickets'[u] = b /\ upgrades'[u].step = s /\ KeyOf(u)' = k /\ Others(u)
  BY <1>3 DEF Goes, KeyOf, YInv, Typed, BoatyardTypeOK
<1>5. /\ Passengers(b)' = Passengers(b) \cup {u} /\ u \notin Passengers(b)
      /\ \A c \in Conn : c # b => Passengers(c)' = Passengers(c)
  BY <1>2, <1>3, TicketTaken DEF YInv, Typed
<1>6. IsFiniteSet(Passengers(b)') /\ slots'[k].passengers = Cardinality(Passengers(b)')
  <2>1. IsFiniteSet(Passengers(b)) /\ slots[k].passengers = Cardinality(Passengers(b))
    BY <1>1, <1>2 DEF YInv, Voyage
  <2> QED
    BY <1>3, <1>5, <2>1, FS_AddElement
<1>7. \A c \in Conn : (\E l \in Key : l # k /\ slots[l].placer = c) =>
        Passengers(c)' = Passengers(c)
  BY <1>1, <1>5 DEF YInv, Voyage
<1>8. afloat' = {slots'[l].placer : l \in {m \in Key : slots'[m].state = "placed"}}
  BY <1>1, <1>2, <1>3 DEF YInv, Voyage
<1>9. upgrades'[u].step \in Aboard /\ upgrades'[u].step \notin Ashore
  BY <1>2, <1>4
<1>10. \A v \in Conn : v # u /\ upgrades[v].step \in Aboard /\ KeyOf(v) = k =>
         slots'[k].state = "placed" /\ slots'[k].placer = slots[k].placer
  BY <1>1, <1>3
<1>11. \E c \in Conn : /\ c = slots'[k].placer /\ IsFiniteSet(Passengers(c)')
                        /\ slots'[k].passengers = Cardinality(Passengers(c)')
  BY <1>3, <1>6
<1>12. /\ \A l \in Key : l # k => slots'[l] = slots[l]
       /\ slots'[KeyOf(u)'].state = "placed" /\ slots'[KeyOf(u)'].placer = tickets'[u]
       /\ slots'[k].placer = slots[k].placer /\ tickets'[u] # NoConn
       /\ Others(u) /\ \A v \in Conn : v # u => tickets'[v] = tickets[v]
  BY <1>1, <1>3, <1>4
<1> QED
  BY <1>7, <1>8, <1>9, <1>10, <1>11, <1>12, OneBoat DEF Voyage

\* A placement under way under an empty key.
LEMMA StartVoyage ==
  ASSUME YInv, NEW u \in Conn, NEW k \in Key,
         StartPlacing(u, k), Goes(u, "boarding", "placing")
  PROVE  Voyage'
<1>1. /\ \A l \in Key : l # k => slots'[l] = slots[l]
      /\ slots[k].state = "empty" /\ slots'[k].state = "placing" /\ slots'[k].placer = u
      /\ tickets' = tickets /\ afloat' = afloat
  BY DEF StartPlacing, NoSlot, YInv, Typed, BoatyardTypeOK
<1>2. /\ upgrades[u].step \in Ashore /\ upgrades'[u].step \notin Ashore
      /\ upgrades[u].step \notin Aboard /\ upgrades'[u].step \notin Aboard /\ Others(u)
  BY DEF Goes, Aboard, Ashore
<1>3. \A b : Passengers(b)' = Passengers(b)
  BY <1>1 DEF Passengers
<1>4. tickets'[u] = NoConn
  BY <1>1, <1>2 DEF YInv, Voyage
<1>5. \A v \in Conn : ~(upgrades[v].step \in Aboard /\ KeyOf(v) = k)
  BY <1>1 DEF YInv, Voyage
<1>6. afloat' = {slots'[l].placer : l \in {m \in Key : slots'[m].state = "placed"}}
  BY <1>1 DEF YInv, Voyage
<1>7. \A v \in Conn : v # u /\ upgrades[v].step \in Aboard /\ KeyOf(v) = k =>
        slots'[k].state = "placed" /\ slots'[k].placer = slots[k].placer
  BY <1>5
<1>8. \A b \in Conn : (\E l \in Key : l # k /\ slots[l].placer = b) =>
        Passengers(b)' = Passengers(b)
  BY <1>3
<1>9. \A v \in Conn : v # u => tickets'[v] = tickets[v]
  BY <1>1
<1>10. slots'[k].state # "placed"
  BY <1>1
<1> QED
  BY <1>1, <1>2, <1>4, <1>6, <1>7, <1>8, <1>9, <1>10, OneBoat DEF Voyage

\* The placement is back with the placer aboard.
LEMMA LaunchVoyage ==
  ASSUME YInv, NEW u \in Conn, NEW s \in InTail, NEW k \in Key, k = KeyOf(u),
         Launch(u, k), Goes(u, "placing", s)
  PROVE  Voyage'
<1>1. /\ \A l \in Key : l # k => slots'[l] = slots[l]
      /\ slots[k].state = "placing" /\ slots[k].placer = u
      /\ slots'[k].state = "placed" /\ slots'[k].placer = u /\ slots'[k].passengers = 1
      /\ tickets' = [tickets EXCEPT ![u] = u] /\ afloat' = afloat \cup {u}
  BY DEF Launch, YInv, Typed, BoatyardTypeOK, Slot
<1>2. /\ upgrades'[u].step \in Aboard /\ upgrades'[u].step \notin Ashore
      /\ upgrades[u].step \notin Aboard /\ Others(u) /\ KeyOf(u)' = k /\ u # NoConn
  BY SocketsAssumption DEF Goes, Aboard, Ashore, InTail, KeyOf
<1>3. tickets[u] = NoConn
  BY <1>2 DEF YInv, Voyage
<1>4. /\ \A v \in Conn : v # u => tickets'[v] = tickets[v]
      /\ tickets'[u] = u
  BY <1>1 DEF YInv, Typed, BoatyardTypeOK
<1>5. /\ Passengers(u)' = Passengers(u) \cup {u}
      /\ \A c \in Conn : c # u => Passengers(c)' = Passengers(c)
  BY <1>1, <1>3, TicketTaken DEF YInv, Typed
<1>6. \A v \in Conn : ~(upgrades[v].step \in Aboard /\ KeyOf(v) = k)
  BY <1>1 DEF YInv, Voyage
<1>7. Passengers(u) = {}
  <2> SUFFICES ASSUME NEW v \in Conn, tickets[v] = u
               PROVE  FALSE
    BY DEF Passengers
  <2>1. upgrades[v].step \in Aboard /\ slots[KeyOf(v)].placer = u /\ KeyOf(v) \in Key
    BY <1>2, AsksTyped DEF YInv, Voyage
  <2>2. KeyOf(v) = k
    BY <1>1, <1>2, <2>1 DEF YInv, Voyage
  <2> QED
    BY <1>6, <2>1, <2>2
<1>8. IsFiniteSet(Passengers(u)') /\ slots'[k].passengers = Cardinality(Passengers(u)')
  <2>1. Passengers(u)' = {u}
    BY <1>5, <1>7
  <2>2. IsFiniteSet({u}) /\ Cardinality({u}) = 1
    BY FS_Singleton
  <2> QED
    BY <1>1, <2>1, <2>2
<1>9. \A c \in Conn : (\E l \in Key : l # k /\ slots[l].placer = c) =>
        Passengers(c)' = Passengers(c)
  BY <1>1, <1>2, <1>5 DEF YInv, Voyage
<1>10. afloat' = {slots'[l].placer : l \in {m \in Key : slots'[m].state = "placed"}}
  BY <1>1 DEF YInv, Voyage
<1>11. \E c \in Conn : /\ c = slots'[k].placer /\ IsFiniteSet(Passengers(c)')
                        /\ slots'[k].passengers = Cardinality(Passengers(c)')
  BY <1>1, <1>8
<1>12. \A v \in Conn : v # u /\ upgrades[v].step \in Aboard /\ KeyOf(v) = k =>
         slots'[k].state = "placed" /\ slots'[k].placer = slots[k].placer
  BY <1>6
<1>13. /\ \A l \in Key : l # k => slots'[l] = slots[l]
       /\ slots'[KeyOf(u)'].state = "placed" /\ slots'[KeyOf(u)'].placer = tickets'[u]
       /\ slots'[k].placer = slots[k].placer /\ tickets'[u] # NoConn
       /\ Others(u) /\ \A v \in Conn : v # u => tickets'[v] = tickets[v]
       /\ upgrades'[u].step \in Aboard /\ upgrades'[u].step \notin Ashore
  BY <1>1, <1>2, <1>4
<1> QED
  BY <1>9, <1>10, <1>11, <1>12, <1>13, OneBoat DEF Voyage

\* A placement that failed leaves a slot nobody rides.
LEMMA FailedVoyage ==
  ASSUME YInv, NEW u \in Conn, NEW k \in Key,
         PlacementFailed(u, k), Quits(u, "placing", "refused")
  PROVE  Voyage'
<1>1. /\ \A l \in Key : l # k => slots'[l] = slots[l]
      /\ slots[k].state = "placing" /\ slots'[k].state = "failed"
      /\ slots'[k].placer = slots[k].placer
      /\ tickets' = tickets /\ afloat' = afloat
  BY DEF PlacementFailed, YInv, Typed, BoatyardTypeOK, Slot
<1>2. /\ upgrades'[u].step \notin Aboard /\ upgrades'[u].step \notin Ashore
      /\ upgrades[u].step \notin Aboard /\ Others(u)
  BY DEF Quits, Aboard, Ashore
<1>3. tickets'[u] = NoConn
  BY <1>1, <1>2 DEF YInv, Voyage
<1>4. \A b : Passengers(b)' = Passengers(b)
  BY <1>1 DEF Passengers
<1>5. \A v \in Conn : ~(upgrades[v].step \in Aboard /\ KeyOf(v) = k)
  BY <1>1 DEF YInv, Voyage
<1>6. afloat' = {slots'[l].placer : l \in {m \in Key : slots'[m].state = "placed"}}
  BY <1>1 DEF YInv, Voyage
<1> QED
  BY <1>1, <1>2, <1>3, <1>4, <1>5, <1>6, OneBoat DEF Voyage

\* A passenger who leaves gives up its place, and the last one its boat.
LEMMA DropVoyage ==
  ASSUME YInv, NEW u \in Conn, NEW k \in Key, k = KeyOf(u),
         DropTicket(u, k), Quits(u, "leaving", "left")
  PROVE  Voyage'
<1>1. /\ upgrades[u].step \in Aboard /\ upgrades'[u].step \notin Aboard
      /\ upgrades'[u].step \notin Ashore /\ Others(u)
  BY DEF Quits, Aboard, Ashore
<1>2. PICK b \in Conn : b = tickets[u] /\ b # NoConn
  BY SocketsAssumption DEF DropTicket, YInv, Typed, BoatyardTypeOK
<1>3. slots[k].state = "placed" /\ slots[k].placer = b
  BY <1>1, <1>2 DEF YInv, Voyage
<1>4. IsFiniteSet(Passengers(b)) /\ slots[k].passengers = Cardinality(Passengers(b))
  BY <1>3 DEF YInv, Voyage
<1>5. tickets' = [tickets EXCEPT ![u] = NoConn]
  BY DEF DropTicket
<1>6. /\ tickets'[u] = NoConn /\ \A v \in Conn : v # u => tickets'[v] = tickets[v]
  BY <1>5 DEF YInv, Typed, BoatyardTypeOK
<1>7. /\ Passengers(b)' = Passengers(b) \ {u} /\ u \in Passengers(b)
      /\ \A c \in Conn : c # b => Passengers(c)' = Passengers(c)
  BY <1>2, <1>5, TicketDropped DEF YInv, Typed
<1>8. \A c \in Conn : (\E l \in Key : l # k /\ slots[l].placer = c) =>
        Passengers(c)' = Passengers(c)
  BY <1>2, <1>3, <1>7 DEF YInv, Voyage
<1>9. CASE slots[k].passengers = 1
  <2>1. /\ slots' = [slots EXCEPT ![k] = NoSlot] /\ afloat' = afloat \ {b}
    BY <1>2, <1>3, <1>9 DEF DropTicket
  <2>2. NoSlot.state = "empty" /\ NoSlot.placer = NoConn
    BY DEF NoSlot
  <2> HIDE DEF NoSlot
  <2>3. /\ \A l \in Key : l # k => slots'[l] = slots[l]
        /\ slots'[k].state = "empty" /\ slots'[k].placer = NoConn
    BY <2>1, <2>2 DEF YInv, Typed, BoatyardTypeOK
  <2>4. Passengers(b) = {u}
    <3>1. \E x : Passengers(b) = {x}
      BY <1>4, <1>9, FS_Singleton
    <3> QED
      BY <1>7, <3>1
  <2>5. \A v \in Conn : v # u => ~(upgrades[v].step \in Aboard /\ KeyOf(v) = k)
    BY <1>3, <2>4 DEF YInv, Voyage, Passengers
  <2>6. \A v \in Conn : v # u /\ upgrades[v].step \in Aboard /\ KeyOf(v) = k =>
          slots'[k].state = "placed" /\ slots'[k].placer = slots[k].placer
    BY <2>5
  <2>7. afloat' = {slots'[l].placer : l \in {m \in Key : slots'[m].state = "placed"}}
    <3>1. afloat = {slots[l].placer : l \in {m \in Key : slots[m].state = "placed"}}
      BY DEF YInv, Voyage
    <3>2. \A l \in Key : l # k => slots[l].placer # b
      BY <1>2, <1>3 DEF YInv, Voyage
    <3> QED
      BY <1>3, <2>1, <2>3, <3>1, <3>2
  <2>8. slots'[k].state # "placed"
    BY <2>3
  <2> QED
    BY <1>1, <1>6, <1>8, <2>3, <2>6, <2>7, <2>8, OneBoat DEF Voyage
<1>10. CASE slots[k].passengers # 1
  <2>1. /\ slots' = [slots EXCEPT ![k] = [slots[k] EXCEPT !.passengers = @ - 1]]
        /\ afloat' = afloat
    BY <1>2, <1>3, <1>10 DEF DropTicket
  <2>2. /\ \A l \in Key : l # k => slots'[l] = slots[l]
        /\ slots'[k].state = "placed" /\ slots'[k].placer = b
        /\ slots'[k].passengers = slots[k].passengers - 1
    BY <1>3, <2>1 DEF YInv, Typed, BoatyardTypeOK, Slot
  <2>3. IsFiniteSet(Passengers(b)') /\ slots'[k].passengers = Cardinality(Passengers(b)')
    BY <1>4, <1>7, <2>2, FS_RemoveElement
  <2>4. \A v \in Conn : v # u /\ upgrades[v].step \in Aboard /\ KeyOf(v) = k =>
          slots'[k].state = "placed" /\ slots'[k].placer = slots[k].placer
    BY <1>3, <2>2
  <2>5. \E c \in Conn : /\ c = slots'[k].placer /\ IsFiniteSet(Passengers(c)')
                       /\ slots'[k].passengers = Cardinality(Passengers(c)')
    BY <2>2, <2>3
  <2>6. afloat' = {slots'[l].placer : l \in {m \in Key : slots'[m].state = "placed"}}
    BY <1>3, <2>1, <2>2 DEF YInv, Voyage
  <2>7. slots'[k].placer = slots[k].placer
    BY <1>3, <2>2
  <2> QED
    BY <1>1, <1>6, <1>8, <2>2, <2>4, <2>5, <2>6, <2>7, OneBoat DEF Voyage
<1> QED
  BY <1>9, <1>10

\* What a step of an upgrade leaves typed besides the upgrades and the yard.
Rest == /\ resets' \in BOOLEAN
        /\ ledgers' \in [Account -> Nat]
        /\ opened' \in Nat
        /\ closing' \subseteq Conn
        /\ announcing' \subseteq Conn
        /\ expired' \subseteq Account

\* Every step of an upgrade leaves it typed.
LEMMA RestKept ==
  ASSUME IInv, NEW u \in Conn, VenueStep(u) \/ ClientGone(u) \/ Hangup(u)
  PROVE  Rest
<1>1. Discard(u) => Rest
  BY AsksTyped DEF Discard, Rest, IInv, Typed, NoLedger
<1>2. Obtain(u) => Rest
  <2>1. Obtain(u) => ledgers' \in [Account -> Nat] /\ opened' \in Nat
    BY ObtainShape DEF IInv
  <2>2. Obtain(u) => UNCHANGED <<resets, closing, announcing, expired>>
    BY DEF Obtain
  <2> QED
    BY <2>1, <2>2 DEF Rest, IInv, Typed
<1>3. Commit(u) => Rest
  <2>1. Displaced(AccountOf(u), upgrades[u].asks.callsign, upgrades[u].asks.named) \subseteq Conn
    BY AsksTyped DEF Displaced, Evicted, IInv, LeaseInv, Entry, Record
  <2> QED
    BY <2>1 DEF Commit, Rest, IInv, Typed, runVars
<1>4. EndServing(u) => Rest
  BY DEF EndServing, runVars, Rest, IInv, Typed
<1>5. UNCHANGED <<runVars, closing, announcing, expired>> => Rest
  BY DEF runVars, Rest, IInv, Typed
<1>6. \/ Discard(u) \/ Obtain(u) \/ Commit(u) \/ EndServing(u)
      \/ UNCHANGED <<runVars, closing, announcing, expired>>
  BY DEF VenueStep, ClientGone, Hangup, Decide, Check, TakeReservation, Board, Wake, Placed,
         HandOver, Bind, Closed, Leave
<1> QED
  BY <1>1, <1>2, <1>3, <1>4, <1>5, <1>6

\* A step that neither boards nor leaves keeps the yard's invariant.
LEMMA AtRest ==
  ASSUME YInv, Rest, NEW u \in Conn, UNCHANGED boatyardVars, NEW from, NEW to,
         \/ Goes(u, from, to) /\ (from \in Aboard <=> to \in Aboard)
         \/ Quits(u, from, to) /\ {from, to} \cap Aboard = {},
         to \in Ashore => from \in Ashore
  PROVE  YInv'
<1>1. Voyage'
  BY QuietVoyage
<1>2. upgrades' \in [Conn -> Upgrading]
  BY DEF Goes, Quits
<1>3. BoatyardTypeOK' /\ Crewed'
  BY DEF YInv, Typed, boatyardVars, BoatyardTypeOK, Crewed
<1> QED
  BY <1>1, <1>2, <1>3 DEF YInv, Typed, Rest

\* A step that boards or leaves keeps it if it keeps the voyage.
LEMMA Afloat ==
  ASSUME YInv, Rest, Voyage', NEW u \in Conn, NEW k \in Key,
         upgrades' \in [Conn -> Upgrading],
         \/ Join(u, k) \/ StartPlacing(u, k) \/ Launch(u, k)
         \/ PlacementFailed(u, k) \/ DropTicket(u, k)
  PROVE  YInv'
<1>1. BoatyardTypeOK' /\ Crewed'
  BY YardTyped DEF YInv, Typed
<1> QED
  BY <1>1 DEF YInv, Typed, Rest

\* Every step of an upgrade keeps the yard's invariant.
LEMMA UpgradeAfloat ==
  ASSUME IInv, YInv, NEW u \in Conn, VenueStep(u) \/ ClientGone(u) \/ Hangup(u)
  PROVE  YInv'
<1>1. Rest /\ Typed
  BY RestKept DEF IInv
<1>2. PICK k \in Key : k = KeyOf(u)
  BY <1>1, AsksTyped
<1>3. CASE Decide(u) \/ Check(u) \/ Wake(u) \/ Obtain(u)
  BY <1>1, <1>3, DecideShape, CheckShape, WakeShape, ObtainShape, AtRest
  DEF Decide, Check, Wake, Obtain, Aboard, Ashore
<1>4. CASE TakeReservation(u) \/ Discard(u) \/ Commit(u) \/ HandOver(u) \/ Bind(u)
           \/ EndServing(u)
  BY <1>1, <1>4, PlainShapes, AtRest
  DEF TakeReservation, Discard, Commit, HandOver, Bind, EndServing, Aboard, Ashore
<1>5. CASE ClientGone(u)
  BY <1>1, <1>5, ClientGoneShape, AtRest DEF ClientGone, Aboard, Ashore
<1>6. CASE Board(u)
  <2>1. CASE Join(u, k) /\ \E s \in InTail : Goes(u, "boarding", s)
    BY <1>1, <1>2, <2>1, JoinVoyage, Afloat DEF Goes
  <2>2. CASE StartPlacing(u, k) /\ Goes(u, "boarding", "placing")
    BY <1>1, <1>2, <2>2, StartVoyage, Afloat DEF Goes
  <2>3. CASE UNCHANGED boatyardVars /\ (Goes(u, "boarding", "joining") \/ Quits(u, "boarding", "refused"))
    BY <1>1, <2>3, AtRest DEF Aboard, Ashore
  <2> QED
    BY <1>1, <1>2, <1>6, <2>1, <2>2, <2>3, BoardShape
<1>7. CASE Placed(u)
  <2>1. CASE Launch(u, k) /\ \E s \in InTail : Goes(u, "placing", s)
    BY <1>1, <1>2, <2>1, LaunchVoyage, Afloat DEF Goes
  <2>2. CASE PlacementFailed(u, k) /\ Quits(u, "placing", "refused")
    BY <1>1, <1>2, <2>2, FailedVoyage, Afloat DEF Quits
  <2> QED
    BY <1>1, <1>2, <1>7, <2>1, <2>2, PlacedShape
<1>8. CASE Leave(u)
  <2>1. DropTicket(u, k) /\ Quits(u, "leaving", "left")
    BY <1>1, <1>2, <1>8, PlainShapes DEF Leave
  <2> QED
    BY <1>1, <1>2, <2>1, DropVoyage, Afloat DEF Quits
<1> QED
  BY <1>3, <1>4, <1>5, <1>6, <1>7, <1>8 DEF VenueStep, Closed, Hangup

\* A dial is of a socket still ashore.
LEMMA DialAfloat ==
  ASSUME IInv, YInv, NEW u \in Conn, NEW r \in Requests, Dial(u, r)
  PROVE  YInv'
<1> DEFINE a == r.account
           n == [NotBegun EXCEPT !.step = "deciding", !.asks = r,
                                 !.observed = Opened(a).incarnation]
<1>1. a \in Account /\ r \in Request
  BY UpgradeAssumption DEF Request
<1>2. n \in Upgrading /\ n.step = "deciding"
  <2>1. Opened(a).incarnation \in Nat
    BY <1>1, OpenedLeased DEF IInv, LeaseInv, Leased, Counted, Entry
  <2> HIDE DEF NotBegun
  <2> QED
    BY <1>1, <2>1, NotBegunTyped DEF Upgrading, Steps, Admitting
<1>3. At(u, "idle") /\ upgrades' = [upgrades EXCEPT ![u] = n]
  BY DEF Dial
<1> HIDE DEF n
<1>4. Quits(u, "idle", "deciding")
  BY <1>2, <1>3 DEF Quits, Others, At, IInv, Typed
<1>5. Rest /\ UNCHANGED boatyardVars
  BY DEF Dial, runVars, Rest, IInv, Typed
<1> QED
  BY <1>4, <1>5, AtRest DEF Aboard, Ashore

\* The sweep and the endpoint leave the yard and the upgrades alone.
LEMMA AccountAfloat ==
  ASSUME YInv, UNCHANGED <<boatyardVars, upgrades>>, Rest
  PROVE  YInv'
<1>1. /\ slots' = slots /\ tickets' = tickets /\ afloat' = afloat /\ handed' = handed
      /\ upgrades' = upgrades
  BY DEF boatyardVars
<1>2. \A b : Passengers(b)' = Passengers(b)
  BY <1>1 DEF Passengers
<1>3. Voyage'
  BY <1>1, <1>2 DEF YInv, Voyage, KeyOf
<1>4. Typed' /\ Crewed'
  BY <1>1 DEF YInv, Typed, Crewed, Rest, BoatyardTypeOK
<1> QED
  BY <1>3, <1>4 DEF YInv
------------------------------------------------------------------------------
(* The invariant, and what follows from it.                                *)

\* A step that changes neither the registry nor the upgrades keeps the
\* registry's side.
LEMMA NobodysStep ==
  ASSUME IInv, UNCHANGED <<registryVars, upgrades>>
  PROVE  Kept
<1>1. entries' = entries /\ minted' = minted /\ upgrades' = upgrades
  BY DEF registryVars
<1>2. LeaseInv'
  BY <1>1 DEF IInv, LeaseInv
<1>3. Riders' /\ Holders'
  BY <1>1 DEF IInv, Riders, Holders, Holds, AccountOf, KeyOf
<1> QED
  BY <1>1, <1>2, <1>3 DEF Kept, registryVars

\* The venue starts in the invariant.
LEMMA InitInv ==
  ASSUME Init
  PROVE  IInv /\ YInv
<1>1. LeaseInv
  BY InitLease DEF Init
<1>2. /\ upgrades \in [Conn -> Upgrading] /\ \A u \in Conn : upgrades[u].step = "idle"
  <2> HIDE DEF NotBegun
  <2> QED
    BY NotBegunTyped DEF Init
<1>3. "idle" \notin Reserved /\ "idle" \notin Aboard
  BY DEF Reserved, Aboard
<1>4. NoSlot \in Slot /\ NoSlot.state = "empty" /\ NoSlot.placer = NoConn
  BY DEF NoSlot, Slot
<1>5. Typed
  <2> HIDE DEF NoSlot
  <2> QED
    BY <1>2, <1>4 DEF Init, Typed, BoatyardInit, BoatyardTypeOK, NoLedger
<1>6. Riders /\ Holders
  BY <1>2, <1>3 DEF Init, RegistryInit, NoEntry, Riders, Holders
<1>7. /\ \A k \in Key : slots[k].state = "empty" /\ slots[k].placer = NoConn
      /\ \A u \in Conn : tickets[u] = NoConn
      /\ afloat = {}
  BY <1>4 DEF Init, BoatyardInit
<1>8. Crewed /\ Voyage
  BY <1>2, <1>3, <1>7 DEF Crewed, Voyage
<1> QED
  BY <1>1, <1>5, <1>6, <1>8 DEF IInv, YInv

\* Every step keeps it, and is a call the registry allows or none at all.
LEMMA NextInv ==
  ASSUME IInv, YInv, [Next]_vars
  PROVE  IInv' /\ YInv' /\ [RegistryNext]_registryVars
<1> SUFFICES Kept /\ YInv'
  BY DEF Kept, IInv, YInv
<1>1. ASSUME NEW u \in Conn, NEW r \in Requests, Dial(u, r)
      PROVE  Kept /\ YInv'
  BY <1>1, DialKept, DialAfloat
<1>2. ASSUME NEW u \in Conn, VenueStep(u) \/ ClientGone(u) \/ Hangup(u)
      PROVE  Kept /\ YInv'
  BY <1>2, UpgradeKept, UpgradeAfloat
<1>3. ASSUME ReadExpired
      PROVE  Kept /\ YInv'
  <2>1. UNCHANGED <<registryVars, upgrades>>
    BY <1>3 DEF ReadExpired
  <2>2. Rest /\ UNCHANGED <<boatyardVars, upgrades>>
    BY <1>3 DEF ReadExpired, Unclaimed, runVars, Rest, IInv, Typed
  <2> QED
    BY <2>1, <2>2, NobodysStep, AccountAfloat
<1>4. ASSUME NEW a \in Account, CollectExpired(a)
      PROVE  Kept /\ YInv'
  <2>1. Kept
    <3>1. CASE Collect(a)
      BY <1>4, <3>1, AccountKept DEF CollectExpired
    <3>2. CASE UNCHANGED registryVars
      BY <1>4, <3>2, NobodysStep DEF CollectExpired
    <3> QED
      BY <1>4, <3>1, <3>2 DEF CollectExpired
  <2>2. ledgers' \in [Account -> Nat]
    BY <1>4 DEF CollectExpired, IInv, Typed, NoLedger
  <2>3. Rest /\ UNCHANGED <<boatyardVars, upgrades>>
    BY <1>4, <2>2 DEF CollectExpired, Rest, IInv, Typed
  <2> QED
    BY <2>1, <2>3, AccountAfloat
<1>5. ASSUME NEW a \in Account, OpenAccount(a)
      PROVE  Kept /\ YInv'
  <2>1. Kept
    BY <1>5, AccountKept DEF OpenAccount, Opening
  <2>2. Rest /\ UNCHANGED <<boatyardVars, upgrades>>
    BY <1>5 DEF OpenAccount, Opening, Rest, IInv, Typed
  <2> QED
    BY <2>1, <2>2, AccountAfloat
<1>6. ASSUME UNCHANGED vars
      PROVE  Kept /\ YInv'
  <2>1. UNCHANGED <<registryVars, boatyardVars, runVars, upgrades, closing, announcing, expired>>
    BY <1>6 DEF vars
  <2>2. Rest
    BY <2>1 DEF runVars, Rest, IInv, Typed
  <2> QED
    BY <2>1, <2>2, NobodysStep, AccountAfloat
<1>7. ASSUME NEW u \in Conn, Announce(u)
      PROVE  Kept /\ YInv'
  <2>1. UNCHANGED <<registryVars, boatyardVars, upgrades>>
    BY <1>7 DEF Announce
  <2>2. Rest
    BY <1>7 DEF Announce, runVars, Rest, IInv, Typed
  <2> QED
    BY <2>1, <2>2, NobodysStep, AccountAfloat
<1> QED
  BY <1>1, <1>2, <1>3, <1>4, <1>5, <1>6, <1>7 DEF Next

\* The invariant holds throughout, and the venue is a user of the registry.
THEOREM VenueInv == Spec => [](IInv /\ YInv)
BY InitInv, NextInv, PTL DEF Spec

\* An upgrade, its registry and its yard keep to their types.
THEOREM UpgradeTypeCorrect == Spec => []TypeOK
<1>1. IInv /\ YInv => TypeOK
  BY DEF IInv, Typed, TypeOK, LeaseInv, RegistryTypeOK
<1> QED
  BY <1>1, VenueInv, PTL

\* Every step of the venue is one call the registry allows, or leaves it
\* alone: the upgrade never commits a socket twice, for one.
THEOREM UpgradeImplementsRegistry == Spec => RegistrySpec
<1>1. Init => RegistryInit
  BY DEF Init
<1>2. IInv /\ YInv /\ [Next]_vars => [RegistryNext]_registryVars
  BY NextInv
<1> QED
  BY <1>1, <1>2, VenueInv, PTL DEF Spec, RegistrySpec

\* On the venue the lease of an account is exact.
THEOREM LeaseAlwaysExact == Spec => []LeaseExact
BY UpgradeImplementsRegistry, RegistryLeaseExact, PTL

\* What an admission reserved stays reserved for it until it commits or ends.
THEOREM ReservationsHold == Spec => []ReservationHolds
<1>1. IInv /\ YInv => ReservationHolds
  <2> SUFFICES ASSUME IInv PROVE ReservationHolds
    OBVIOUS
  <2> QED
    BY DEF IInv, Holders, ReservationHolds
<1> QED
  BY <1>1, VenueInv, PTL

\* The boats kept are the boats ridden, and they are the ones that run.
THEOREM BoatsAlwaysSailForPassengers == Spec => []BoatsSailForPassengers
<1>1. YInv => BoatsSailForPassengers
  <2> SUFFICES ASSUME YInv PROVE BoatsSailForPassengers
    OBVIOUS
  <2>1. \A u \in Conn : tickets[u] # NoConn => tickets[u] \in afloat
    BY AsksTyped DEF YInv, Voyage
  <2> QED
    BY <2>1 DEF YInv, Crewed, Voyage, BoatsSailForPassengers
<1> QED
  BY <1>1, VenueInv, PTL

\* A connection on record rides the very boat its owner's ticket keeps.
THEOREM RidesKeepTheirBoats == Spec => []RideKeepsBoat
<1>1. IInv /\ YInv => RideKeepsBoat
  <2> SUFFICES ASSUME IInv, YInv, NEW a \in Account, NEW c \in entries[a].connections
               PROVE  /\ tickets[c.id] # NoConn
                      /\ slots[c.ride].state = "placed"
                      /\ slots[c.ride].placer = tickets[c.id]
    BY DEF RideKeepsBoat
  <2>1. c.id \in Conn /\ c.ride = KeyOf(c.id) /\ upgrades[c.id].step \in Booked
    BY DEF IInv, LeaseInv, Entry, Record, Riders
  <2>2. Booked \subseteq Aboard
    BY DEF Booked, Aboard
  <2> QED
    BY <2>1, <2>2 DEF YInv, Voyage
<1> QED
  BY <1>1, VenueInv, PTL

------------------------------------------------------------------------------
(* The ledger an upgrade's checks were made of is the one it is served.    *)

\* An admission under way has taken its account's ledger away.
Discarded(v) == upgrades[v].resetting /\ upgrades[v].step \in {"obtaining", "committing"}

\* The account is under the incarnation u observed, and nobody has taken the
\* ledger of that incarnation away.
Intact(u) ==
  LET e == entries[AccountOf(u)]
  IN  /\ e.open /\ e.incarnation = upgrades[u].observed
      /\ e.pending # NoConn => ~Discarded(e.pending)

\* While it is intact, the ledger the checks read is the one in the map; hence
\* the one that is obtained.
Read == {"reserving"} \cup Reserved
Served == {"committing"} \cup Booked

CheckedAt(u) ==
  LET r == upgrades[u]
  IN  /\ r.observed <= minted
      /\ r.step = "discarding" => r.resetting
      /\ r.step \in Read /\ r.resetting => r.checked = NoLedger
      /\ r.step \in Read /\ r.checked # NoLedger /\ Intact(u) =>
           ledgers[AccountOf(u)] = r.checked
      /\ r.step \in Served => r.checked \in {NoLedger, r.served}

Checked == \A u \in Conn : CheckedAt(u)

\* On a venue that resets nothing, whoever is about to be on record of an
\* account is served the ledger in the map, and rides no second boat of a river.
SharedAt(u) ==
  /\ ~upgrades[u].resetting
  /\ upgrades[u].step = "committing" =>
       upgrades[u].served = ledgers[AccountOf(u)] /\ upgrades[u].served # NoLedger
  /\ upgrades[u].step \in Reserved => ~Conflicts(entries[AccountOf(u)], KeyOf(u))

SharedOn(a) ==
  /\ \A c \in entries[a].connections :
       upgrades[c.id].served = ledgers[a] /\ ledgers[a] # NoLedger
  /\ \A c, d \in entries[a].connections : River(c.ride) = River(d.ride) => c.ride = d.ride

Shared == (\A u \in Conn : SharedAt(u)) /\ (\A a \in Account : SharedOn(a))

\* Beside IInv.
LedgerInv == IncarnationsFresh /\ Checked /\ (~resets => Shared)
------------------------------------------------------------------------------
(* What a step must show of an account for the checks made of it to stand. *)

\* An account found intact after the step was intact before it.
Told(a) ==
  entries'[a].open =>
    \/ entries'[a].incarnation > minted
    \/ /\ entries[a].open /\ entries'[a].incarnation = entries[a].incarnation
       /\ entries[a].pending # NoConn /\ Discarded(entries[a].pending) =>
            entries'[a].pending = entries[a].pending /\ Discarded(entries[a].pending)'

\* A ledger in the map is replaced only where it is no longer intact.
Replaced(a) ==
  ledgers'[a] # ledgers[a] /\ ledgers[a] # NoLedger =>
    ~entries'[a].open \/ (entries'[a].pending # NoConn /\ Discarded(entries[a].pending)')

Sound == /\ minted' \in Nat /\ minted' >= minted
         /\ \A a \in Account : Told(a) /\ Replaced(a)

\* What an upgrade carries.
Carries(u) == /\ upgrades'[u].asks = upgrades[u].asks
              /\ upgrades'[u].observed = upgrades[u].observed
              /\ upgrades'[u].resetting = upgrades[u].resetting
              /\ upgrades'[u].checked = upgrades[u].checked
              /\ upgrades'[u].served = upgrades[u].served

\* An upgrade that carries on keeps what it checked.
LEMMA StaysChecked ==
  ASSUME IInv, Sound, NEW v \in Conn, CheckedAt(v), Carries(v),
         upgrades'[v].step = "discarding" => upgrades[v].resetting,
         upgrades'[v].step \in Read => upgrades[v].step \in Read,
         upgrades'[v].step \in Served => upgrades[v].step \in Served
  PROVE  CheckedAt(v)'
<1> DEFINE a == AccountOf(v)
<1>1. /\ a \in Account /\ AccountOf(v)' = a
      /\ upgrades[v].observed \in Nat /\ minted \in Nat
  BY AsksTyped DEF IInv, LeaseInv, Carries, AccountOf
<1>2. ASSUME Intact(v)', upgrades[v].checked # NoLedger, upgrades[v].step \in Read
      PROVE  ledgers'[a] = upgrades[v].checked
  <2>1. /\ entries'[a].open /\ entries'[a].incarnation = upgrades[v].observed
        /\ entries'[a].pending # NoConn => ~Discarded(entries[a].pending)'
    BY <1>1, <1>2 DEF Intact, Carries, Discarded
  <2>2. Told(a) /\ Replaced(a)
    BY <1>1 DEF Sound
  <2>3. ~(entries'[a].incarnation > minted)
    BY <1>1, <2>1 DEF CheckedAt
  <2>4. Intact(v)
    BY <2>1, <2>2, <2>3 DEF Told, Intact
  <2>5. ledgers[a] = upgrades[v].checked
    BY <1>2, <2>4 DEF CheckedAt
  <2> QED
    BY <1>2, <2>1, <2>2, <2>5 DEF Replaced
<1>3. upgrades[v].observed <= minted'
  BY <1>1 DEF CheckedAt, Sound
<1> QED
  BY <1>1, <1>2, <1>3 DEF CheckedAt, Carries

\* An upgrade that has ended has nothing to keep.
LEMMA EndsChecked ==
  ASSUME IInv, Sound, NEW u \in Conn, NEW to \in {"refused", "left"}, Ends(u, to)
  PROVE  CheckedAt(u)'
<1>1. /\ [NotBegun EXCEPT !.step = to].step = to
      /\ [NotBegun EXCEPT !.step = to].observed = 0
  BY DEF NotBegun
<1> HIDE DEF NotBegun
<1>2. upgrades'[u].step = to /\ upgrades'[u].observed = 0
  BY <1>1 DEF Ends, IInv, Typed
<1>3. to \notin Read /\ to \notin Served /\ to # "discarding"
  BY DEF Read, Served, Reserved, Booked
<1> QED
  BY <1>2, <1>3 DEF CheckedAt, Sound

\* A step of u keeps everybody's checks if it is sound and keeps u's own.
LEMMA OneChecked ==
  ASSUME IInv, Checked, Sound, NEW u \in Conn, Others(u), CheckedAt(u)'
  PROVE  Checked'
<1> SUFFICES ASSUME NEW v \in Conn, v # u PROVE CheckedAt(v)'
  BY DEF Checked
<1>1. upgrades'[v] = upgrades[v]
  BY DEF Others
<1>2. CheckedAt(v) /\ Carries(v)
  BY <1>1 DEF Checked, Carries
<1> QED
  BY <1>1, <1>2, StaysChecked DEF CheckedAt


\* An upgrade that only moves on carries everything.
Keeps(u, from, to) == /\ Others(u) /\ Carries(u)
                      /\ upgrades[u].step = from /\ upgrades'[u].step = to

LEMMA MovesKeeps ==
  ASSUME IInv, NEW u \in Conn, NEW from, NEW to, At(u, from), Moves(u, to)
  PROVE  Keeps(u, from, to)
BY DEF IInv, Typed, At, Moves, Keeps, Others, Carries, Upgrading

\* The ways an upgrade goes on while it carries what it checked.
LEMMA BoardKeeps ==
  ASSUME IInv, NEW u \in Conn, Board(u)
  PROVE  \/ Refuse(u)
         \/ /\ UNCHANGED registryVars
            /\ \E s \in {"joining", "placing", "obtaining", "discarding"} :
                 Keeps(u, "boarding", s) /\ (s = "discarding" => upgrades[u].resetting)
<1>1. CASE Join(u, KeyOf(u)) /\ Moves(u, Tail(u)) /\ UNCHANGED registryVars
  BY <1>1, MovesKeeps DEF Board, Tail
<1>2. CASE StartPlacing(u, KeyOf(u)) /\ Moves(u, "placing") /\ UNCHANGED registryVars
  BY <1>2, MovesKeeps DEF Board
<1>3. CASE /\ upgrades' = [upgrades EXCEPT ![u].step = "joining",
                                           ![u].awaits = slots[KeyOf(u)].placer]
           /\ UNCHANGED registryVars
  <2>1. Keeps(u, "boarding", "joining")
    BY <1>3 DEF Board, At, Keeps, Others, Carries, IInv, Typed, Upgrading
  <2> QED
    BY <1>3, <2>1
<1> QED
  BY <1>1, <1>2, <1>3 DEF Board

LEMMA PlacedKeeps ==
  ASSUME IInv, NEW u \in Conn, Placed(u)
  PROVE  \/ Refuse(u)
         \/ /\ UNCHANGED registryVars
            /\ \E s \in {"obtaining", "discarding"} :
                 Keeps(u, "placing", s) /\ (s = "discarding" => upgrades[u].resetting)
BY MovesKeeps DEF Placed, Tail

LEMMA WakeKeeps ==
  ASSUME IInv, NEW u \in Conn, Wake(u)
  PROVE  Keeps(u, "joining", "boarding")
BY DEF Wake, At, Keeps, Others, Carries, IInv, Typed, Upgrading

LEMMA AbandonKeeps ==
  ASSUME IInv, NEW u \in Conn, upgrades' = [upgrades EXCEPT ![u].abandoned = TRUE]
  PROVE  Keeps(u, upgrades[u].step, upgrades[u].step)
BY DEF Keeps, Others, Carries, IInv, Typed, Upgrading
------------------------------------------------------------------------------
(* Which steps are sound.                                                  *)

\* The claims stay, and an admission that has discarded still has.
LEMMA SameTold ==
  ASSUME IInv, NEW u \in Conn, Others(u), \A a \in Account : SameClaim(a),
         Discarded(u) => Discarded(u)'
  PROVE  \A a \in Account : Told(a)
<1> SUFFICES ASSUME NEW a \in Account, entries[a].pending # NoConn, Discarded(entries[a].pending)
             PROVE  Discarded(entries[a].pending)'
  BY DEF Told, SameClaim
<1>1. entries[a].pending \in Conn /\ entries'[a].pending = entries[a].pending
  BY DEF IInv, LeaseInv, Entry, SameClaim
<1> QED
  BY <1>1 DEF Others, Discarded

\* Only one account's claim changes, and no other is u's.
LEMMA AccountTold ==
  ASSUME IInv, NEW u \in Conn, Others(u), NEW a \in Account, Elsewhere(a), Told(a),
         \A b \in Account : b # a => entries[b].pending # u
  PROVE  \A b \in Account : Told(b)
<1> SUFFICES ASSUME NEW b \in Account, b # a, entries[b].pending # NoConn,
                    Discarded(entries[b].pending)
             PROVE  Discarded(entries[b].pending)'
  BY DEF Told, Elsewhere
<1>1. entries[b].pending \in Conn \ {u} /\ entries'[b].pending = entries[b].pending
  BY DEF IInv, LeaseInv, Entry, Elsewhere
<1> QED
  BY <1>1 DEF Others, Discarded

\* A step that keeps registry and ledgers.
LEMMA QuietSound ==
  ASSUME IInv, NEW u \in Conn, Others(u), UNCHANGED registryVars, UNCHANGED ledgers,
         Discarded(u) => Discarded(u)'
  PROVE  Sound
<1>1. \A a \in Account : SameClaim(a)
  BY DEF registryVars, SameClaim
<1>2. minted \in Nat /\ minted' = minted
  BY DEF IInv, LeaseInv, registryVars
<1> QED
  BY <1>1, <1>2, SameTold DEF Sound, Replaced

\* The steps that move the upgrade on and nothing else the checks rest on.
LEMMA QuietChecked ==
  ASSUME IInv, Checked, NEW u \in Conn, NEW from, NEW to, Keeps(u, from, to),
         UNCHANGED registryVars, UNCHANGED ledgers,
         to = "discarding" => upgrades[u].resetting,
         to \in Read => from \in Read,
         to \in Served => from \in Served,
         from \in {"obtaining", "committing"} => to \in {"obtaining", "committing"}
  PROVE  Checked'
<1>1. Others(u) /\ (Discarded(u) => Discarded(u)')
  BY DEF Keeps, Discarded, Carries
<1>2. Sound
  BY <1>1, QuietSound
<1>3. CheckedAt(u)'
  BY <1>2, StaysChecked DEF Keeps, Checked
<1> QED
  BY <1>1, <1>2, <1>3, OneChecked

\* An upgrade that ends without a word to the registry.
LEMMA QuitChecked ==
  ASSUME IInv, Checked, NEW u \in Conn, NEW to \in {"refused", "left"}, Ends(u, to),
         upgrades[u].step \notin {"obtaining", "committing"},
         UNCHANGED registryVars, UNCHANGED ledgers
  PROVE  Checked'
<1>1. Others(u) /\ ~Discarded(u)
  BY DEF Ends, Others, IInv, Typed, Discarded
<1> QED
  BY <1>1, QuietSound, EndsChecked, OneChecked

\* What the venue is decided to do with the ledger is not what was checked.
LEMMA DecideChecked ==
  ASSUME IInv, Checked, NEW u \in Conn, Decide(u)
  PROVE  Checked'
<1>1. /\ Goes(u, "deciding", "checking") /\ UNCHANGED registryVars /\ UNCHANGED ledgers
  BY DecideShape DEF IInv, Decide, runVars
<1>2. Others(u) /\ Sound
  BY <1>1, QuietSound DEF Goes, Discarded
<1>3. CheckedAt(u)'
  BY <1>1, <1>2 DEF Goes, Checked, CheckedAt, registryVars, Read, Served, Reserved, Booked
<1> QED
  BY <1>2, <1>3, OneChecked

\* The checks are made of the ledger in the map.
LEMMA CheckChecked ==
  ASSUME IInv, Checked, NEW u \in Conn, Check(u)
  PROVE  Checked'
<1>1. At(u, "checking") /\ UNCHANGED registryVars /\ UNCHANGED ledgers
  BY DEF Check, runVars
<1>2. CASE Ends(u, "refused")
  BY <1>1, <1>2, QuitChecked DEF At
<1>3. CASE ~Ends(u, "refused")
  <2>1. /\ Others(u)
        /\ upgrades'[u].step = "reserving"
        /\ upgrades'[u].asks = upgrades[u].asks
        /\ upgrades'[u].observed = upgrades[u].observed
        /\ upgrades'[u].resetting = upgrades[u].resetting
        /\ upgrades'[u].checked =
             IF upgrades[u].resetting THEN NoLedger ELSE ledgers[AccountOf(u)]
    BY <1>3 DEF Check, IInv, Typed, Others, Upgrading
  <2>2. Sound
    BY <1>1, <2>1, QuietSound DEF Discarded, At
  <2>3. CheckedAt(u)'
    BY <1>1, <2>1
    DEF Checked, CheckedAt, registryVars, Read, Served, Reserved, Booked, AccountOf
  <2> QED
    BY <2>1, <2>2, <2>3, OneChecked
<1> QED
  BY <1>2, <1>3

\* A dial observes an incarnation that has been minted.
LEMMA DialChecked ==
  ASSUME IInv, IncarnationsFresh, Checked, NEW u \in Conn, NEW r \in Requests, Dial(u, r)
  PROVE  Checked'
<1> DEFINE a == r.account
           n == [NotBegun EXCEPT !.step = "deciding", !.asks = r,
                                 !.observed = Opened(a).incarnation]
<1>1. /\ a \in Account /\ minted \in Nat
  BY UpgradeAssumption DEF Request, IInv, LeaseInv
<1>2. Ensure(a) /\ At(u, "idle") /\ upgrades' = [upgrades EXCEPT ![u] = n]
      /\ UNCHANGED ledgers
  BY DEF Dial, runVars
<1>3. n.step = "deciding" /\ n.observed = Opened(a).incarnation
  BY DEF NotBegun
<1> HIDE DEF n
<1>4. Others(u) /\ upgrades'[u] = n
  BY <1>2 DEF IInv, Typed, Others
<1>5. /\ Elsewhere(a) /\ entries'[a] = Opened(a) /\ entries'[a].open
      /\ entries[a].open => entries' = entries /\ minted' = minted
      /\ ~entries[a].open => entries'[a].incarnation = minted + 1 /\ minted' = minted + 1
  BY <1>1, <1>2, EnsureStep DEF IInv
<1>6. \A b \in Account : entries[b].pending # u
  BY <1>2, SocketsAssumption DEF IInv, Holders, At, Reserved
<1>7. Told(a)
  <2>1. CASE ~entries[a].open
    BY <1>1, <1>5, <2>1 DEF Told
  <2>2. CASE entries[a].open
    <3>1. SameClaim(a) /\ \A b \in Account : SameClaim(b)
      BY <1>1, <1>5, <2>2 DEF SameClaim
    <3> QED
      BY <1>1, <1>2, <1>4, <3>1, SameTold DEF Discarded, At
  <2> QED
    BY <2>1, <2>2
<1>8. Sound
  BY <1>1, <1>2, <1>4, <1>5, <1>6, <1>7, AccountTold DEF Sound, Replaced
<1>9. n.observed <= minted'
  BY <1>1, <1>3, <1>5 DEF IncarnationsFresh
<1>10. CheckedAt(u)'
  BY <1>3, <1>4, <1>9 DEF CheckedAt, Read, Served, Reserved, Booked
<1> QED
  BY <1>4, <1>8, <1>10, OneChecked


\* A reservation is granted of an account under the incarnation observed.
LEMMA ReservationChecked ==
  ASSUME IInv, Checked, NEW u \in Conn, TakeReservation(u)
  PROVE  Checked'
<1>0. PICK a \in Account : a = AccountOf(u)
  BY AsksTyped DEF IInv
<1> DEFINE r == upgrades[u]
           granted == ReserveAnswer(Opened(a), KeyOf(u), r.resetting, r.observed) = "reserved"
<1>1. /\ a \in Account /\ KeyOf(u) \in Key /\ r.resetting \in BOOLEAN /\ r.observed \in Nat
      /\ u # NoConn /\ minted \in Nat
  BY AsksTyped, SocketsAssumption DEF IInv, LeaseInv
<1>2. /\ At(u, "reserving") /\ Reserve(a, u, KeyOf(u), r.resetting, r.observed)
      /\ IF granted THEN Moves(u, "boarding") ELSE Ends(u, "refused")
      /\ UNCHANGED ledgers
  BY <1>0 DEF TakeReservation, runVars
<1> HIDE DEF granted
<1>3. /\ Elsewhere(a) /\ entries'[a].open
      /\ entries[a].open => entries'[a].incarnation = entries[a].incarnation /\ minted' = minted
      /\ ~entries[a].open => entries'[a].incarnation = minted + 1 /\ minted' = minted + 1
      /\ granted => /\ entries[a].open => entries[a].pending = NoConn
                    /\ entries'[a].pending = u /\ entries'[a].incarnation = r.observed
      /\ ~granted => entries'[a].pending = Opened(a).pending
  BY <1>1, <1>2, ReserveStep DEF IInv, granted
<1>4. Others(u)
  BY <1>2 DEF IInv, Typed, Moves, Ends, Others
<1>5. \A b \in Account : entries[b].pending # u
  BY <1>1, <1>2 DEF IInv, Holders, At, Reserved
<1>6. Told(a)
  <2> SUFFICES ASSUME entries[a].open, entries[a].pending # NoConn, Discarded(entries[a].pending)
               PROVE  entries'[a].pending = entries[a].pending /\ Discarded(entries[a].pending)'
    BY <1>1, <1>3 DEF Told
  <2>1. entries'[a].pending = entries[a].pending
    BY <1>3 DEF Opened
  <2>2. PICK p \in Conn : p = entries[a].pending /\ p # u
    BY <1>1, <1>5 DEF IInv, LeaseInv, Entry
  <2>3. upgrades'[p] = upgrades[p]
    BY <1>4, <2>2 DEF Others
  <2>4. Discarded(entries[a].pending)'
    BY <2>1, <2>2, <2>3 DEF Discarded
  <2> QED
    BY <2>1, <2>4
<1>7. Sound
  BY <1>1, <1>2, <1>3, <1>4, <1>5, <1>6, AccountTold DEF Sound, Replaced
<1>8. CheckedAt(u)'
  <2>1. CASE granted
    <3>1. Keeps(u, "reserving", "boarding")
      BY <1>2, <2>1, MovesKeeps
    <3> QED
      BY <1>7, <3>1, StaysChecked DEF Keeps, Checked, Read, Served, Booked
  <2>2. CASE ~granted
    BY <1>2, <1>7, <2>2, EndsChecked
  <2> QED
    BY <2>1, <2>2
<1> QED
  BY <1>4, <1>7, <1>8, OneChecked

\* Only an admission that has not discarded gives its account back.
LEMMA RefuseChecked ==
  ASSUME IInv, Checked, NEW u \in Conn, NEW from \in {"boarding", "joining", "placing"},
         At(u, from), Refuse(u), UNCHANGED ledgers
  PROVE  Checked'
<1>0. PICK a \in Account : a = AccountOf(u)
  BY AsksTyped DEF IInv
<1>1. a \in Account /\ minted \in Nat
  BY AsksTyped DEF IInv, LeaseInv
<1>2. /\ Elsewhere(a) /\ minted' = minted
      /\ entries'[a].open = entries[a].open
      /\ entries'[a].incarnation = entries[a].incarnation
  BY <1>0, <1>1, RollbackStep DEF IInv, Refuse
<1>3. /\ entries[a].pending = u /\ ~Discarded(u)
      /\ \A b \in Account : b # a => entries[b].pending # u
  BY <1>0, SocketsAssumption DEF IInv, Holders, Holds, At, Reserved, Discarded
<1>4. Others(u)
  BY DEF IInv, Typed, Refuse, Ends, Others
<1>5. Told(a)
  BY <1>2, <1>3 DEF Told
<1>6. Sound
  BY <1>1, <1>2, <1>3, <1>4, <1>5, AccountTold DEF Sound, Replaced
<1>7. CheckedAt(u)'
  BY <1>6, EndsChecked DEF Refuse
<1> QED
  BY <1>4, <1>6, <1>7, OneChecked

\* Reading and releasing leave the claim on the account alone.
LEMMA RecordChecked ==
  ASSUME IInv, Checked, NEW u \in Conn, NEW from \in Booked, At(u, from),
         NEW to \in {"serving", "leaving"}, Moves(u, to), UNCHANGED ledgers,
         \/ Release(AccountOf(u), u)
         \/ BeginReading(AccountOf(u), u)
  PROVE  Checked'
<1>0. PICK a \in Account : a = AccountOf(u)
  BY AsksTyped DEF IInv
<1>1. a \in Account /\ minted \in Nat
  BY AsksTyped DEF IInv, LeaseInv
<1>2. Elsewhere(a) /\ SameClaim(a) /\ minted' = minted
  BY <1>0, <1>1, ReleaseStep, BeginReadingStep DEF IInv
<1>3. \A b \in Account : SameClaim(b)
  BY <1>2 DEF Elsewhere, SameClaim
<1>4. Keeps(u, from, to)
  BY MovesKeeps
<1>5. Sound
  BY <1>1, <1>2, <1>3, <1>4, SameTold DEF Sound, Replaced, Keeps, Discarded, Booked
<1>6. CheckedAt(u)'
  BY <1>4, <1>5, StaysChecked DEF Keeps, Checked, Read, Served, Reserved, Booked
<1> QED
  BY <1>4, <1>5, <1>6, OneChecked DEF Keeps

\* A ledger is discarded by the admission that holds its account.
LEMMA DiscardChecked ==
  ASSUME IInv, Checked, NEW u \in Conn, Discard(u)
  PROVE  Checked'
<1>0. PICK a \in Account : a = AccountOf(u)
  BY AsksTyped DEF IInv
<1>1. /\ a \in Account /\ minted \in Nat /\ u # NoConn
  BY AsksTyped, SocketsAssumption DEF IInv, LeaseInv
<1>2. /\ At(u, "discarding") /\ Keeps(u, "discarding", "obtaining")
      /\ ledgers' = [ledgers EXCEPT ![a] = NoLedger]
      /\ UNCHANGED registryVars
  BY <1>0, MovesKeeps DEF Discard
<1>3. upgrades[u].resetting /\ Discarded(u)' /\ ~Discarded(u)
  BY <1>2 DEF Checked, CheckedAt, Keeps, Carries, Discarded, At
<1>4. \A b \in Account : SameClaim(b)
  BY <1>2 DEF registryVars, SameClaim
<1>5. \A b \in Account : Told(b)
  BY <1>2, <1>3, <1>4, SameTold DEF Keeps
<1>6. entries'[a].pending = u
  BY <1>0, <1>2 DEF IInv, Holders, Holds, At, Reserved, registryVars
<1>7. \A b \in Account : Replaced(b)
  <2>4. Discarded(entries[a].pending)'
    BY <1>3, <1>6 DEF Discarded
  <2>1. Replaced(a)
    BY <1>1, <1>6, <2>4 DEF Replaced
  <2>2. \A b \in Account : b # a => ledgers'[b] = ledgers[b]
    BY <1>2 DEF IInv, Typed
  <2>3. \A b \in Account : b # a => Replaced(b)
    BY <2>2 DEF Replaced
  <2> QED
    BY <2>1, <2>3
<1>8. Sound
  BY <1>1, <1>2, <1>5, <1>7 DEF Sound, registryVars
<1>9. CheckedAt(u)'
  BY <1>2, <1>8, StaysChecked DEF Keeps, Checked, Read, Served, Reserved, Booked
<1> QED
  BY <1>2, <1>8, <1>9, OneChecked DEF Keeps

\* What Obtain does to the account map.
LEMMA ObtainLedgers ==
  ASSUME IInv, NEW u \in Conn, Obtain(u)
  PROVE  /\ UNCHANGED registryVars /\ Others(u)
         /\ \A b \in Account : ledgers[b] # NoLedger => ledgers'[b] = ledgers[b]
         /\ \A b \in Account : b # AccountOf(u) => ledgers'[b] = ledgers[b]
         /\ ledgers'[AccountOf(u)] # NoLedger
         /\ upgrades'[u].step = "committing"
         /\ upgrades'[u].asks = upgrades[u].asks
         /\ upgrades'[u].observed = upgrades[u].observed
         /\ upgrades'[u].resetting = upgrades[u].resetting
         /\ upgrades'[u].checked = upgrades[u].checked
         /\ upgrades'[u].served = ledgers'[AccountOf(u)]
<1>0. PICK a \in Account : a = AccountOf(u)
  BY AsksTyped DEF IInv
<1>1. a \in Account /\ opened \in Nat
  BY AsksTyped DEF IInv, Typed
<1>2. UNCHANGED registryVars
  <2>1. entries[a].open
    BY <1>0 DEF Obtain, Reserved, IInv, Holders, Holds, At
  <2>2. CASE UNCHANGED <<registryVars, ledgers, opened>>
    BY <2>2
  <2>3. CASE Opening(a)
    BY <1>1, <2>1, <2>3, EnsureStep DEF Opening, IInv, registryVars
  <2> QED
    BY <1>0, <2>2, <2>3 DEF Obtain
<1>3. /\ \A b \in Account : ledgers[b] # NoLedger => ledgers'[b] = ledgers[b]
      /\ \A b \in Account : b # AccountOf(u) => ledgers'[b] = ledgers[b]
      /\ ledgers'[AccountOf(u)] # NoLedger
  BY <1>0, <1>1 DEF Obtain, Opening, IInv, Typed, NoLedger
<1>4. upgrades' = [upgrades EXCEPT ![u].step = "committing", ![u].served = ledgers'[a]]
  BY <1>0 DEF Obtain
<1>5. upgrades[u] \in Upgrading
  BY DEF IInv, Typed
<1>6. /\ upgrades'[u].step = "committing"
      /\ upgrades'[u].asks = upgrades[u].asks
      /\ upgrades'[u].observed = upgrades[u].observed
      /\ upgrades'[u].resetting = upgrades[u].resetting
      /\ upgrades'[u].checked = upgrades[u].checked
      /\ upgrades'[u].served = ledgers'[a]
      /\ Others(u)
  BY <1>4, <1>5 DEF IInv, Typed, Upgrading, Others
<1> QED
  BY <1>0, <1>2, <1>3, <1>6

\* The ledger obtained is the one checked, if the checks read one.
LEMMA ObtainChecked ==
  ASSUME IInv, Checked, NEW u \in Conn, Obtain(u)
  PROVE  Checked'
<1>0. PICK a \in Account : a = AccountOf(u)
  BY AsksTyped DEF IInv
<1>1. /\ a \in Account /\ minted \in Nat /\ u # NoConn /\ At(u, "obtaining")
  BY AsksTyped, SocketsAssumption DEF IInv, LeaseInv, Obtain
<1>2. Discarded(u) => Discarded(u)'
  BY ObtainLedgers DEF Discarded
<1>3. \A b \in Account : SameClaim(b)
  BY ObtainLedgers DEF registryVars, SameClaim
<1>4. Sound
  BY <1>1, <1>2, <1>3, ObtainLedgers, SameTold DEF Sound, Replaced, registryVars
<1>5. CheckedAt(u)'
  <2>1. upgrades[u].checked # NoLedger => ledgers'[a] = upgrades[u].checked
    <3> SUFFICES ASSUME upgrades[u].checked # NoLedger
                 PROVE  ledgers'[a] = upgrades[u].checked
      OBVIOUS
    <3>1. ~upgrades[u].resetting
      BY <1>1 DEF Checked, CheckedAt, Read, Reserved, At
    <3>2. Intact(u)
      BY <1>1, <3>1 DEF IInv, Holders, Holds, At, Reserved, Intact, Discarded
    <3>3. ledgers[a] = upgrades[u].checked
      BY <1>0, <1>1, <3>2 DEF Checked, CheckedAt, Read, Reserved, At
    <3> QED
      BY <1>1, <3>3, ObtainLedgers
  <2>2. upgrades[u].observed <= minted' /\ AccountOf(u)' = a
    BY <1>0, ObtainLedgers DEF registryVars, Checked, CheckedAt, AccountOf
  <2>3. upgrades[u].resetting => upgrades[u].checked = NoLedger
    BY <1>1 DEF Checked, CheckedAt, Read, Reserved, At
  <2> QED
    BY <1>0, <2>1, <2>2, <2>3, ObtainLedgers DEF CheckedAt
<1> QED
  BY <1>4, <1>5, ObtainLedgers, OneChecked

\* A commit that resets puts the account under a new incarnation.
LEMMA CommitChecked ==
  ASSUME IInv, Checked, NEW u \in Conn, Commit(u)
  PROVE  Checked'
<1>0. PICK a \in Account : a = AccountOf(u)
  BY AsksTyped DEF IInv
<1> DEFINE r == upgrades[u]
<1>1. /\ a \in Account /\ KeyOf(u) \in Key /\ u # NoConn /\ minted \in Nat
      /\ r.asks.callsign \in Callsign \cup {NoCallsign} /\ r.asks.named \in BOOLEAN
      /\ r.resetting \in BOOLEAN /\ r.observed \in Nat
  BY AsksTyped, SocketsAssumption DEF IInv, LeaseInv
<1>2. /\ At(u, "committing") /\ Keeps(u, "committing", "installing") /\ UNCHANGED ledgers
      /\ Install(a, u, r.asks.callsign, KeyOf(u), r.resetting, r.observed, r.asks.named)
  BY <1>0, MovesKeeps DEF Commit, KeyOf, runVars
<1>3. ~Registered(a, u)
  BY <1>1, <1>2 DEF IInv, Riders, At, Booked, Registered
<1>4. /\ Elsewhere(a)
      /\ entries[a].open /\ entries[a].pending = u
      /\ minted' = IF r.resetting THEN minted + 1 ELSE minted
      /\ entries'[a].incarnation = IF r.resetting THEN minted + 1 ELSE entries[a].incarnation
  BY <1>1, <1>2, <1>3, InstallStep DEF IInv
<1>5. \A b \in Account : b # a => entries[b].pending # u
  BY <1>0, <1>1 DEF IInv, Holders
<1>6. Told(a)
  BY <1>1, <1>4 DEF Told, Discarded
<1>7. Sound
  BY <1>1, <1>2, <1>4, <1>5, <1>6, AccountTold DEF Sound, Replaced, Keeps
<1>8. CheckedAt(u)'
  BY <1>2, <1>7, StaysChecked DEF Keeps, Checked, Read, Served, Reserved, Booked
<1> QED
  BY <1>2, <1>7, <1>8, OneChecked DEF Keeps

\* Every step of an upgrade keeps what has been checked.
LEMMA UpgradeChecked ==
  ASSUME IInv, Checked, NEW u \in Conn, VenueStep(u) \/ ClientGone(u) \/ Hangup(u)
  PROVE  Checked'
<1> USE DEF Read, Served, Reserved, Booked, At
<1>1. ASSUME Board(u) PROVE Checked'
  <2>1. UNCHANGED ledgers /\ At(u, "boarding")
    BY <1>1 DEF Board, runVars
  <2> QED
    BY <1>1, <2>1, BoardKeeps, RefuseChecked, QuietChecked
<1>2. ASSUME Wake(u) PROVE Checked'
  <2>1. UNCHANGED ledgers /\ UNCHANGED registryVars
    BY <1>2 DEF Wake, runVars
  <2> QED
    BY <1>2, <2>1, WakeKeeps, QuietChecked
<1>3. ASSUME Placed(u) PROVE Checked'
  <2>1. UNCHANGED ledgers /\ At(u, "placing")
    BY <1>3 DEF Placed, runVars
  <2> QED
    BY <1>3, <2>1, PlacedKeeps, RefuseChecked, QuietChecked
<1>4. ASSUME HandOver(u) PROVE Checked'
  <2>1. UNCHANGED ledgers /\ At(u, "installing")
    BY <1>4 DEF HandOver, runVars
  <2>2. CASE upgrades[u].abandoned
    BY <1>4, <2>1, <2>2, RecordChecked DEF HandOver
  <2>3. CASE ~upgrades[u].abandoned
    <3>1. Moves(u, "crossing") /\ UNCHANGED registryVars
      BY <1>4, <2>3 DEF HandOver
    <3>2. Keeps(u, "installing", "crossing")
      BY <2>1, <3>1, MovesKeeps
    <3> QED
      BY <2>1, <3>1, <3>2, QuietChecked
  <2> QED
    BY <2>2, <2>3
<1>5. ASSUME ClientGone(u) PROVE Checked'
  <2>1. UNCHANGED ledgers
    BY <1>5 DEF ClientGone, runVars
  <2>2. CASE At(u, "checking") /\ Ends(u, "refused") /\ UNCHANGED registryVars
    BY <2>1, <2>2, QuitChecked
  <2>3. CASE upgrades[u].step \in {"joining", "placing"} /\ Refuse(u)
    BY <2>1, <2>3, RefuseChecked
  <2>4. CASE /\ upgrades[u].step \in {"discarding", "obtaining", "committing", "installing"}
             /\ upgrades' = [upgrades EXCEPT ![u].abandoned = TRUE]
             /\ UNCHANGED registryVars
    <3>1. upgrades[u].step = "discarding" => upgrades[u].resetting
      BY DEF Checked, CheckedAt
    <3> QED
      BY <2>1, <2>4, <3>1, AbandonKeeps, QuietChecked
  <2>5. CASE At(u, "crossing") /\ Release(AccountOf(u), u) /\ Moves(u, "leaving")
    BY <2>1, <2>5, RecordChecked
  <2> QED
    BY <1>5, <2>2, <2>3, <2>4, <2>5 DEF ClientGone
<1>6. ASSUME Bind(u) PROVE Checked'
  <2>1. UNCHANGED ledgers /\ At(u, "crossing")
    BY <1>6 DEF Bind, runVars
  <2> QED
    BY <1>6, <2>1, RecordChecked DEF Bind
<1>7. ASSUME EndServing(u) PROVE Checked'
  <2>1. UNCHANGED ledgers /\ At(u, "serving")
    BY <1>7 DEF EndServing, runVars
  <2> QED
    BY <1>7, <2>1, RecordChecked DEF EndServing
<1>8. ASSUME Leave(u) PROVE Checked'
  <2>1. UNCHANGED ledgers /\ UNCHANGED registryVars /\ At(u, "leaving")
    BY <1>8 DEF Leave, runVars
  <2> QED
    BY <1>8, <2>1, QuitChecked DEF Leave
<1> HIDE DEF Read, Served, Reserved, Booked, At
<1> QED
  BY <1>1, <1>2, <1>3, <1>4, <1>5, <1>6, <1>7, <1>8, DecideChecked, CheckChecked,
     ReservationChecked, DiscardChecked, ObtainChecked, CommitChecked
  DEF VenueStep, Closed, Hangup

\* The sweep closes what it collects, and the endpoint opens where there is none.
LEMMA AccountChecked ==
  ASSUME IInv, IncarnationsFresh, Checked, NEW a \in Account, CollectExpired(a) \/ OpenAccount(a)
  PROVE  Checked'
<1>1. UNCHANGED upgrades /\ minted \in Nat
  BY DEF CollectExpired, OpenAccount, IInv, LeaseInv
<1>2. ASSUME UNCHANGED <<registryVars, ledgers>> PROVE Sound
  <2>1. \A b \in Account : SameClaim(b)
    BY <1>2 DEF registryVars, SameClaim
  <2> QED
    BY <1>1, <1>2, <2>1, SocketsAssumption DEF Sound, Told, SameClaim, Replaced, Discarded, registryVars
<1>3. ASSUME Collect(a), ledgers' = [ledgers EXCEPT ![a] = NoLedger] PROVE Sound
  <2>1. Elsewhere(a) /\ ~entries'[a].open /\ minted' = minted
    BY <1>3, CollectStep DEF IInv
  <2>2. \A b \in Account : b # a => ledgers'[b] = ledgers[b]
    BY <1>3 DEF IInv, Typed
  <2> QED
    BY <1>1, <2>1, <2>2 DEF Sound, Told, Replaced, Elsewhere, Discarded
<1>4. ASSUME OpenAccount(a) PROVE Sound
  <2>1. /\ Elsewhere(a)
        /\ entries[a].open => entries' = entries /\ minted' = minted
        /\ ~entries[a].open => entries'[a].incarnation = minted + 1 /\ minted' = minted + 1
    BY <1>4, EnsureStep DEF OpenAccount, Opening, IInv
  <2>2. \A b \in Account : ledgers[b] # NoLedger => ledgers'[b] = ledgers[b]
    BY <1>4 DEF OpenAccount, Opening, IInv, Typed
  <2> QED
    BY <1>1, <2>1, <2>2 DEF Sound, Told, Replaced, Elsewhere, Discarded
<1>5. Sound
  BY <1>2, <1>3, <1>4 DEF CollectExpired
<1> QED
  BY <1>1, <1>5, StaysChecked DEF Checked, Carries, CheckedAt

------------------------------------------------------------------------------
(* One ledger, and one boat of a river, on a venue that resets nothing.    *)

\* A ledger in the map stays there while anybody is about to be served it.
Lasting ==
  \A a \in Account : ledgers[a] # NoLedger =>
    \/ ledgers'[a] = ledgers[a]
    \/ entries'[a].connections = {} /\ entries[a].pending = NoConn

\* A step of u that registers nobody new and keeps the ledgers keeps what is
\* shared, if u's own part is right.
LEMMA OneShared ==
  ASSUME IInv, Shared, Lasting, NEW u \in Conn, Others(u),
         \A a \in Account : NobodyNew(a),
         SharedAt(u)',
         \A a \in Account : \A c \in entries[a].connections : c.id = u =>
           upgrades'[u].served = upgrades[u].served
  PROVE  Shared'
<1>1. ASSUME NEW v \in Conn, v # u PROVE SharedAt(v)'
  <2>1. upgrades'[v] = upgrades[v] /\ SharedAt(v) /\ AccountOf(v) \in Account /\ v # NoConn
    BY <1>1, AsksTyped, SocketsAssumption DEF Others, Shared, IInv
  <2>2. PICK a \in Account : a = AccountOf(v)
    BY <2>1
  <2>3. AccountOf(v)' = a /\ KeyOf(v)' = KeyOf(v)
    BY <2>1, <2>2 DEF AccountOf, KeyOf
  <2>4. upgrades[v].step = "committing" => entries[a].pending = v
    BY <2>2 DEF IInv, Holders, Holds, Reserved
  <2>5. upgrades[v].step = "committing" => ledgers'[a] = ledgers[a]
    BY <2>1, <2>2, <2>4 DEF Lasting, SharedAt
  <2>6. ~Conflicts(entries[a], KeyOf(v)) => ~Conflicts(entries'[a], KeyOf(v))
    BY DEF Conflicts, NobodyNew
  <2> QED
    BY <2>1, <2>2, <2>3, <2>5, <2>6 DEF SharedAt
<1>2. ASSUME NEW a \in Account PROVE SharedOn(a)'
  <2>1. ASSUME NEW c \in entries'[a].connections
        PROVE  upgrades'[c.id].served = ledgers'[a] /\ ledgers'[a] # NoLedger
    <3>1. PICK d \in entries[a].connections : d.id = c.id /\ d.ride = c.ride
      BY DEF NobodyNew
    <3>2. d.id \in Conn
      BY DEF IInv, LeaseInv, Entry, Record
    <3>3. upgrades[d.id].served = ledgers[a] /\ ledgers[a] # NoLedger
      BY DEF Shared, SharedOn
    <3>4. upgrades'[d.id].served = upgrades[d.id].served
      BY <3>2 DEF Others
    <3>5. ledgers'[a] = ledgers[a]
      BY <3>3 DEF Lasting
    <3> QED
      BY <3>1, <3>3, <3>4, <3>5
  <2>2. \A c, d \in entries'[a].connections : River(c.ride) = River(d.ride) => c.ride = d.ride
    BY DEF NobodyNew, Shared, SharedOn
  <2> QED
    BY <2>1, <2>2 DEF SharedOn
<1> QED
  BY <1>1, <1>2 DEF Shared

\* An upgrade that carries on to no commit has nothing new to show.
LEMMA StaysShared ==
  ASSUME IInv, Shared, NEW u \in Conn, Carries(u), \A a \in Account : NobodyNew(a),
         upgrades'[u].step = "committing" =>
           upgrades[u].step = "committing" /\ UNCHANGED ledgers,
         upgrades'[u].step \in Reserved => upgrades[u].step \in Reserved
  PROVE  SharedAt(u)'
<1>1. SharedAt(u) /\ AccountOf(u) \in Account
  BY AsksTyped DEF Shared, IInv
<1>2. PICK a \in Account : a = AccountOf(u)
  BY <1>1
<1>3. AccountOf(u)' = a /\ KeyOf(u)' = KeyOf(u)
  BY <1>1, <1>2 DEF AccountOf, KeyOf, Carries
<1>4. ~Conflicts(entries[a], KeyOf(u)) => ~Conflicts(entries'[a], KeyOf(u))
  BY DEF Conflicts, NobodyNew
<1> QED
  BY <1>1, <1>2, <1>3, <1>4 DEF SharedAt, Carries

\* Nor has one that has ended.
LEMMA EndsShared ==
  ASSUME IInv, NEW u \in Conn, NEW to \in {"refused", "left"}, Ends(u, to)
  PROVE  SharedAt(u)'
<1>1. /\ [NotBegun EXCEPT !.step = to].step = to
      /\ [NotBegun EXCEPT !.step = to].resetting = FALSE
  BY DEF NotBegun
<1> HIDE DEF NotBegun
<1>2. upgrades'[u].step = to /\ ~upgrades'[u].resetting
  BY <1>1 DEF Ends, IInv, Typed
<1> QED
  BY <1>2 DEF SharedAt, Reserved

\* The steps that carry what is served and register nobody.
LEMMA KeepsShared ==
  ASSUME IInv, Shared, NEW u \in Conn, NEW from, NEW to, Keeps(u, from, to),
         UNCHANGED ledgers, \A a \in Account : NobodyNew(a),
         to = "committing" => from = "committing",
         to \in Reserved => from \in Reserved
  PROVE  Shared'
<1>1. SharedAt(u)'
  BY StaysShared DEF Keeps
<1>2. Lasting
  BY DEF Lasting
<1> QED
  BY <1>1, <1>2, OneShared DEF Keeps, Carries

\* The steps that end an upgrade that is not on record.
LEMMA QuitShared ==
  ASSUME IInv, Shared, NEW u \in Conn, NEW to \in {"refused", "left"}, Ends(u, to),
         upgrades[u].step \notin Booked,
         UNCHANGED ledgers, \A a \in Account : NobodyNew(a)
  PROVE  Shared'
<1>1. Others(u) /\ SharedAt(u)'
  BY EndsShared DEF Ends, Others, IInv, Typed
<1>2. Lasting
  BY DEF Lasting
<1>3. \A a \in Account : \A c \in entries[a].connections : c.id # u
  BY DEF IInv, Riders
<1> QED
  BY <1>1, <1>2, <1>3, OneShared

\* Every account has the records it had.
LEMMA QuietNobody ==
  ASSUME UNCHANGED registryVars
  PROVE  \A a \in Account : NobodyNew(a)
BY DEF registryVars, NobodyNew

\* So have all the others when a step is about one.
LEMMA ElsewhereNobody ==
  ASSUME NEW a \in Account, Elsewhere(a), NobodyNew(a)
  PROVE  \A b \in Account : NobodyNew(b)
BY DEF Elsewhere, NobodyNew

LEMMA DialShared ==
  ASSUME IInv, Shared, NEW u \in Conn, NEW r \in Requests, Dial(u, r)
  PROVE  Shared'
<1> DEFINE a == r.account
           n == [NotBegun EXCEPT !.step = "deciding", !.asks = r,
                                 !.observed = Opened(a).incarnation]
<1>1. a \in Account
  BY UpgradeAssumption DEF Request
<1>2. Ensure(a) /\ At(u, "idle") /\ upgrades' = [upgrades EXCEPT ![u] = n]
      /\ UNCHANGED ledgers
  BY DEF Dial, runVars
<1>3. n.step = "deciding" /\ n.resetting = FALSE
  BY DEF NotBegun
<1> HIDE DEF n
<1>4. Others(u) /\ upgrades'[u] = n
  BY <1>2 DEF IInv, Typed, Others
<1>5. \A b \in Account : NobodyNew(b)
  BY <1>1, <1>2, EnsureStep, ElsewhereNobody DEF IInv
<1>6. SharedAt(u)'
  BY <1>3, <1>4 DEF SharedAt, Reserved
<1>7. \A b \in Account : \A c \in entries[b].connections : c.id # u
  BY <1>2 DEF IInv, Riders, At, Booked
<1> QED
  BY <1>2, <1>4, <1>5, <1>6, <1>7, OneShared DEF Lasting

LEMMA DecideShared ==
  ASSUME IInv, Shared, ~resets, NEW u \in Conn, Decide(u)
  PROVE  Shared'
<1>1. /\ Goes(u, "deciding", "checking") /\ UNCHANGED registryVars /\ UNCHANGED ledgers
  BY DecideShape DEF IInv, Decide, runVars
<1>2. upgrades'[u].resetting = FALSE
  BY DEF Decide, IInv, Typed, Upgrading
<1>3. SharedAt(u)'
  BY <1>1, <1>2 DEF SharedAt, Goes, Reserved
<1>4. \A b \in Account : \A c \in entries[b].connections : c.id # u
  BY <1>1 DEF IInv, Riders, Goes, Booked
<1> QED
  BY <1>1, <1>3, <1>4, QuietNobody, OneShared DEF Lasting, Goes

LEMMA CheckShared ==
  ASSUME IInv, Shared, NEW u \in Conn, Check(u)
  PROVE  Shared'
<1>1. At(u, "checking") /\ UNCHANGED registryVars /\ UNCHANGED ledgers
  BY DEF Check, runVars
<1>2. CASE Ends(u, "refused")
  BY <1>1, <1>2, QuitShared, QuietNobody DEF At, Booked
<1>3. CASE ~Ends(u, "refused")
  <2>1. /\ Others(u)
        /\ upgrades'[u].step = "reserving"
        /\ upgrades'[u].resetting = upgrades[u].resetting
    BY <1>3 DEF Check, IInv, Typed, Others, Upgrading
  <2>2. SharedAt(u)'
    BY <2>1 DEF SharedAt, Reserved, Shared
  <2>3. \A b \in Account : \A c \in entries[b].connections : c.id # u
    BY <1>1 DEF IInv, Riders, At, Booked
  <2> QED
    BY <1>1, <2>1, <2>2, <2>3, QuietNobody, OneShared DEF Lasting
<1> QED
  BY <1>2, <1>3

\* A reservation is granted of an account with no second boat of the river.
LEMMA ReservationShared ==
  ASSUME IInv, Shared, NEW u \in Conn, TakeReservation(u)
  PROVE  Shared'
<1>0. PICK a \in Account : a = AccountOf(u)
  BY AsksTyped DEF IInv
<1> DEFINE r == upgrades[u]
           granted == ReserveAnswer(Opened(a), KeyOf(u), r.resetting, r.observed) = "reserved"
<1>1. /\ a \in Account /\ KeyOf(u) \in Key /\ r.resetting \in BOOLEAN /\ r.observed \in Nat
      /\ ~r.resetting
  BY AsksTyped DEF IInv, Shared, SharedAt
<1>2. /\ At(u, "reserving") /\ Reserve(a, u, KeyOf(u), r.resetting, r.observed)
      /\ IF granted THEN Moves(u, "boarding") ELSE Ends(u, "refused")
      /\ UNCHANGED ledgers
  BY <1>0 DEF TakeReservation, runVars
<1>3. \A b \in Account : NobodyNew(b)
  BY <1>1, <1>2, ReserveStep, ElsewhereNobody DEF IInv
<1>4. CASE ~granted
  BY <1>2, <1>3, <1>4, QuitShared DEF At, Booked
<1>5. CASE granted
  <2>1. Keeps(u, "reserving", "boarding")
    BY <1>2, <1>5, MovesKeeps
  <2>2. ~Conflicts(Opened(a), KeyOf(u))
    BY <1>1, <1>5 DEF ReserveAnswer
  <2>3. ~Conflicts(entries'[a], KeyOf(u))
    <3>1. entries'[a].connections = Opened(a).connections
      <4>1. Leased(Opened(a))
        BY <1>1, OpenedLeased DEF IInv
      <4> QED
        BY <1>1, <1>2, <4>1 DEF Reserve, IInv, LeaseInv, Leased, Counted, Entry
    <3> QED
      BY <2>2, <3>1 DEF Conflicts
  <2>4. AccountOf(u)' = a /\ KeyOf(u)' = KeyOf(u)
    BY <1>0, <2>1 DEF Keeps, Carries, AccountOf, KeyOf
  <2>5. SharedAt(u)'
    BY <1>1, <2>1, <2>3, <2>4 DEF SharedAt, Keeps, Carries
  <2> QED
    BY <1>2, <1>3, <2>1, <2>5, OneShared DEF Lasting, Keeps, Carries
<1> QED
  BY <1>4, <1>5

\* The ledger obtained is the one in the map.
LEMMA ObtainShared ==
  ASSUME IInv, Shared, NEW u \in Conn, Obtain(u)
  PROVE  Shared'
<1>0. PICK a \in Account : a = AccountOf(u)
  BY AsksTyped DEF IInv
<1>1. At(u, "obtaining") /\ \A b \in Account : NobodyNew(b)
  BY ObtainLedgers, QuietNobody DEF Obtain
<1>2. Lasting
  BY ObtainLedgers DEF Lasting
<1>3. AccountOf(u)' = a /\ KeyOf(u)' = KeyOf(u)
  BY <1>0, ObtainLedgers DEF AccountOf, KeyOf
<1>4. ~Conflicts(entries[a], KeyOf(u)) /\ ~upgrades[u].resetting
  BY <1>0, <1>1 DEF Shared, SharedAt, At, Reserved
<1>5. SharedAt(u)'
  BY <1>0, <1>3, <1>4, ObtainLedgers DEF SharedAt, registryVars
<1>6. \A b \in Account : \A c \in entries[b].connections : c.id # u
  BY <1>1 DEF IInv, Riders, At, Booked
<1> QED
  BY <1>1, <1>2, <1>5, <1>6, ObtainLedgers, OneShared

\* A commit puts on record whoever was obtained the ledger in the map.
LEMMA CommitShared ==
  ASSUME IInv, IInv', Shared, NEW u \in Conn, Commit(u)
  PROVE  Shared'
<1>0. PICK a \in Account : a = AccountOf(u)
  BY AsksTyped DEF IInv
<1> DEFINE r == upgrades[u]
<1>1. /\ a \in Account /\ KeyOf(u) \in Key /\ u # NoConn
      /\ r.asks.callsign \in Callsign \cup {NoCallsign} /\ r.asks.named \in BOOLEAN
      /\ r.resetting \in BOOLEAN /\ r.observed \in Nat
  BY AsksTyped, SocketsAssumption DEF IInv
<1>2. /\ At(u, "committing") /\ Keeps(u, "committing", "installing") /\ UNCHANGED ledgers
      /\ Install(a, u, r.asks.callsign, KeyOf(u), r.resetting, r.observed, r.asks.named)
  BY <1>0, MovesKeeps DEF Commit, KeyOf, runVars
<1>3. ~Registered(a, u)
  BY <1>1, <1>2 DEF IInv, Riders, At, Booked, Registered
<1>4. /\ Elsewhere(a) /\ entries[a].pending = u
      /\ \A c \in entries'[a].connections :
           (c.id = u /\ c.ride = KeyOf(u)) \/ c \in entries[a].connections
  BY <1>1, <1>2, <1>3, InstallStep DEF IInv
<1>5. /\ r.served = ledgers[a] /\ r.served # NoLedger /\ ~r.resetting
      /\ ~Conflicts(entries[a], KeyOf(u))
  BY <1>0, <1>2 DEF Shared, SharedAt, At, Reserved
<1>6. \A v \in Conn : upgrades'[v].served = upgrades[v].served
  BY <1>2 DEF Keeps, Others, Carries
<1>7. ASSUME NEW v \in Conn PROVE SharedAt(v)'
  <2>1. CASE v = u
    BY <1>2, <1>5, <2>1 DEF SharedAt, Keeps, Carries, Reserved
  <2>2. CASE v # u
    <3>1. upgrades'[v] = upgrades[v]
      BY <1>2, <2>2 DEF Keeps, Others
    <3>2. upgrades[v].step \in Reserved => AccountOf(v) # a
      BY <1>4, <2>2 DEF IInv, Holders, Holds
    <3>3. upgrades[v].step \in Reserved => entries'[AccountOf(v)] = entries[AccountOf(v)]
      BY <1>4, <3>2, AsksTyped DEF Elsewhere, IInv
    <3>4. AccountOf(v)' = AccountOf(v) /\ KeyOf(v)' = KeyOf(v)
      BY <3>1 DEF AccountOf, KeyOf
    <3>5. SharedAt(v)
      BY DEF Shared
    <3> QED
      BY <1>2, <3>1, <3>3, <3>4, <3>5 DEF SharedAt, Reserved
  <2> QED
    BY <2>1, <2>2
<1>8. ASSUME NEW b \in Account PROVE SharedOn(b)'
  <2>1. \A c \in entries[b].connections : c.id \in Conn
    BY DEF IInv, LeaseInv, Entry, Record
  <2>2. SharedOn(b)
    BY DEF Shared
  <2>3. CASE b # a
    BY <1>2, <1>4, <1>6, <2>1, <2>2, <2>3 DEF SharedOn, Elsewhere
  <2>4. CASE b = a
    <3>1. ASSUME NEW c \in entries'[a].connections
          PROVE  upgrades'[c.id].served = ledgers'[a] /\ ledgers'[a] # NoLedger
      BY <1>2, <1>4, <1>5, <1>6, <2>1, <2>2, <2>4 DEF SharedOn
    <3>2. ASSUME NEW c \in entries'[a].connections, NEW d \in entries'[a].connections,
                 River(c.ride) = River(d.ride)
          PROVE  c.ride = d.ride
      BY <1>4, <1>5, <2>2, <2>4, <3>2 DEF SharedOn, Conflicts
    <3> QED
      BY <2>4, <3>1, <3>2 DEF SharedOn
  <2> QED
    BY <2>3, <2>4
<1> QED
  BY <1>7, <1>8 DEF Shared


\* Every step of an upgrade keeps what is shared.
LEMMA UpgradeShared ==
  ASSUME IInv, IInv', Checked, Shared, ~resets, NEW u \in Conn,
         VenueStep(u) \/ ClientGone(u) \/ Hangup(u)
  PROVE  Shared'
<1>0. PICK a \in Account : a = AccountOf(u)
  BY AsksTyped DEF IInv
<1>a. ASSUME Refuse(u) PROVE \A b \in Account : NobodyNew(b)
  BY <1>0, <1>a, RollbackStep, ElsewhereNobody DEF Refuse, IInv
<1>b. ASSUME Release(AccountOf(u), u) \/ BeginReading(AccountOf(u), u)
      PROVE  \A b \in Account : NobodyNew(b)
  BY <1>0, <1>b, ReleaseStep, BeginReadingStep, ElsewhereNobody DEF IInv
<1>c. ASSUME Refuse(u), upgrades[u].step \in {"boarding", "joining", "placing"}, UNCHANGED ledgers
      PROVE  Shared'
  BY <1>a, <1>c, QuitShared DEF Refuse, Booked
<1>d. ASSUME Release(AccountOf(u), u) \/ BeginReading(AccountOf(u), u),
             NEW from \in Booked, At(u, from), NEW to \in {"serving", "leaving"}, Moves(u, to),
             UNCHANGED ledgers
      PROVE  Shared'
  <2>1. Keeps(u, from, to)
    BY <1>d, MovesKeeps
  <2> QED
    BY <1>b, <1>d, <2>1, KeepsShared DEF Reserved
<1> USE DEF Reserved, Booked, At
<1>1. ASSUME Board(u) PROVE Shared'
  <2>1. UNCHANGED ledgers /\ At(u, "boarding")
    BY <1>1 DEF Board, runVars
  <2> QED
    BY <1>1, <1>c, <2>1, BoardKeeps, KeepsShared, QuietNobody
<1>2. ASSUME Wake(u) PROVE Shared'
  <2>1. UNCHANGED ledgers /\ UNCHANGED registryVars
    BY <1>2 DEF Wake, runVars
  <2> QED
    BY <1>2, <2>1, WakeKeeps, KeepsShared, QuietNobody
<1>3. ASSUME Placed(u) PROVE Shared'
  <2>1. UNCHANGED ledgers /\ At(u, "placing")
    BY <1>3 DEF Placed, runVars
  <2> QED
    BY <1>3, <1>c, <2>1, PlacedKeeps, KeepsShared, QuietNobody
<1>4. ASSUME HandOver(u) PROVE Shared'
  <2>1. UNCHANGED ledgers /\ At(u, "installing")
    BY <1>4 DEF HandOver, runVars
  <2>2. CASE upgrades[u].abandoned
    BY <1>4, <1>d, <2>1, <2>2 DEF HandOver
  <2>3. CASE ~upgrades[u].abandoned
    <3>1. Moves(u, "crossing") /\ UNCHANGED registryVars
      BY <1>4, <2>3 DEF HandOver
    <3>2. Keeps(u, "installing", "crossing")
      BY <2>1, <3>1, MovesKeeps
    <3> QED
      BY <2>1, <3>1, <3>2, KeepsShared, QuietNobody
  <2> QED
    BY <2>2, <2>3
<1>5. ASSUME ClientGone(u) PROVE Shared'
  <2>1. UNCHANGED ledgers
    BY <1>5 DEF ClientGone, runVars
  <2>2. CASE At(u, "checking") /\ Ends(u, "refused") /\ UNCHANGED registryVars
    BY <2>1, <2>2, QuitShared, QuietNobody
  <2>3. CASE upgrades[u].step \in {"joining", "placing"} /\ Refuse(u)
    BY <1>c, <2>1, <2>3
  <2>4. CASE upgrades' = [upgrades EXCEPT ![u].abandoned = TRUE] /\ UNCHANGED registryVars
    BY <2>1, <2>4, AbandonKeeps, KeepsShared, QuietNobody
  <2>5. CASE At(u, "crossing") /\ Release(AccountOf(u), u) /\ Moves(u, "leaving")
    BY <1>d, <2>1, <2>5
  <2> QED
    BY <1>5, <2>2, <2>3, <2>4, <2>5 DEF ClientGone
<1>6. ASSUME Bind(u) PROVE Shared'
  <2>1. UNCHANGED ledgers /\ At(u, "crossing")
    BY <1>6 DEF Bind, runVars
  <2> QED
    BY <1>6, <1>d, <2>1 DEF Bind
<1>7. ASSUME EndServing(u) PROVE Shared'
  <2>1. UNCHANGED ledgers /\ At(u, "serving")
    BY <1>7 DEF EndServing, runVars
  <2> QED
    BY <1>7, <1>d, <2>1 DEF EndServing
<1>8. ASSUME Leave(u) PROVE Shared'
  <2>1. UNCHANGED ledgers /\ UNCHANGED registryVars /\ At(u, "leaving")
    BY <1>8 DEF Leave, runVars
  <2> QED
    BY <1>8, <2>1, QuitShared, QuietNobody DEF Leave
<1>9. ~Discard(u)
  BY DEF Discard, Checked, CheckedAt, Shared, SharedAt
<1> HIDE DEF Reserved, Booked, At
<1> QED
  BY <1>1, <1>2, <1>3, <1>4, <1>5, <1>6, <1>7, <1>8, <1>9, DecideShared, CheckShared,
     ReservationShared, ObtainShared, CommitShared
  DEF VenueStep, Closed, Hangup

\* The sweep takes a ledger away from nobody, and the endpoint replaces none.
LEMMA AccountShared ==
  ASSUME IInv, Shared, NEW a \in Account, CollectExpired(a) \/ OpenAccount(a)
  PROVE  Shared'
<1>1. UNCHANGED upgrades
  BY DEF CollectExpired, OpenAccount
<1>2. ASSUME Collect(a), ledgers' = [ledgers EXCEPT ![a] = NoLedger]
      PROVE  Lasting /\ \A b \in Account : NobodyNew(b)
  <2>1. Elsewhere(a) /\ NobodyNew(a) /\ entries[a].pending = NoConn
    BY <1>2, CollectStep DEF IInv
  <2>2. entries'[a].connections = {}
    BY <1>2 DEF Collect, NoEntry, IInv, LeaseInv
  <2>3. \A b \in Account : b # a => ledgers'[b] = ledgers[b]
    BY <1>2 DEF IInv, Typed
  <2> QED
    BY <2>1, <2>2, <2>3, ElsewhereNobody DEF Lasting
<1>3. ASSUME OpenAccount(a) PROVE Lasting /\ \A b \in Account : NobodyNew(b)
  <2>1. Elsewhere(a) /\ NobodyNew(a)
    BY <1>3, EnsureStep DEF OpenAccount, Opening, IInv
  <2>2. \A b \in Account : ledgers[b] # NoLedger => ledgers'[b] = ledgers[b]
    BY <1>3 DEF OpenAccount, Opening, IInv, Typed
  <2> QED
    BY <2>1, <2>2, ElsewhereNobody DEF Lasting
<1>4. Lasting /\ \A b \in Account : NobodyNew(b)
  BY <1>2, <1>3, QuietNobody DEF CollectExpired, Lasting
<1>5. ASSUME NEW u \in Conn PROVE SharedAt(u)'
  <2>1. SharedAt(u) /\ AccountOf(u) \in Account /\ u # NoConn
    BY AsksTyped, SocketsAssumption DEF Shared, IInv
  <2>2. PICK b \in Account : b = AccountOf(u)
    BY <2>1
  <2>3. upgrades[u].step = "committing" => entries[b].pending = u
    BY <2>2 DEF IInv, Holders, Holds, Reserved
  <2>4. upgrades[u].step = "committing" => ledgers'[b] = ledgers[b]
    BY <1>4, <2>1, <2>2, <2>3 DEF Lasting, SharedAt
  <2>5. ~Conflicts(entries[b], KeyOf(u)) => ~Conflicts(entries'[b], KeyOf(u))
    BY <1>4 DEF Conflicts, NobodyNew
  <2>6. AccountOf(u)' = b /\ KeyOf(u)' = KeyOf(u)
    BY <1>1, <2>2 DEF AccountOf, KeyOf
  <2> QED
    BY <1>1, <2>1, <2>2, <2>4, <2>5, <2>6 DEF SharedAt
<1>6. ASSUME NEW b \in Account PROVE SharedOn(b)'
  BY <1>1, <1>4 DEF Shared, SharedOn, Lasting, NobodyNew
<1> QED
  BY <1>5, <1>6 DEF Shared
------------------------------------------------------------------------------
(* The invariant of the ledgers.                                           *)

LEMMA InitLedger ==
  ASSUME Init
  PROVE  LedgerInv
<1>1. /\ \A u \in Conn : /\ upgrades[u].step = "idle" /\ upgrades[u].observed = 0
                        /\ upgrades[u].resetting = FALSE
      /\ minted = 0 /\ \A a \in Account : entries[a].connections = {}
      /\ IncarnationsFresh
  BY DEF Init, NotBegun, RegistryInit, NoEntry, IncarnationsFresh
<1>2. "idle" \notin Read \cup Served \cup {"discarding"}
  BY DEF Read, Served, Reserved, Booked
<1>3. Checked
  BY <1>1, <1>2 DEF Checked, CheckedAt
<1>4. Shared
  BY <1>1, <1>2 DEF Shared, SharedAt, SharedOn, Read, Served
<1> QED
  BY <1>1, <1>3, <1>4 DEF LedgerInv

LEMMA NextLedger ==
  ASSUME IInv, IInv', LedgerInv, [Next]_vars, [RegistryNext]_registryVars
  PROVE  LedgerInv'
<1>1. IncarnationsFresh'
  BY NextFresh DEF IInv, LedgerInv
<1> SUFFICES Checked' /\ (~resets => Shared') /\ resets' = resets
  BY <1>1 DEF LedgerInv
<1>2. ASSUME NEW u \in Conn, NEW r \in Requests, Dial(u, r)
      PROVE  Checked' /\ (~resets => Shared') /\ resets' = resets
  BY <1>2, DialChecked, DialShared DEF LedgerInv, Dial, runVars
<1>3. ASSUME NEW u \in Conn, VenueStep(u) \/ ClientGone(u) \/ Hangup(u)
      PROVE  Checked' /\ (~resets => Shared') /\ resets' = resets
  <2>1. resets' = resets
    BY <1>3 DEF VenueStep, ClientGone, Hangup, Decide, Check, TakeReservation, Board, Wake,
                Placed, Discard, Obtain, Commit, HandOver, Bind, Closed, EndServing, Leave,
                runVars
  <2> QED
    BY <1>3, <2>1, UpgradeChecked, UpgradeShared DEF LedgerInv
<1>4. ASSUME NEW a \in Account, CollectExpired(a) \/ OpenAccount(a)
      PROVE  Checked' /\ (~resets => Shared') /\ resets' = resets
  BY <1>4, AccountChecked, AccountShared DEF LedgerInv, CollectExpired, OpenAccount
<1>5. ASSUME UNCHANGED <<registryVars, runVars, upgrades>>
      PROVE  Checked' /\ (~resets => Shared') /\ resets' = resets
  <2>1. /\ entries' = entries /\ minted' = minted /\ ledgers' = ledgers /\ resets' = resets
        /\ upgrades' = upgrades
    BY <1>5 DEF registryVars, runVars
  <2>2. Checked'
    BY <2>1 DEF LedgerInv, Checked, CheckedAt, Intact, Discarded, AccountOf
  <2>3. ~resets => Shared'
    BY <2>1 DEF LedgerInv, Shared, SharedAt, SharedOn, AccountOf, KeyOf
  <2> QED
    BY <2>1, <2>2, <2>3
<1>6. ReadExpired \/ (\E u \in Conn : Announce(u)) \/ UNCHANGED vars
        => UNCHANGED <<registryVars, runVars, upgrades>>
  BY DEF ReadExpired, Announce, vars
<1> QED
  BY <1>2, <1>3, <1>4, <1>5, <1>6 DEF Next

\* Whoever's checks read a ledger is served that ledger, and on a venue that
\* resets nothing one account is one ledger, and one boat of each river.
THEOREM LedgersServedAsChecked == Spec => []LedgerAsChecked
<1>1. LedgerInv => LedgerAsChecked
  <2> SUFFICES ASSUME LedgerInv PROVE LedgerAsChecked
    OBVIOUS
  <2>1. \A u \in Conn :
          upgrades[u].step \in {"committing", "installing", "crossing", "serving"} =>
            upgrades[u].checked \in {NoLedger, upgrades[u].served}
    BY DEF LedgerInv, Checked, CheckedAt, Served, Booked
  <2>2. ~resets => \A a \in Account : \A c, d \in entries[a].connections :
          /\ upgrades[c.id].served = ledgers[a]
          /\ River(c.ride) = River(d.ride) => c.ride = d.ride
    BY DEF LedgerInv, Shared, SharedOn
  <2> QED
    BY <2>1, <2>2 DEF LedgerAsChecked
<1>2. Init => IInv /\ YInv /\ LedgerInv
  BY InitInv, InitLedger
<1>3. IInv /\ YInv /\ LedgerInv /\ [Next]_vars => (IInv /\ YInv /\ LedgerInv)'
  BY NextInv, NextLedger
<1> QED
  BY <1>1, <1>2, <1>3, PTL DEF Spec
==============================================================================
