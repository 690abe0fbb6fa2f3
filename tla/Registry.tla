------------------------------ MODULE Registry ------------------------------
(***************************************************************************)
(* The connection registry of the venue (mogwai-venue/src/registry.rs):    *)
(* who is reading each account, which admission holds it exclusively, and  *)
(* which ledger the admission's checks were made against.                  *)
(*                                                                         *)
(* Every operation takes the registry's mutex once, so each is one action, *)
(* written over the record of one account.                                 *)
(***************************************************************************)
EXTENDS Sockets

CONSTANTS
  Account,
  Callsign,
  NoCallsign     \* a socket that names none

ASSUME RegistryAssumption == NoCallsign \notin Callsign

VARIABLES
  entries,   \* the record of each account
  minted     \* incarnations handed out so far, by one counter for all accounts

registryVars == <<entries, minted>>

Phases == {"committed", "reading"}
Record == [id : Conn, callsign : Callsign \cup {NoCallsign}, ride : Key,
           phase : Phases]
Entry == [open : BOOLEAN, incarnation : Nat, connections : SUBSET Record,
          pending : Conn \cup {NoConn}, handoffs : Nat, frozen : BOOLEAN]
NoEntry == [open |-> FALSE, incarnation |-> 0, connections |-> {},
            pending |-> NoConn, handoffs |-> 0, frozen |-> FALSE]

RegistryTypeOK == entries \in [Account -> Entry] /\ minted \in Nat

RegistryInit == entries = [a \in Account |-> NoEntry] /\ minted = 0
----------------------------------------------------------------------------
(* What is derived from the record of an account.                          *)

Readers(e) == {c \in e.connections : c.phase = "reading"}
Handoffs(e) == {c \in e.connections : c.phase = "committed"}
Attended(e) == Readers(e) # {} \/ e.handoffs > 0

\* The freeze stamp is set when an account becomes unattended and cleared when
\* it is attended again; only whether there is one is kept.
SettleAttendance(e) == [e EXCEPT !.frozen = ~Attended(e)]

\* The entry of an account as every operation but the releases finds it: one
\* that is not there is created, unattended, under an incarnation of its own.
Opened(a) == IF entries[a].open THEN entries[a]
             ELSE [NoEntry EXCEPT !.open = TRUE, !.incarnation = minted + 1,
                                  !.frozen = TRUE]
MintedFor(a) == IF entries[a].open THEN minted ELSE minted + 1

HasCallsign(a, callsign) ==
  \E c \in entries[a].connections : c.callsign = callsign
----------------------------------------------------------------------------
\* ensure, incarnation: open the account's entry if there is none.
Ensure(a) ==
  /\ entries' = [entries EXCEPT ![a] = Opened(a)]
  /\ minted' = MintedFor(a)

\* A ride of the account on the same river at another speed or placement.
Conflicts(e, key) ==
  \E c \in e.connections : River(c.ride) = River(key) /\ c.ride # key

\* Slip: the incarnation is recorded and not compared.
ReserveBlindly(e, key, resetting, observed) ==
  IF e.pending # NoConn THEN "busy"
  ELSE IF ~resetting /\ Conflicts(e, key) THEN "conflict" ELSE "reserved"

\* What reserve answers of an account, in the order it asks.
ReserveAnswer(e, key, resetting, observed) ==
  IF e.pending # NoConn THEN "busy"
  ELSE IF e.incarnation # observed THEN "moved"
  ELSE IF ~resetting /\ Conflicts(e, key) THEN "conflict" ELSE "reserved"

Reserve(a, u, key, resetting, observed) ==
  LET e == Opened(a)
  IN  /\ entries' = [entries EXCEPT ![a] =
                      IF ReserveAnswer(e, key, resetting, observed) = "reserved"
                        THEN [e EXCEPT !.pending = u] ELSE e]
      /\ minted' = MintedFor(a)

\* Whom a commit displaces: everyone, unless both sides name the same callsign.
Evicted(e, callsign, evicts) ==
  {c \in e.connections :
     evicts /\ ~(c.callsign # NoCallsign /\ c.callsign = callsign)}

Installed(e, u, callsign, key, evicts) ==
  LET gone == Evicted(e, callsign, evicts)
      surrendered == Cardinality(gone \cap Handoffs(e))
  IN  [e EXCEPT !.pending = NoConn,
                !.connections = (@ \ gone)
                  \cup {[id |-> u, callsign |-> callsign, ride |-> key,
                         phase |-> "committed"]},
                !.handoffs = (IF @ < surrendered THEN 0 ELSE @ - surrendered) + 1]

\* Whether the reservation u holds is still the one the account knows.
Holds(a, u, observed) ==
  /\ entries[a].open
  /\ entries[a].pending = u
  /\ entries[a].incarnation = observed

\* commit, when the reservation still holds.
Install(a, u, callsign, key, resetting, observed, evicts) ==
  /\ Holds(a, u, observed)
  /\ entries' = [entries EXCEPT ![a] =
       SettleAttendance(
         [Installed(entries[a], u, callsign, key, evicts) EXCEPT
            !.incarnation = IF resetting THEN minted + 1 ELSE @])]
  /\ minted' = IF resetting THEN minted + 1 ELSE minted

\* The connections a commit displaces that have lanes to close.
Displaced(a, callsign, evicts) ==
  {c.id : c \in Evicted(entries[a], callsign, evicts) \cap Readers(entries[a])}

\* Dropping a reservation that never committed.
RolledBack(e, u) ==
  SettleAttendance([e EXCEPT !.pending = IF @ = u THEN NoConn ELSE @])

Rollback(a, u) ==
  /\ entries' = [entries EXCEPT ![a] = IF @.open THEN RolledBack(@, u) ELSE @]
  /\ UNCHANGED minted

Registered(a, u) == \E c \in entries[a].connections : c.id = u
RecordOf(a, u) == CHOOSE c \in entries[a].connections : c.id = u

\* Slip: the handoff outlives the arrival it was waiting for.
ReadingStill(e, c) ==
  [e EXCEPT !.connections = (@ \ {c}) \cup {[c EXCEPT !.phase = "reading"]}]

\* The record of a connection that reaches its reading boundary.
ReadingNow(e, c) ==
  IF c.phase = "reading" THEN e
  ELSE [e EXCEPT !.connections = (@ \ {c}) \cup {[c EXCEPT !.phase = "reading"]},
                 !.handoffs = IF @ = 0 THEN 0 ELSE @ - 1]

BeginReading(a, u) ==
  /\ entries' = IF Registered(a, u)
                  THEN [entries EXCEPT ![a] =
                         SettleAttendance(ReadingNow(@, RecordOf(a, u)))]
                  ELSE entries
  /\ UNCHANGED minted

\* Slip: every connection gives back a handoff as it goes.
WithoutTwice(e, c) == [e EXCEPT !.connections = @ \ {c}, !.handoffs = @ - 1]

\* The record of a connection that is gone.
Without(e, c) ==
  [e EXCEPT !.connections = @ \ {c},
            !.handoffs = IF c.phase = "committed" /\ @ > 0 THEN @ - 1 ELSE @]

\* release: idempotent, because two owners of a connection may call it.
Release(a, u) ==
  /\ entries' =
       IF ~entries[a].open THEN entries
       ELSE [entries EXCEPT ![a] =
              SettleAttendance(IF Registered(a, u) THEN Without(@, RecordOf(a, u))
                               ELSE @)]
  /\ UNCHANGED minted

\* Slip: the sweep's reading of the past is trusted.
CollectableByStamp(e) == e.open /\ ~Attended(e)

\* What collect asks again under the lock.
Collectable(e) == e.open /\ e.pending = NoConn /\ ~Attended(e)

Collect(a) ==
  /\ Collectable(entries[a])
  /\ entries' = [entries EXCEPT ![a] = NoEntry]
  /\ UNCHANGED minted
----------------------------------------------------------------------------
(* The registry alone, called in any order its callers might use.          *)

RegistryNext ==
  \E a \in Account :
    \/ Ensure(a)
    \/ Collect(a)
    \/ \E u \in Conn :
         \/ Rollback(a, u)
         \/ BeginReading(a, u)
         \/ Release(a, u)
         \/ \E key \in Key, resetting \in BOOLEAN, observed \in Nat :
              \/ Reserve(a, u, key, resetting, observed)
              \/ /\ ~\E b \in Account : Registered(b, u)
                 /\ \E callsign \in Callsign \cup {NoCallsign}, evicts \in BOOLEAN :
                      Install(a, u, callsign, key, resetting, observed, evicts)

RegistrySpec == RegistryInit /\ [][RegistryNext]_registryVars
----------------------------------------------------------------------------
(* Safety of the registry whatever its callers do.                         *)

\* The lease is exact: the stored count of handoffs is the number of records
\* that have committed and do not read yet, so none of the saturating
\* subtractions ever hides a handoff given back twice or never, and an
\* account is stamped frozen exactly while nobody is on it
\* (registry.rs settle_attendance, commit, begin_reading, release).
LeaseExact ==
  \A a \in Account :
    /\ entries[a].handoffs = Cardinality(Handoffs(entries[a]))
    /\ entries[a].open => (entries[a].frozen <=> entries[a].connections = {})

\* No two entries ever share an incarnation, and none outruns the counter, so
\* an entry born again after a collection never passes for its predecessor.
IncarnationsFresh ==
  \A a, b \in Account :
    entries[a].open =>
      /\ entries[a].incarnation \in 1..minted
      /\ entries[b].open /\ entries[a].incarnation = entries[b].incarnation => a = b
============================================================================
