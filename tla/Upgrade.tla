------------------------------ MODULE Upgrade ------------------------------
(***************************************************************************)
(* A socket's life on the venue, from the dial to the dropped ticket       *)
(* (mogwai-venue ws.rs, run.rs), over the connection registry and the      *)
(* boatyard: the checks against the account's ledger, the reservation, the *)
(* placement, the tail that replaces the ledger and commits, the reading   *)
(* boundary, eviction and teardown, with the TTL sweep and the HTTP        *)
(* account endpoint beside it.                                             *)
(*                                                                         *)
(* Each upgrade is a task; a step runs from one lock or await to the next. *)
(* The client may go away wherever the handler awaits, which drops the     *)
(* handler's future there; the tail is a task of its own and runs on.      *)
(***************************************************************************)
EXTENDS Registry, Boatyard

CONSTANTS
  Requests,    \* what a dial may ask for
  MaxLedgers   \* bound on the ledgers opened when POST /accounts opens one

Request == [account : Account, callsign : Callsign \cup {NoCallsign},
            key : Key, named : BOOLEAN]

ASSUME UpgradeAssumption ==
  Requests \subseteq Request /\ Requests # {} /\ MaxLedgers \in Nat

VARIABLES
  resets,    \* the operator's reset_account_on_reconnect, fixed at boot
  ledgers,   \* the ledger each account has in the run's account map
  opened,    \* how many ledgers have been opened
  upgrades,  \* where each upgrade stands and what it carries
  closing,   \* the connections whose lanes were sent a close
  announcing,  \* the connections whose loop awaits room for its ride's ending
  expired    \* the accounts the TTL sweep read as expired and has yet to visit

runVars == <<resets, ledgers, opened>>
vars == <<registryVars, boatyardVars, runVars, upgrades, closing, announcing, expired>>

\* Ledgers are numbered as they are opened.
NoLedger == 0

Reserved == {"boarding", "joining", "placing", "discarding", "obtaining", "committing"}
Admitting == {"deciding", "checking", "reserving", "installing"} \cup Reserved
Steps == Admitting \cup {"idle", "refused", "crossing", "serving", "leaving", "left"}

Upgrading == [step : Steps, asks : Request, observed : Nat, resetting : BOOLEAN,
              checked : Nat, served : Nat, awaits : Conn \cup {NoConn},
              abandoned : BOOLEAN]
NotBegun == [step |-> "idle", asks |-> CHOOSE r \in Requests : TRUE,
             observed |-> 0, resetting |-> FALSE,
             checked |-> NoLedger, served |-> NoLedger,
             awaits |-> NoConn, abandoned |-> FALSE]

TypeOK == /\ RegistryTypeOK
          /\ BoatyardTypeOK
          /\ resets \in BOOLEAN
          /\ ledgers \in [Account -> Nat]
          /\ opened \in Nat
          /\ upgrades \in [Conn -> Upgrading]
          /\ closing \subseteq Conn
          /\ announcing \subseteq Conn
          /\ expired \subseteq Account

Init == /\ RegistryInit
        /\ BoatyardInit
        /\ resets \in BOOLEAN
        /\ ledgers = [a \in Account |-> NoLedger]
        /\ opened = 0
        /\ upgrades = [u \in Conn |-> NotBegun]
        /\ closing = {}
        /\ announcing = {}
        /\ expired = {}

At(u, step) == upgrades[u].step = step
AccountOf(u) == upgrades[u].asks.account
KeyOf(u) == upgrades[u].asks.key
Moves(u, step) == upgrades' = [upgrades EXCEPT ![u].step = step]
Ends(u, step) == upgrades' = [upgrades EXCEPT ![u] = [NotBegun EXCEPT !.step = step]]
----------------------------------------------------------------------------
(* admit: the checks                                                       *)

\* A socket dials, and admit samples the incarnation of the account's ledger
\* before anything reads that ledger.
Dial(u, r) ==
  /\ At(u, "idle")
  /\ Ensure(r.account)
  /\ upgrades' = [upgrades EXCEPT
       ![u] = [NotBegun EXCEPT !.step = "deciding", !.asks = r,
                               !.observed = Opened(r.account).incarnation]]
  /\ UNCHANGED <<boatyardVars, runVars, closing, announcing, expired>>

\* claim_discards_ledger: a dial that names the account resets it, unless its
\* callsign is already on it.
Decide(u) ==
  /\ At(u, "deciding")
  /\ LET r == upgrades[u].asks
     IN  upgrades' = [upgrades EXCEPT
           ![u].step = "checking",
           ![u].resetting =
             /\ r.named /\ resets
             /\ ~(r.callsign # NoCallsign /\ HasCallsign(r.account, r.callsign))]
  /\ UNCHANGED <<registryVars, boatyardVars, runVars, closing, announcing, expired>>

\* Funding, policy and calendar are asked of the ledger this connection will
\* get: a fresh one if it resets or finds none.
Check(u) ==
  /\ At(u, "checking")
  /\ \/ Ends(u, "refused")
     \/ upgrades' = [upgrades EXCEPT
          ![u].step = "reserving",
          ![u].checked = IF upgrades[u].resetting THEN NoLedger
                           ELSE ledgers[AccountOf(u)]]
  /\ UNCHANGED <<registryVars, boatyardVars, runVars, closing, announcing, expired>>

TakeReservation(u) ==
  LET a == AccountOf(u)
      r == upgrades[u]
  IN  /\ At(u, "reserving")
      /\ Reserve(a, u, KeyOf(u), r.resetting, r.observed)
      /\ IF ReserveAnswer(Opened(a), KeyOf(u), r.resetting, r.observed) = "reserved"
           THEN Moves(u, "boarding") ELSE Ends(u, "refused")
      /\ UNCHANGED <<boatyardVars, runVars, closing, announcing, expired>>
----------------------------------------------------------------------------
(* admit: the placement                                                    *)

Tail(u) == IF upgrades[u].resetting THEN "discarding" ELSE "obtaining"

\* A refused upgrade drops its reservation.
Refuse(u) == Rollback(AccountOf(u), u) /\ Ends(u, "refused")

Board(u) ==
  /\ At(u, "boarding")
  /\ \/ Join(u, KeyOf(u)) /\ Moves(u, Tail(u)) /\ UNCHANGED registryVars
     \/ StartPlacing(u, KeyOf(u)) /\ Moves(u, "placing") /\ UNCHANGED registryVars
     \/ /\ slots[KeyOf(u)].state = "placing"
        /\ upgrades' = [upgrades EXCEPT ![u].step = "joining",
                                        ![u].awaits = slots[KeyOf(u)].placer]
        /\ UNCHANGED <<registryVars, boatyardVars>>
     \/ slots[KeyOf(u)].state = "failed" /\ Refuse(u) /\ UNCHANGED boatyardVars
  /\ UNCHANGED <<runVars, closing, announcing, expired>>

Wake(u) ==
  /\ At(u, "joining") /\ upgrades[u].awaits \in handed
  /\ upgrades' = [upgrades EXCEPT ![u].step = "boarding", ![u].awaits = NoConn]
  /\ UNCHANGED <<registryVars, boatyardVars, runVars, closing, announcing, expired>>

Placed(u) ==
  /\ At(u, "placing")
  /\ \/ Launch(u, KeyOf(u)) /\ Moves(u, Tail(u)) /\ UNCHANGED registryVars
     \/ PlacementFailed(u, KeyOf(u)) /\ Refuse(u)
  /\ UNCHANGED <<runVars, closing, announcing, expired>>
----------------------------------------------------------------------------
(* The tail of admit, a task of its own.                                   *)

\* reopen: only a claim that resets discards the ledger.
Discard(u) ==
  /\ At(u, "discarding")
  /\ ledgers' = [ledgers EXCEPT ![AccountOf(u)] = NoLedger]
  /\ Moves(u, "obtaining")
  /\ UNCHANGED <<registryVars, boatyardVars, resets, opened, closing, announcing, expired>>

Opening(a) ==
  /\ ledgers' = [ledgers EXCEPT ![a] = opened + 1]
  /\ opened' = opened + 1
  /\ Ensure(a)

\* Run::account: the ledger in the map, or one opened under the run's terms.
Obtain(u) ==
  LET a == AccountOf(u)
  IN  /\ At(u, "obtaining")
      /\ IF ledgers[a] # NoLedger THEN UNCHANGED <<registryVars, ledgers, opened>>
         ELSE Opening(a)
      /\ upgrades' = [upgrades EXCEPT ![u].step = "committing",
                                      ![u].served = ledgers'[a]]
      /\ UNCHANGED <<boatyardVars, resets, closing, announcing, expired>>

\* The commit, and the close of every lane it displaces.
Commit(u) ==
  LET r == upgrades[u]
      a == AccountOf(u)
  IN  /\ At(u, "committing")
      /\ Install(a, u, r.asks.callsign, r.asks.key, r.resetting, r.observed, r.asks.named)
      /\ closing' = closing \cup Displaced(a, r.asks.callsign, r.asks.named)
      /\ Moves(u, "installing")
      /\ UNCHANGED <<boatyardVars, runVars, announcing, expired>>

\* The tail's last await is over.  A passenger nobody waits for is dropped,
\* which releases its connection before its ticket.
HandOver(u) ==
  /\ At(u, "installing")
  /\ IF upgrades[u].abandoned
       THEN Release(AccountOf(u), u) /\ Moves(u, "leaving")
       ELSE Moves(u, "crossing") /\ UNCHANGED registryVars
  /\ UNCHANGED <<boatyardVars, runVars, closing, announcing, expired>>

\* The client goes away while the handler awaits.
ClientGone(u) ==
  /\ \/ At(u, "checking") /\ Ends(u, "refused") /\ UNCHANGED registryVars
     \/ upgrades[u].step \in {"joining", "placing"} /\ Refuse(u)
     \/ /\ upgrades[u].step \in {"discarding", "obtaining", "committing", "installing"}
        /\ ~upgrades[u].abandoned
        /\ upgrades' = [upgrades EXCEPT ![u].abandoned = TRUE]
        /\ UNCHANGED registryVars
     \/ /\ At(u, "crossing")
        /\ Release(AccountOf(u), u) /\ Moves(u, "leaving")
  /\ UNCHANGED <<boatyardVars, runVars, closing, announcing, expired>>
----------------------------------------------------------------------------
(* handle_socket                                                           *)

Bind(u) ==
  /\ At(u, "crossing")
  /\ BeginReading(AccountOf(u), u)
  /\ Moves(u, "serving")
  /\ UNCHANGED <<boatyardVars, runVars, closing, announcing, expired>>

\* The ride's duration or the run is over: the loop leaves its select to send
\* the ending, and awaits room in a channel its peer may never drain.
Announce(u) ==
  /\ At(u, "serving") /\ u \notin announcing
  /\ announcing' = announcing \cup {u}
  /\ UNCHANGED <<registryVars, boatyardVars, runVars, upgrades, closing, expired>>

\* Slip: the ticket is dropped and the connection's record stays.
EndServingUnreleased(u) ==
  /\ At(u, "serving")
  /\ Moves(u, "leaving")
  /\ announcing' = announcing \ {u}
  /\ UNCHANGED <<registryVars, boatyardVars, runVars, closing, expired>>

\* The loop is left, and the connection released before its writer has flushed.
EndServing(u) ==
  /\ At(u, "serving")
  /\ Release(AccountOf(u), u)
  /\ Moves(u, "leaving")
  /\ announcing' = announcing \ {u}
  /\ UNCHANGED <<boatyardVars, runVars, closing, expired>>

\* Slip: the close is heeded while the registry still knows the connection.
ClosedOnRecord(u) ==
  /\ u \in closing \ announcing /\ Registered(AccountOf(u), u)
  /\ EndServing(u)

\* The lanes were told to close, which the loop learns in its select alone.
Closed(u) == u \in closing \ announcing /\ EndServing(u)

\* The peer's own close or end of stream, or an ending that found room, because
\* the peer reads, or a channel whose writer is gone.
Hangup(u) == EndServing(u)

\* The writer has flushed its close, or has been given up on.
Leave(u) ==
  /\ At(u, "leaving")
  /\ DropTicket(u, KeyOf(u))
  /\ Ends(u, "left")
  /\ UNCHANGED <<registryVars, runVars, closing, announcing, expired>>
----------------------------------------------------------------------------
(* The TTL sweep and the account endpoint.                                 *)

Unclaimed == {a \in Account : ledgers[a] # NoLedger /\ entries[a].open
                               /\ ~Attended(entries[a]) /\ entries[a].frozen}

\* collect_expired_accounts reads which accounts have been frozen too long ...
ReadExpired ==
  /\ expired = {}
  /\ expired' \in SUBSET Unclaimed \ {{}}
  /\ UNCHANGED <<registryVars, boatyardVars, runVars, upgrades, closing, announcing>>

\* ... and visits them one at a time.
CollectExpired(a) ==
  /\ a \in expired
  /\ expired' = expired \ {a}
  /\ IF Collectable(entries[a])
       THEN Collect(a) /\ ledgers' = [ledgers EXCEPT ![a] = NoLedger]
       ELSE UNCHANGED <<registryVars, ledgers>>
  /\ UNCHANGED <<boatyardVars, resets, opened, upgrades, closing, announcing>>

\* POST /accounts, as often as the bound allows.
OpenAccount(a) ==
  /\ ledgers[a] = NoLedger /\ opened < MaxLedgers
  /\ Opening(a)
  /\ UNCHANGED <<boatyardVars, resets, upgrades, closing, announcing, expired>>
----------------------------------------------------------------------------
VenueStep(u) == \/ Decide(u) \/ Check(u) \/ TakeReservation(u)
                \/ Board(u) \/ Wake(u) \/ Placed(u)
                \/ Discard(u) \/ Obtain(u) \/ Commit(u) \/ HandOver(u)
                \/ Bind(u) \/ Closed(u) \/ Leave(u)

Next == \/ \E u \in Conn : \/ \E r \in Requests : Dial(u, r)
                           \/ VenueStep(u)
                           \/ ClientGone(u)
                           \/ Announce(u)
                           \/ Hangup(u)
        \/ ReadExpired
        \/ \E a \in Account : CollectExpired(a) \/ OpenAccount(a)

\* The runtime polls every task that can go on and the placement thread ends;
\* nothing is owed by a client, its reading included, an operator or the TTL
\* sweep.
Fairness == \A u \in Conn : WF_vars(VenueStep(u))

Spec == Init /\ [][Next]_vars /\ Fairness
----------------------------------------------------------------------------
(* Safety.                                                                 *)

\* An upgrade that reserved an account holds it until it commits or is gone,
\* whatever the TTL sweep and other upgrades do: the entry stays, pending on
\* it and under the incarnation its checks were made against, so the arms of
\* commit that find no entry or another's reservation are unreachable; and no
\* reservation outlives its upgrade (registry.rs:423, 507, 791, 804).
ReservationHolds ==
  /\ \A u \in Conn : upgrades[u].step \in Reserved =>
                       Holds(AccountOf(u), u, upgrades[u].observed)
  /\ \A a \in Account : LET u == entries[a].pending
                        IN  u # NoConn => upgrades[u].step \in Reserved

\* A connection is registered under a ride only while its owner's ticket keeps
\* that very boat placed, so a ride never matches a replacement boat under the
\* same key (ws.rs:117-145, the argument for keys without a nonce).
RideKeepsBoat ==
  \A a \in Account : \A c \in entries[a].connections :
    /\ tickets[c.id] # NoConn
    /\ slots[c.ride].state = "placed"
    /\ slots[c.ride].placer = tickets[c.id]

\* The checks hold of the ledger that is served: a connection whose checks read
\* a ledger is served that very one, no reset, collection or reopening having
\* slipped in between; and on a venue that does not reset accounts everyone
\* on record of an account trades its one ledger, two connections on one river
\* riding one boat (registry.rs:60-92, 117, accounts.md:167).
LedgerAsChecked ==
  /\ \A u \in Conn :
       upgrades[u].step \in {"committing", "installing", "crossing", "serving"} =>
         upgrades[u].checked \in {NoLedger, upgrades[u].served}
  /\ ~resets => \A a \in Account : \A c, d \in entries[a].connections :
       /\ upgrades[c.id].served = ledgers[a]
       /\ River(c.ride) = River(d.ride) => c.ride = d.ride

----------------------------------------------------------------------------
(* Liveness.                                                               *)

\* A placement whose upgrade was dropped while it ran.
Stranded(k) == slots[k].state = "placing" /\ ~At(slots[k].placer, "placing")

\* Every upgrade is answered, however many wait for one placement and whether
\* it succeeds or fails, unless its key's placement was stranded.
AnsweredUnlessStranded ==
  \A u \in Conn : upgrades[u].step \in Admitting
                    ~> upgrades[u].step \notin Admitting \/ Stranded(KeyOf(u))

\* A connection whose lanes were told to close leaves without its peer's help,
\* and its boat is given back, unless its loop has left its select to announce
\* the ride's end to a peer that does not read (ws.rs:1599-1604, 1609-1610,
\* 1640-1641). One displaced before it read has no lanes yet: it is not told,
\* and serves on off the record (registry.rs:586-607, 630-641).
DisplacedLeaves ==
  \A u \in Conn : u \in closing ~> \/ At(u, "left") /\ tickets[u] = NoConn
                                  \/ u \in announcing
============================================================================
