------------------------------ MODULE Delivery ------------------------------
(***************************************************************************)
(* Who is told about an order (mogwai-venue run.rs order_owners, sweeper.rs*)
(* deliver_produced, ws.rs dispatch_command).  Every account has a ledger  *)
(* with an engine of its own, which numbers its orders from 1; the run has *)
(* one table from an order's number to the account that owns it.  The      *)
(* dispatcher claims what a socket submitted, the sweeper claims what an   *)
(* engine pass produced, and both address frames and rows by the table.    *)
(*                                                                         *)
(* An order is a ledger and a number.  What a frame says of its order is   *)
(* left out, and so is whether a lane has room for it (Outbound).          *)
(***************************************************************************)
EXTENDS Integers

CONSTANTS
  Account, Conn,
  Nobody,      \* no account
  AccountOf,   \* the account each socket presents
  MaxLedgers,  \* bound on the ledgers opened
  MaxOrders    \* bound on the orders one engine mints

ASSUME DeliveryAssumption ==
  /\ Nobody \notin Account
  /\ AccountOf \in [Conn -> Account]
  /\ MaxLedgers \in Nat /\ MaxOrders \in Nat

VARIABLES
  ledgers,   \* the ledger each account has in the run's account map
  holder,    \* the account each ledger was opened for
  minted,    \* venue_order_seq: how many orders each ledger's engine minted
  owners,    \* order_owners
  seats,     \* each socket's admission and the ledger it trades on
  dispatch,  \* what each socket's dispatcher has to publish
  collected, \* the account whose claims the TTL sweep has yet to retire
  sweep      \* the sweeper's pass over one account
vars == <<ledgers, holder, minted, owners, seats, dispatch, collected, sweep>>

NoLedger == 0
Ledgers == 1..MaxLedgers
Orders == 1..MaxOrders

Seat == [step : {"away", "emptied", "cleared", "in"}, ledger : 0..MaxLedgers]
Away == [step |-> "away", ledger |-> NoLedger]

\* order is what a submit minted, rows what a query read from its engine, and
\* hidden which of them its reply lost.
Dispatch == [step : {"idle", "accepted", "read"}, order : 0..MaxOrders,
             rows : SUBSET Orders, hidden : SUBSET Orders]
Idle == [step |-> "idle", order |-> 0, rows |-> {}, hidden |-> {}]

\* owner is whom the table named when the frame was routed, missed those of its
\* account's sockets that were reading and not given it.
Pass == [step : {"waiting", "planned", "produced", "claimed", "routed", "delivered"},
         ledger : 0..MaxLedgers, order : 0..MaxOrders, owner : Account \cup {Nobody},
         missed : SUBSET Conn]
Waiting == [step |-> "waiting", ledger |-> NoLedger, order |-> 0,
            owner |-> Nobody, missed |-> {}]

TypeOK == /\ ledgers \in [Account -> 0..MaxLedgers]
          /\ holder \in [Ledgers -> Account \cup {Nobody}]
          /\ minted \in [Ledgers -> 0..MaxOrders]
          /\ \A a \in Account : ledgers[a] # NoLedger => holder[ledgers[a]] = a
          /\ owners \in [Orders -> Account \cup {Nobody}]
          /\ seats \in [Conn -> Seat]
          /\ dispatch \in [Conn -> Dispatch]
          /\ collected \in Account \cup {Nobody}
          /\ sweep \in Pass

Init == /\ ledgers = [a \in Account |-> NoLedger]
        /\ holder = [l \in Ledgers |-> Nobody] /\ minted = [l \in Ledgers |-> 0]
        /\ owners = [i \in Orders |-> Nobody]
        /\ seats = [c \in Conn |-> Away]
        /\ dispatch = [c \in Conn |-> Idle]
        /\ collected = Nobody
        /\ sweep = Waiting
----------------------------------------------------------------------------
(* Accounts and sockets.                                                   *)

On(a) == {c \in Conn : AccountOf[c] = a}
Reading(a) == {c \in On(a) : seats[c].step = "in"}
Arriving(a) == {c \in On(a) : seats[c].step \in {"emptied", "cleared"}}

\* Retiring an account's claims, a lock of its own after its ledger's.
Forget(a) == owners' = [i \in Orders |-> IF owners[i] = a THEN Nobody ELSE owners[i]]

\* A ledger with an engine that has minted nothing, the least not yet opened.
Open(a) == \E l \in Ledgers :
             /\ holder[l] = Nobody /\ \A k \in 1..(l - 1) : holder[k] # Nobody
             /\ ledgers' = [ledgers EXCEPT ![a] = l]
             /\ holder' = [holder EXCEPT ![l] = a]
             /\ UNCHANGED minted

\* Run::account, opening a ledger where there is none.
Obtain(a) == IF ledgers[a] # NoLedger THEN UNCHANGED <<ledgers, holder, minted>>
             ELSE Open(a)

\* A dial that resets its account holds the account's admission, and takes the
\* ledger out of the map while whoever it will displace is still reading ...
Empty(c) == /\ seats[c].step = "away" /\ Arriving(AccountOf[c]) = {}
            /\ ledgers' = [ledgers EXCEPT ![AccountOf[c]] = NoLedger]
            /\ seats' = [seats EXCEPT ![c].step = "emptied"]
            /\ UNCHANGED <<holder, minted, owners, dispatch, collected, sweep>>

\* ... and its claims after it, and opens the next one.
Clear(c) == /\ seats[c].step = "emptied"
            /\ Forget(AccountOf[c]) /\ Obtain(AccountOf[c])
            /\ seats' = [seats EXCEPT ![c].step = "cleared"]
            /\ UNCHANGED <<dispatch, collected, sweep>>

\* The socket reads. Those its callsign does not match are displaced, and all
\* of them by a reset.
Enter(c) ==
  LET a == AccountOf[c]
  IN /\ \/ seats[c].step = "away" /\ Arriving(a) = {}
        \/ seats[c].step = "cleared"
     /\ Obtain(a)
     /\ \E displaced \in {{}, Reading(a)} :
          /\ seats[c].step = "cleared" => displaced = Reading(a)
          /\ seats' = [d \in Conn |->
                IF d = c THEN [step |-> "in", ledger |-> ledgers'[a]]
                ELSE IF d \in displaced THEN Away ELSE seats[d]]
     /\ UNCHANGED <<owners, dispatch, collected, sweep>>

\* A socket ends, or an upgrade does before it reads.
Leave(c) == /\ seats[c].step \in {"cleared", "in"}
            /\ seats' = [seats EXCEPT ![c] = Away]
            /\ UNCHANGED <<ledgers, holder, minted, owners, dispatch, collected, sweep>>

\* collect_account: the registry's entry and the ledger under one lock ...
Collect(a) == /\ collected = Nobody /\ ledgers[a] # NoLedger
              /\ Reading(a) = {} /\ Arriving(a) = {}
              /\ ledgers' = [ledgers EXCEPT ![a] = NoLedger]
              /\ collected' = a
              /\ UNCHANGED <<holder, minted, owners, seats, dispatch, sweep>>

\* ... and the claims after it.
Retire == /\ collected # Nobody
          /\ Forget(collected)
          /\ collected' = Nobody
          /\ UNCHANGED <<ledgers, holder, minted, seats, dispatch, sweep>>
----------------------------------------------------------------------------
(* A socket's dispatcher.  A socket that ends while a step has no await    *)
(* runs that step to its end.                                              *)

\* The engine takes a submit, under its lock.
Submit(c) ==
  LET l == seats[c].ledger
  IN /\ seats[c].step = "in" /\ dispatch[c].step = "idle"
     /\ minted[l] < MaxOrders
     /\ minted' = [minted EXCEPT ![l] = @ + 1]
     /\ dispatch' = [dispatch EXCEPT ![c] =
          [Idle EXCEPT !.step = "accepted", !.order = minted[l] + 1]]
     /\ UNCHANGED <<ledgers, holder, owners, seats, collected, sweep>>

\* track_ownership: the last claim of a number stands.
Track(c) == /\ dispatch[c].step = "accepted"
            /\ owners' = [owners EXCEPT ![dispatch[c].order] = AccountOf[c]]
            /\ dispatch' = [dispatch EXCEPT ![c] = Idle]
            /\ UNCHANGED <<ledgers, holder, minted, seats, collected, sweep>>

\* QueryOrders and QueryFills are answered from the socket's own engine ...
Query(c) == /\ seats[c].step = "in" /\ dispatch[c].step = "idle"
            /\ minted[seats[c].ledger] > 0
            /\ dispatch' = [dispatch EXCEPT ![c] =
                 [Idle EXCEPT !.step = "read", !.rows = 1..minted[seats[c].ledger]]]
            /\ UNCHANGED <<ledgers, holder, minted, owners, seats, collected, sweep>>

\* Slip: a row nobody claimed is dropped too.
MineClaimed(a, i) == owners[i] = a

\* A row nobody claimed is anybody's.
Mine(a, i) == owners[i] \in {a, Nobody}

\* ... and scope_query_rows drops the rows the table gives to another account.
Scope(c) == /\ dispatch[c].step = "read"
            /\ dispatch' = [dispatch EXCEPT ![c] =
                 [Idle EXCEPT !.hidden = {i \in dispatch[c].rows : ~Mine(AccountOf[c], i)}]]
            /\ UNCHANGED <<ledgers, holder, minted, owners, seats, collected, sweep>>
----------------------------------------------------------------------------
(* The sweeper, one thread for all accounts.                               *)

\* A pass begins with the ledgers of the accounts somebody reads.
Plan(a) == /\ sweep.step \in {"waiting", "delivered"}
           /\ ledgers[a] # NoLedger /\ Reading(a) # {}
           /\ sweep' = [Waiting EXCEPT !.step = "planned", !.ledger = ledgers[a]]
           /\ UNCHANGED <<ledgers, holder, minted, owners, seats, dispatch, collected>>

\* The engine pass: a fill, an expiry or a cancel of one of the ledger's
\* orders, or of one the venue mints to close a position.
Produce ==
  LET l == sweep.ledger
  IN /\ sweep.step = "planned" /\ minted[l] > 0
     /\ \E i \in Orders :
          /\ i <= minted[l] + 1
          /\ minted' = [minted EXCEPT ![l] = IF i <= @ THEN @ ELSE i]
          /\ sweep' = [sweep EXCEPT !.step = "produced", !.order = i]
     /\ UNCHANGED <<ledgers, holder, owners, seats, dispatch, collected>>

\* A pass that finds nothing.
Skip == /\ sweep.step = "planned"
        /\ sweep' = Waiting
        /\ UNCHANGED <<ledgers, holder, minted, owners, seats, dispatch, collected>>

\* claim_produced_orders: a number already claimed keeps its owner.
ClaimProduced ==
  /\ sweep.step = "produced"
  /\ owners' = [owners EXCEPT ![sweep.order] =
                  IF @ = Nobody THEN holder[sweep.ledger] ELSE @]
  /\ sweep' = [sweep EXCEPT !.step = "claimed"]
  /\ UNCHANGED <<ledgers, holder, minted, seats, dispatch, collected>>

\* The lookup and the lanes take their locks in turn.
Route == /\ sweep.step = "claimed"
         /\ sweep' = [sweep EXCEPT !.step = "routed", !.owner = owners[sweep.order]]
         /\ UNCHANGED <<ledgers, holder, minted, owners, seats, dispatch, collected>>

\* Slip: a frame nobody claimed goes nowhere.
AudienceOrNone(owner, c) == AccountOf[c] = owner

\* The sockets of the account the table names, or all when it names none.
Audience(owner, c) == owner \in {AccountOf[c], Nobody}

Deliver ==
  /\ sweep.step = "routed"
  /\ sweep' = [sweep EXCEPT !.step = "delivered", !.owner = Nobody,
       !.missed = {c \in Reading(holder[sweep.ledger]) : ~Audience(sweep.owner, c)}]
  /\ UNCHANGED <<ledgers, holder, minted, owners, seats, dispatch, collected>>
----------------------------------------------------------------------------
Next == \/ \E c \in Conn : \/ Empty(c) \/ Clear(c) \/ Enter(c) \/ Leave(c)
                           \/ Submit(c) \/ Track(c) \/ Query(c) \/ Scope(c)
        \/ \E a \in Account : Collect(a) \/ Plan(a)
        \/ Retire \/ Produce \/ Skip \/ ClaimProduced \/ Route \/ Deliver

Spec == Init /\ [][Next]_vars
----------------------------------------------------------------------------
(* Properties.                                                             *)

\* Another account's engine has minted an order of the same number.
Shared(a, i) == \E l \in Ledgers : holder[l] \notin {a, Nobody} /\ minted[l] >= i

\* The table fails towards the owner: whatever resets, collections and passes
\* over discarded ledgers do to its claims, a frame is kept from its account's
\* own sockets only when another account's engine numbered an order alike
\* (sweeper.rs:996, run.rs:1908).
OwnFramesArriveUnlessShared ==
  sweep.missed = {} \/ Shared(holder[sweep.ledger], sweep.order)

\* So do query replies: a row is kept from the account that asked only when
\* another account's engine numbered an order alike (run.rs:1933).
RowsShownUnlessShared ==
  \A c \in Conn : \A i \in dispatch[c].hidden : Shared(AccountOf[c], i)
=============================================================================
