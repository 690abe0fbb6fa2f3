-------------------------- MODULE Delivery_proofs --------------------------
(* The table of owners fails towards the owner, for any accounts, sockets, *)
(* ledgers and orders.                                                     *)
EXTENDS Delivery, TLAPS

\* An engine of the account has minted an order of this number.
Minted(a, i) == \E l \in Ledgers : holder[l] = a /\ minted[l] >= i

\* A claim is of an order its account's engine minted.
ClaimsEarned == \A i \in Orders : owners[i] # Nobody => Minted(owners[i], i)

Seated == \A c \in Conn : seats[c].step = "in" =>
            seats[c].ledger \in Ledgers /\ holder[seats[c].ledger] = AccountOf[c]

Accepted == \A c \in Conn : dispatch[c].step = "accepted" =>
              dispatch[c].order \in Orders /\ Minted(AccountOf[c], dispatch[c].order)

OnLedger == sweep.step # "waiting" =>
              sweep.ledger \in Ledgers /\ holder[sweep.ledger] \in Account

OnOrder == sweep.step \in {"produced", "claimed", "routed", "delivered"} =>
             sweep.order \in Orders /\ minted[sweep.ledger] >= sweep.order

Routed == /\ sweep.step = "routed" /\ sweep.owner # Nobody =>
               Minted(sweep.owner, sweep.order)
          /\ sweep.missed # {} => sweep.step = "delivered"

DInv == /\ TypeOK /\ ClaimsEarned /\ Seated /\ Accepted
        /\ OnLedger /\ OnOrder /\ Routed
        /\ OwnFramesArriveUnlessShared /\ RowsShownUnlessShared

\* Ledgers are never handed on and engines never forget a number.
Grows == \A l \in Ledgers : /\ holder[l] # Nobody => holder'[l] = holder[l]
                            /\ minted[l] <= minted'[l]
----------------------------------------------------------------------------
(* What growth leaves standing.                                            *)

\* The constants' types.
LEMMA Constants ==
  /\ Nobody \notin Account /\ AccountOf \in [Conn -> Account]
  /\ MaxLedgers \in Nat /\ MaxOrders \in Nat
BY DeliveryAssumption

\* An order once minted stays minted, and a number once shared stays shared.
LEMMA GrowthKeeps ==
  ASSUME TypeOK, TypeOK', Grows
  PROVE  \A a \in Account, i \in Orders :
           /\ Minted(a, i) => \E l \in Ledgers : holder'[l] = a /\ minted'[l] >= i
           /\ Shared(a, i) => \E l \in Ledgers : holder'[l] \notin {a, Nobody} /\ minted'[l] >= i
<1>1. \A l \in Ledgers : /\ minted[l] \in Int /\ minted'[l] \in Int
                         /\ holder[l] # Nobody => holder'[l] = holder[l]
                         /\ minted[l] <= minted'[l]
  BY Constants DEF TypeOK, Grows
<1> SUFFICES ASSUME NEW a \in Account, NEW i \in Orders
             PROVE  /\ Minted(a, i) => \E l \in Ledgers : holder'[l] = a /\ minted'[l] >= i
                    /\ Shared(a, i) => \E l \in Ledgers : holder'[l] \notin {a, Nobody} /\ minted'[l] >= i
  OBVIOUS
<1>2. i \in Int /\ a # Nobody
  BY Constants DEF Orders
<1>3. ASSUME Minted(a, i) PROVE \E l \in Ledgers : holder'[l] = a /\ minted'[l] >= i
  <2>1. PICK l \in Ledgers : holder[l] = a /\ minted[l] >= i
    BY <1>3 DEF Minted
  <2> QED
    BY <2>1, <1>1, <1>2
<1>4. ASSUME Shared(a, i) PROVE \E l \in Ledgers : holder'[l] \notin {a, Nobody} /\ minted'[l] >= i
  <2>1. PICK l \in Ledgers : holder[l] \notin {a, Nobody} /\ minted[l] >= i
    BY <1>4 DEF Shared
  <2> QED
    BY <2>1, <1>1, <1>2
<1> QED
  BY <1>3, <1>4

\* Claims stand when some are retired and none is made.
LEMMA ClaimsStand ==
  ASSUME DInv, TypeOK', Grows,
         \A i \in Orders : owners'[i] \in {owners[i], Nobody}
  PROVE  ClaimsEarned'
<1> SUFFICES ASSUME NEW i \in Orders, owners'[i] # Nobody
             PROVE  Minted(owners[i], i)'
  BY DEF ClaimsEarned
<1>1. owners'[i] = owners[i] /\ owners[i] # Nobody
  OBVIOUS
<1>2. owners[i] \in Account /\ Minted(owners[i], i)
  BY <1>1 DEF DInv, TypeOK, ClaimsEarned
<1> QED
  BY <1>1, <1>2, GrowthKeeps DEF DInv, Minted

\* So do the seats of sockets that go on reading or leave.
LEMMA SeatsStand ==
  ASSUME DInv, TypeOK', Grows,
         \A c \in Conn : seats'[c].step = "in" => seats'[c] = seats[c]
  PROVE  Seated'
<1> SUFFICES ASSUME NEW c \in Conn, seats'[c].step = "in"
             PROVE  seats'[c].ledger \in Ledgers /\ holder'[seats'[c].ledger] = AccountOf[c]
  BY DEF Seated
<1>1. seats[c].ledger \in Ledgers /\ holder[seats[c].ledger] = AccountOf[c]
  BY DEF DInv, Seated
<1>2. AccountOf[c] \in Account
  BY Constants
<1> QED
  BY <1>1, <1>2, Constants DEF Grows

\* So do the dispatchers' accepted orders and the rows their replies lost.
LEMMA DispatchStands ==
  ASSUME DInv, TypeOK', Grows,
         \A c \in Conn : /\ dispatch'[c].step = "accepted" => dispatch'[c] = dispatch[c]
                         /\ \A i \in dispatch'[c].hidden : i \in dispatch[c].hidden
  PROVE  Accepted' /\ RowsShownUnlessShared'
<1>1. ASSUME NEW c \in Conn, dispatch'[c].step = "accepted"
      PROVE  (dispatch[c].order \in Orders /\ Minted(AccountOf[c], dispatch[c].order))'
  <2>1. dispatch'[c].order = dispatch[c].order /\ dispatch[c].order \in Orders
        /\ Minted(AccountOf[c], dispatch[c].order)
    BY <1>1 DEF DInv, Accepted
  <2>2. AccountOf[c] \in Account
    BY Constants
  <2> QED
    BY <2>1, <2>2, GrowthKeeps DEF DInv, Minted
<1>2. ASSUME NEW c \in Conn, NEW i \in dispatch'[c].hidden
      PROVE  Shared(AccountOf[c], i)'
  <2>1. i \in dispatch[c].hidden /\ Shared(AccountOf[c], i)
    BY <1>2 DEF DInv, RowsShownUnlessShared
  <2>2. i \in Orders /\ AccountOf[c] \in Account
    BY <2>1, Constants DEF DInv, TypeOK, Dispatch
  <2> QED
    BY <2>1, <2>2, GrowthKeeps DEF DInv, Shared
<1> QED
  BY <1>1, <1>2 DEF Accepted, RowsShownUnlessShared

\* So does a pass.
LEMMA PassStands ==
  ASSUME DInv, TypeOK', Grows, sweep' = sweep
  PROVE  OnLedger' /\ OnOrder' /\ Routed' /\ OwnFramesArriveUnlessShared'
<1>1. OnLedger' /\ (sweep.step # "waiting" => holder'[sweep.ledger] = holder[sweep.ledger])
  BY Constants DEF DInv, OnLedger, Grows
<1>2. OnOrder'
  <2> SUFFICES ASSUME sweep.step \in {"produced", "claimed", "routed", "delivered"}
               PROVE  sweep.order \in Orders /\ minted'[sweep.ledger] >= sweep.order
    BY DEF OnOrder
  <2>1. /\ sweep.order \in Orders /\ minted[sweep.ledger] >= sweep.order
        /\ sweep.ledger \in Ledgers
    BY DEF DInv, OnOrder, OnLedger
  <2>2. /\ minted[sweep.ledger] \in Int /\ minted'[sweep.ledger] \in Int
        /\ sweep.order \in Int /\ minted[sweep.ledger] <= minted'[sweep.ledger]
    BY <2>1, Constants DEF DInv, TypeOK, Grows, Orders
  <2> QED
    BY <2>1, <2>2
<1>3. Routed'
  <2>1. ASSUME sweep.step = "routed", sweep.owner # Nobody
        PROVE  Minted(sweep.owner, sweep.order)'
    <3>1. sweep.owner \in Account /\ sweep.order \in Orders
      BY <2>1 DEF DInv, TypeOK, Pass, OnOrder
    <3> QED
      BY <3>1, <2>1, GrowthKeeps DEF DInv, Routed, Minted
  <2> QED
    BY <2>1 DEF DInv, Routed
<1>4. ASSUME sweep.missed # {} PROVE Shared(holder[sweep.ledger], sweep.order)'
  <2>1. sweep.step = "delivered" /\ Shared(holder[sweep.ledger], sweep.order)
    BY <1>4 DEF DInv, Routed, OwnFramesArriveUnlessShared
  <2>2. /\ holder[sweep.ledger] \in Account /\ sweep.order \in Orders
        /\ holder'[sweep.ledger] = holder[sweep.ledger]
    BY <1>1, <2>1 DEF DInv, OnLedger, OnOrder
  <2> QED
    BY <2>1, <2>2, GrowthKeeps DEF DInv, Shared
<1>5. OwnFramesArriveUnlessShared'
  BY <1>4 DEF OwnFramesArriveUnlessShared
<1> QED
  BY <1>1, <1>2, <1>3, <1>5
----------------------------------------------------------------------------
(* The steps, each with the parts of the invariant it disturbs.            *)

LEMMA InitInv == ASSUME Init PROVE DInv
<1>1. TypeOK
  BY Constants DEF Init, TypeOK, NoLedger, Ledgers, Orders, Seat, Away, Dispatch, Idle,
                   Pass, Waiting
<1>2. ClaimsEarned /\ Seated /\ Accepted /\ OnLedger /\ OnOrder /\ Routed
  BY DEF Init, ClaimsEarned, Seated, Accepted, OnLedger, OnOrder, Routed, Away, Idle, Waiting
<1>3. OwnFramesArriveUnlessShared /\ RowsShownUnlessShared
  BY DEF Init, OwnFramesArriveUnlessShared, RowsShownUnlessShared, Idle, Waiting
<1> QED
  BY <1>1, <1>2, <1>3 DEF DInv

\* Opening a ledger, or finding one.
LEMMA ObtainGrows ==
  ASSUME TypeOK, NEW a \in Account, Obtain(a)
  PROVE  /\ ledgers' \in [Account -> 0..MaxLedgers]
         /\ holder' \in [Ledgers -> Account \cup {Nobody}]
         /\ minted' \in [Ledgers -> 0..MaxOrders]
         /\ \A b \in Account : ledgers'[b] # NoLedger => holder'[ledgers'[b]] = b
         /\ ledgers'[a] \in Ledgers
         /\ Grows
<1> USE Constants
<1>1. CASE ledgers[a] # NoLedger
  <2>1. UNCHANGED <<ledgers, holder, minted>>
    BY <1>1 DEF Obtain
  <2> QED
    BY <1>1, <2>1 DEF TypeOK, NoLedger, Ledgers, Grows
<1>2. CASE ledgers[a] = NoLedger
  <2>1. PICK l \in Ledgers : /\ holder[l] = Nobody
                             /\ ledgers' = [ledgers EXCEPT ![a] = l]
                             /\ holder' = [holder EXCEPT ![l] = a]
                             /\ minted' = minted
    BY <1>2 DEF Obtain, Open
  <2>2. \A b \in Account : ledgers[b] # NoLedger => ledgers[b] \in Ledgers /\ ledgers[b] # l
    BY <2>1 DEF TypeOK, NoLedger, Ledgers
  <2> QED
    BY <2>1, <2>2 DEF TypeOK, NoLedger, Ledgers, Grows
<1> QED
  BY <1>1, <1>2

LEMMA EmptyKeeps == ASSUME DInv, NEW c \in Conn, Empty(c) PROVE DInv'
<1>1. TypeOK' /\ Grows
  <2>1. /\ ledgers' \in [Account -> 0..MaxLedgers]
        /\ \A a \in Account : ledgers'[a] # NoLedger => ledgers'[a] = ledgers[a]
    <3>1. /\ ledgers \in [Account -> 0..MaxLedgers] /\ 0 \in 0..MaxLedgers
          /\ ledgers' = [ledgers EXCEPT ![AccountOf[c]] = 0]
      BY Constants DEF DInv, TypeOK, Empty, NoLedger
    <3> QED
      BY <3>1 DEF NoLedger
  <2>2. seats' \in [Conn -> Seat]
    BY DEF DInv, TypeOK, Empty, Seat
  <2>3. Grows
    BY Constants DEF DInv, TypeOK, Empty, Grows
  <2> QED
    BY <2>1, <2>2, <2>3 DEF DInv, TypeOK, Empty
<1>2. \A d \in Conn : seats'[d].step = "in" => seats'[d] = seats[d]
  BY DEF DInv, TypeOK, Empty, Seat
<1> QED
  BY <1>1, <1>2, ClaimsStand, SeatsStand, DispatchStands, PassStands DEF DInv, Empty

LEMMA ClearKeeps == ASSUME DInv, NEW c \in Conn, Clear(c) PROVE DInv'
<1>1. TypeOK' /\ Grows
  <2>1. AccountOf[c] \in Account /\ Obtain(AccountOf[c]) /\ TypeOK
    BY Constants DEF Clear, DInv
  <2>2. owners' \in [Orders -> Account \cup {Nobody}] /\ seats' \in [Conn -> Seat]
    BY DEF DInv, TypeOK, Clear, Forget, Seat
  <2> QED
    BY <2>1, <2>2, ObtainGrows DEF TypeOK, Clear
<1>2. \A i \in Orders : owners'[i] \in {owners[i], Nobody}
  BY DEF Clear, Forget
<1>3. \A d \in Conn : seats'[d].step = "in" => seats'[d] = seats[d]
  BY DEF DInv, TypeOK, Clear, Seat
<1> QED
  BY <1>1, <1>2, <1>3, ClaimsStand, SeatsStand, DispatchStands, PassStands DEF DInv, Clear

LEMMA EnterKeeps == ASSUME DInv, NEW c \in Conn, Enter(c) PROVE DInv'
<1> DEFINE a == AccountOf[c]
<1>1. a \in Account /\ Obtain(a) /\ TypeOK
  BY Constants DEF Enter, DInv
<1>2. PICK displaced \in {{}, Reading(a)} :
        seats' = [d \in Conn |-> IF d = c THEN [step |-> "in", ledger |-> ledgers'[a]]
                                 ELSE IF d \in displaced THEN Away ELSE seats[d]]
  BY DEF Enter
<1>3. TypeOK' /\ Grows
  <2>1. seats' \in [Conn -> Seat]
    BY <1>1, <1>2, ObtainGrows, Constants DEF TypeOK, Seat, Away, NoLedger, Ledgers
  <2> QED
    BY <1>1, <2>1, ObtainGrows DEF TypeOK, Enter
<1>4. Seated'
  <2> SUFFICES ASSUME NEW d \in Conn, seats'[d].step = "in"
               PROVE  seats'[d].ledger \in Ledgers /\ holder'[seats'[d].ledger] = AccountOf[d]
    BY DEF Seated
  <2>1. CASE d = c
    BY <2>1, <1>1, <1>2, ObtainGrows DEF Ledgers, NoLedger
  <2>2. CASE d # c
    <3>1. seats'[d] = seats[d] /\ seats[d].step = "in"
      BY <2>2, <1>2 DEF Away
    <3>2. seats[d].ledger \in Ledgers /\ holder[seats[d].ledger] = AccountOf[d]
      BY <3>1 DEF DInv, Seated
    <3> QED
      BY <3>1, <3>2, <1>3, Constants DEF Grows
  <2> QED
    BY <2>1, <2>2
<1> QED
  BY <1>3, <1>4, ClaimsStand, DispatchStands, PassStands DEF DInv, Enter

LEMMA LeaveKeeps == ASSUME DInv, NEW c \in Conn, Leave(c) PROVE DInv'
<1>1. TypeOK' /\ Grows
  BY Constants DEF DInv, TypeOK, Leave, Seat, Away, NoLedger, Ledgers, Grows
<1>2. \A d \in Conn : seats'[d].step = "in" => seats'[d] = seats[d]
  BY DEF DInv, TypeOK, Leave, Seat, Away
<1> QED
  BY <1>1, <1>2, ClaimsStand, SeatsStand, DispatchStands, PassStands DEF DInv, Leave

LEMMA CollectKeeps == ASSUME DInv, NEW a \in Account, Collect(a) PROVE DInv'
<1>1. TypeOK' /\ Grows
  BY Constants DEF DInv, TypeOK, Collect, NoLedger, Ledgers, Grows
<1> QED
  BY <1>1, ClaimsStand, SeatsStand, DispatchStands, PassStands DEF DInv, Collect

LEMMA RetireKeeps == ASSUME DInv, Retire PROVE DInv'
<1>1. TypeOK' /\ Grows
  BY Constants DEF DInv, TypeOK, Retire, Forget, Ledgers, Grows
<1>2. \A i \in Orders : owners'[i] \in {owners[i], Nobody}
  BY DEF Retire, Forget
<1> QED
  BY <1>1, <1>2, ClaimsStand, SeatsStand, DispatchStands, PassStands DEF DInv, Retire
----------------------------------------------------------------------------
(* The steps that mint, claim and look up.                                 *)

LEMMA SubmitKeeps == ASSUME DInv, NEW c \in Conn, Submit(c) PROVE DInv'
<1>1. PICK l \in Ledgers, i \in Orders :
        /\ holder[l] = AccountOf[c] /\ i = minted[l] + 1
        /\ minted' = [minted EXCEPT ![l] = i]
        /\ dispatch' = [dispatch EXCEPT ![c] = [Idle EXCEPT !.step = "accepted", !.order = i]]
  <2> DEFINE l == seats[c].ledger
  <2>1. l \in Ledgers /\ holder[l] = AccountOf[c]
    BY DEF DInv, Seated, Submit
  <2>2. minted[l] + 1 \in Orders
    BY <2>1, Constants DEF DInv, TypeOK, Submit, Orders
  <2> QED
    BY <2>1, <2>2 DEF Submit
<1>2. minted[l] \in Int /\ i \in Int /\ i \in 0..MaxOrders
  BY <1>1, Constants DEF DInv, TypeOK, Orders
<1>3. TypeOK' /\ Grows
  <2>1. minted' \in [Ledgers -> 0..MaxOrders]
    BY <1>1, <1>2, Constants DEF DInv, TypeOK, Orders
  <2>2. dispatch' \in [Conn -> Dispatch]
    <3>1. [Idle EXCEPT !.step = "accepted", !.order = i] \in Dispatch
      BY <1>2 DEF Dispatch, Idle
    <3> QED
      BY <3>1, <1>1 DEF DInv, TypeOK
  <2>3. Grows
    BY <1>1, <1>2, Constants DEF DInv, TypeOK, Submit, Grows
  <2> QED
    BY <2>1, <2>2, <2>3 DEF DInv, TypeOK, Submit
<1>4. Accepted'
  <2> SUFFICES ASSUME NEW d \in Conn, dispatch'[d].step = "accepted"
               PROVE  (dispatch[d].order \in Orders /\ Minted(AccountOf[d], dispatch[d].order))'
    BY DEF Accepted
  <2>1. CASE d = c
    <3>1. dispatch'[d].order = i /\ holder'[l] = AccountOf[d] /\ minted'[l] = i
      BY <1>1, <2>1 DEF DInv, TypeOK, Submit, Idle
    <3> QED
      BY <1>2, <3>1 DEF Minted
  <2>2. CASE d # c
    <3>1. dispatch'[d] = dispatch[d] /\ AccountOf[d] \in Account
      BY <1>1, <2>2, Constants DEF DInv, TypeOK
    <3>2. dispatch[d].order \in Orders /\ Minted(AccountOf[d], dispatch[d].order)
      BY <3>1 DEF DInv, Accepted
    <3> QED
      BY <1>3, <3>1, <3>2, GrowthKeeps DEF DInv, Minted
  <2> QED
    BY <2>1, <2>2
<1>5. RowsShownUnlessShared'
  <2> SUFFICES ASSUME NEW d \in Conn, NEW k \in dispatch'[d].hidden
               PROVE  Shared(AccountOf[d], k)'
    BY DEF RowsShownUnlessShared
  <2>1. d # c
    BY <1>1 DEF DInv, TypeOK, Idle
  <2>2. /\ k \in dispatch[d].hidden /\ k \in Orders
        /\ AccountOf[d] \in Account /\ Shared(AccountOf[d], k)
    BY <1>1, <2>1, Constants DEF DInv, TypeOK, Dispatch, RowsShownUnlessShared
  <2> QED
    BY <1>3, <2>2, GrowthKeeps DEF DInv, Shared
<1> QED
  BY <1>3, <1>4, <1>5, ClaimsStand, SeatsStand, PassStands DEF DInv, Submit

LEMMA TrackKeeps == ASSUME DInv, NEW c \in Conn, Track(c) PROVE DInv'
<1>1. PICK i \in Orders : /\ i = dispatch[c].order /\ Minted(AccountOf[c], i)
                          /\ owners' = [owners EXCEPT ![i] = AccountOf[c]]
  BY DEF DInv, Accepted, Track
<1>2. TypeOK' /\ Grows
  <2>1. owners' \in [Orders -> Account \cup {Nobody}]
    BY <1>1, Constants DEF DInv, TypeOK
  <2>2. dispatch' \in [Conn -> Dispatch] /\ Grows
    BY Constants DEF DInv, TypeOK, Track, Dispatch, Idle, Orders, Grows
  <2> QED
    BY <2>1, <2>2 DEF DInv, TypeOK, Track
<1>3. ClaimsEarned'
  BY <1>1 DEF DInv, TypeOK, ClaimsEarned, Minted, Track
<1>4. \A d \in Conn : /\ dispatch'[d].step = "accepted" => dispatch'[d] = dispatch[d]
                      /\ \A k \in dispatch'[d].hidden : k \in dispatch[d].hidden
  BY DEF DInv, TypeOK, Track, Idle
<1> QED
  <2>1. Seated'
    BY <1>2, SeatsStand DEF Track
  <2>2. Accepted' /\ RowsShownUnlessShared'
    BY <1>2, <1>4, DispatchStands
  <2>3. OnLedger' /\ OnOrder' /\ Routed' /\ OwnFramesArriveUnlessShared'
    BY <1>2, PassStands DEF Track
  <2> QED
    BY <1>2, <1>3, <2>1, <2>2, <2>3 DEF DInv

LEMMA QueryKeeps == ASSUME DInv, NEW c \in Conn, Query(c) PROVE DInv'
<1>1. PICK rows \in SUBSET Orders :
        dispatch' = [dispatch EXCEPT ![c] = [Idle EXCEPT !.step = "read", !.rows = rows]]
  <2>1. 1..minted[seats[c].ledger] \subseteq Orders
    BY Constants DEF DInv, TypeOK, Seated, Query, Orders
  <2> QED
    BY <2>1 DEF Query
<1>2. TypeOK' /\ Grows
  <2>1. dispatch' \in [Conn -> Dispatch]
    <3>0. rows \subseteq Orders /\ 0 \in 0..MaxOrders
      BY <1>1, Constants
    <3>1. [Idle EXCEPT !.step = "read", !.rows = rows] \in Dispatch
      BY <3>0 DEF Dispatch, Idle
    <3> QED
      BY <1>1, <3>1 DEF DInv, TypeOK
  <2>2. Grows
    BY Constants DEF DInv, TypeOK, Query, Grows
  <2> QED
    BY <2>1, <2>2 DEF DInv, TypeOK, Query
<1>3. \A d \in Conn : /\ dispatch'[d].step = "accepted" => dispatch'[d] = dispatch[d]
                      /\ \A i \in dispatch'[d].hidden : i \in dispatch[d].hidden
  BY <1>1 DEF DInv, TypeOK, Idle
<1> QED
  <2>1. ClaimsEarned' /\ Seated'
    BY <1>2, ClaimsStand, SeatsStand DEF Query
  <2>2. Accepted' /\ RowsShownUnlessShared'
    BY <1>2, <1>3, DispatchStands
  <2>3. OnLedger' /\ OnOrder' /\ Routed' /\ OwnFramesArriveUnlessShared'
    BY <1>2, PassStands DEF Query
  <2> QED
    BY <1>2, <2>1, <2>2, <2>3 DEF DInv

\* A row the table gives to another account is of a number that account minted.
LEMMA ScopeKeeps == ASSUME DInv, NEW c \in Conn, Scope(c) PROVE DInv'
<1> DEFINE lost == {i \in dispatch[c].rows : ~Mine(AccountOf[c], i)}
<1>1. dispatch' = [dispatch EXCEPT ![c] = [Idle EXCEPT !.hidden = lost]]
  BY DEF Scope
<1>2. dispatch[c].rows \subseteq Orders /\ AccountOf[c] \in Account
  BY Constants DEF DInv, TypeOK, Dispatch
<1>3. TypeOK' /\ Grows
  <2>1. dispatch' \in [Conn -> Dispatch]
    <3>1. [Idle EXCEPT !.hidden = lost] \in Dispatch
      BY <1>2, Constants DEF Dispatch, Idle
    <3> QED
      BY <1>1, <3>1 DEF DInv, TypeOK
  <2>2. Grows
    BY Constants DEF DInv, TypeOK, Scope, Grows
  <2> QED
    BY <2>1, <2>2 DEF DInv, TypeOK, Scope
<1>4. Accepted'
  <2>1. \A d \in Conn : dispatch'[d].step = "accepted" => dispatch'[d] = dispatch[d]
    BY <1>1 DEF DInv, TypeOK, Idle
  <2> QED
    BY <2>1 DEF DInv, Accepted, Minted, Scope
<1>5. ASSUME NEW i \in lost PROVE Shared(AccountOf[c], i)
  <2>1. i \in Orders /\ owners[i] \notin {AccountOf[c], Nobody}
    BY <1>2 DEF Mine
  <2>2. Minted(owners[i], i)
    BY <2>1 DEF DInv, ClaimsEarned
  <2> QED
    BY <2>1, <2>2 DEF Minted, Shared
<1>6. RowsShownUnlessShared'
  <2> SUFFICES ASSUME NEW d \in Conn, NEW k \in dispatch'[d].hidden
               PROVE  Shared(AccountOf[d], k)'
    BY DEF RowsShownUnlessShared
  <2>1. Shared(AccountOf[d], k)
    <3>1. CASE d = c
      BY <1>1, <1>5, <3>1 DEF DInv, TypeOK, Idle
    <3>2. CASE d # c
      BY <1>1, <3>2 DEF DInv, TypeOK, RowsShownUnlessShared
    <3> QED
      BY <3>1, <3>2
  <2> QED
    BY <2>1 DEF Shared, Scope
<1> QED
  BY <1>3, <1>4, <1>6, ClaimsStand, SeatsStand, PassStands DEF DInv, Scope

\* The steps of a pass leave everything but the pass standing.
LEMMA PassMoves ==
  ASSUME DInv, TypeOK', Grows, UNCHANGED <<owners, seats, dispatch>>,
         OnLedger', OnOrder', Routed', OwnFramesArriveUnlessShared'
  PROVE  DInv'
<1>1. ClaimsEarned' /\ Seated'
  BY ClaimsStand, SeatsStand
<1>2. Accepted' /\ RowsShownUnlessShared'
  BY DispatchStands
<1> QED
  BY <1>1, <1>2 DEF DInv

LEMMA PlanKeeps == ASSUME DInv, NEW a \in Account, Plan(a) PROVE DInv'
<1>1. ledgers[a] \in Ledgers /\ holder[ledgers[a]] = a
  BY Constants DEF DInv, TypeOK, Plan, NoLedger, Ledgers
<1>2. sweep' = [Waiting EXCEPT !.step = "planned", !.ledger = ledgers[a]]
  BY DEF Plan
<1>3. TypeOK' /\ Grows
  <2>1. sweep' \in Pass
    <3>1. ledgers[a] \in 0..MaxLedgers /\ 0 \in 0..MaxOrders
      BY <1>1, Constants DEF Ledgers
    <3> QED
      BY <1>2, <3>1 DEF Pass, Waiting
  <2>2. Grows
    BY Constants DEF DInv, TypeOK, Plan, Grows
  <2> QED
    BY <2>1, <2>2 DEF DInv, TypeOK, Plan
<1>4. OnLedger' /\ OnOrder' /\ Routed' /\ OwnFramesArriveUnlessShared'
  BY <1>1, <1>2 DEF Plan, OnLedger, OnOrder, Routed, OwnFramesArriveUnlessShared, Waiting
<1> QED
  BY <1>3, <1>4, PassMoves DEF Plan

LEMMA ProduceKeeps == ASSUME DInv, Produce PROVE DInv'
<1>1. PICK l \in Ledgers, i \in Orders :
        /\ l = sweep.ledger /\ holder[l] \in Account /\ i <= minted[l] + 1
        /\ minted' = [minted EXCEPT ![l] = IF i <= @ THEN @ ELSE i]
        /\ sweep' = [sweep EXCEPT !.step = "produced", !.order = i]
  BY DEF DInv, OnLedger, Produce
<1>2. minted[l] \in 0..MaxOrders /\ i \in 0..MaxOrders /\ sweep.missed = {}
  BY <1>1, Constants DEF DInv, TypeOK, Orders, Routed, Produce
<1>3. minted' \in [Ledgers -> 0..MaxOrders] /\ minted'[l] >= i /\ Grows
  BY <1>1, <1>2, Constants DEF DInv, TypeOK, Grows, Produce
<1>4. TypeOK' /\ Grows
  <2>1. sweep' \in Pass
    BY <1>1, <1>2, Constants DEF DInv, TypeOK, Pass
  <2> QED
    BY <1>3, <2>1 DEF DInv, TypeOK, Produce
<1>5. OnLedger' /\ OnOrder' /\ Routed' /\ OwnFramesArriveUnlessShared'
  <2>1. /\ sweep'.step = "produced" /\ sweep'.ledger = l /\ sweep'.order = i
        /\ sweep'.missed = {} /\ holder'[l] \in Account
    BY <1>1, <1>2 DEF DInv, TypeOK, Pass, Produce
  <2> QED
    BY <1>1, <1>3, <2>1 DEF OnLedger, OnOrder, Routed, OwnFramesArriveUnlessShared
<1> QED
  BY <1>4, <1>5, PassMoves DEF Produce

LEMMA SkipKeeps == ASSUME DInv, Skip PROVE DInv'
<1>1. TypeOK' /\ Grows
  <2>1. Waiting \in Pass
    BY Constants DEF Pass, Waiting, NoLedger
  <2>2. Grows
    BY Constants DEF DInv, TypeOK, Skip, Grows
  <2> QED
    BY <2>1, <2>2 DEF DInv, TypeOK, Skip
<1>2. OnLedger' /\ OnOrder' /\ Routed' /\ OwnFramesArriveUnlessShared'
  BY DEF Skip, OnLedger, OnOrder, Routed, OwnFramesArriveUnlessShared, Waiting
<1> QED
  BY <1>1, <1>2, PassMoves DEF Skip

\* The claim a pass makes is of a number its own ledger minted.
LEMMA ClaimProducedKeeps == ASSUME DInv, ClaimProduced PROVE DInv'
<1>1. PICK l \in Ledgers, i \in Orders :
        /\ l = sweep.ledger /\ i = sweep.order
        /\ holder[l] \in Account /\ minted[l] >= i
        /\ owners' = [owners EXCEPT ![i] = IF @ = Nobody THEN holder[l] ELSE @]
        /\ sweep' = [sweep EXCEPT !.step = "claimed"] /\ sweep.missed = {}
  BY DEF DInv, OnLedger, OnOrder, Routed, ClaimProduced
<1>2. TypeOK' /\ Grows
  <2>1. owners' \in [Orders -> Account \cup {Nobody}]
    BY <1>1 DEF DInv, TypeOK
  <2>2. sweep' \in Pass
    BY <1>1 DEF DInv, TypeOK, Pass
  <2>3. Grows
    BY Constants DEF DInv, TypeOK, ClaimProduced, Grows
  <2> QED
    BY <2>1, <2>2, <2>3 DEF DInv, TypeOK, ClaimProduced
<1>3. ClaimsEarned'
  BY <1>1 DEF DInv, TypeOK, ClaimsEarned, Minted, ClaimProduced
<1>4. OnLedger' /\ OnOrder' /\ Routed' /\ OwnFramesArriveUnlessShared'
  <2>1. /\ sweep'.step = "claimed" /\ sweep'.ledger = l /\ sweep'.order = i
        /\ sweep'.missed = {}
    BY <1>1 DEF DInv, TypeOK, Pass
  <2> QED
    BY <1>1, <2>1 DEF OnLedger, OnOrder, Routed, OwnFramesArriveUnlessShared, ClaimProduced
<1>5. Seated'
  BY <1>2, SeatsStand DEF ClaimProduced
<1>6. Accepted' /\ RowsShownUnlessShared'
  BY <1>2, DispatchStands DEF ClaimProduced
<1> QED
  BY <1>2, <1>3, <1>4, <1>5, <1>6 DEF DInv

LEMMA RouteKeeps == ASSUME DInv, Route PROVE DInv'
<1>1. PICK i \in Orders : i = sweep.order
  BY DEF DInv, OnOrder, Route
<1>2. /\ sweep' = [sweep EXCEPT !.step = "routed", !.owner = owners[i]]
      /\ owners[i] \in Account \cup {Nobody} /\ sweep.missed = {}
  BY <1>1 DEF DInv, TypeOK, Routed, Route
<1>3. TypeOK' /\ Grows
  <2>1. sweep' \in Pass
    BY <1>2 DEF DInv, TypeOK, Pass
  <2>2. Grows
    BY Constants DEF DInv, TypeOK, Route, Grows
  <2> QED
    BY <2>1, <2>2 DEF DInv, TypeOK, Route
<1>4. /\ sweep'.step = "routed" /\ sweep'.ledger = sweep.ledger /\ sweep'.order = i
      /\ sweep'.missed = {} /\ sweep'.owner = owners[i]
  BY <1>1, <1>2 DEF DInv, TypeOK, Pass
<1>5. OnLedger' /\ OnOrder' /\ OwnFramesArriveUnlessShared'
  BY <1>1, <1>4 DEF DInv, OnLedger, OnOrder, OwnFramesArriveUnlessShared, Route
<1>6. Routed'
  BY <1>4 DEF DInv, ClaimsEarned, Minted, Routed, Route
<1> QED
  BY <1>3, <1>5, <1>6, PassMoves DEF Route

\* Who misses a frame misses it to an account that minted its number.
LEMMA DeliverKeeps == ASSUME DInv, Deliver PROVE DInv'
<1> DEFINE missed == {c \in Reading(holder[sweep.ledger]) : ~Audience(sweep.owner, c)}
<1>1. /\ sweep' = [sweep EXCEPT !.step = "delivered", !.owner = Nobody, !.missed = missed]
      /\ sweep.step = "routed"
  BY DEF Deliver
<1>2. TypeOK' /\ Grows
  <2>1. sweep' \in Pass
    BY <1>1 DEF DInv, TypeOK, Pass, Reading, On
  <2>2. Grows
    BY Constants DEF DInv, TypeOK, Deliver, Grows
  <2> QED
    BY <2>1, <2>2 DEF DInv, TypeOK, Deliver
<1>3. /\ sweep'.step = "delivered" /\ sweep'.ledger = sweep.ledger
      /\ sweep'.order = sweep.order /\ sweep'.missed = missed
  BY <1>1 DEF DInv, TypeOK, Pass
<1>4. OnLedger' /\ OnOrder' /\ Routed'
  BY <1>1, <1>3 DEF DInv, OnLedger, OnOrder, Routed, Deliver
<1>5. ASSUME missed # {} PROVE Shared(holder[sweep.ledger], sweep.order)
  <2>1. PICK c \in Conn : /\ AccountOf[c] = holder[sweep.ledger]
                          /\ sweep.owner \notin {AccountOf[c], Nobody}
    BY <1>5 DEF Reading, On, Audience
  <2>2. Minted(sweep.owner, sweep.order)
    BY <1>1, <2>1 DEF DInv, Routed
  <2> QED
    BY <2>1, <2>2 DEF Minted, Shared
<1>6. OwnFramesArriveUnlessShared'
  BY <1>3, <1>5 DEF OwnFramesArriveUnlessShared, Shared, Deliver
<1> QED
  BY <1>2, <1>4, <1>6, PassMoves DEF Deliver
----------------------------------------------------------------------------
(* The theorems.                                                           *)

LEMMA DInvariant == Spec => []DInv
<1>1. ASSUME DInv, [Next]_vars PROVE DInv'
  <2>1. CASE UNCHANGED vars
    <3>1. TypeOK' /\ Grows
      BY <1>1, <2>1, Constants DEF vars, DInv, TypeOK, Grows
    <3>2. OnLedger' /\ OnOrder' /\ Routed' /\ OwnFramesArriveUnlessShared'
      BY <1>1, <2>1, <3>1, PassStands DEF vars
    <3> QED
      BY <1>1, <2>1, <3>1, <3>2, PassMoves DEF vars
  <2>2. CASE Next
    BY <1>1, <2>2, EmptyKeeps, ClearKeeps, EnterKeeps, LeaveKeeps, SubmitKeeps, TrackKeeps,
       QueryKeeps, ScopeKeeps, CollectKeeps, PlanKeeps, RetireKeeps, ProduceKeeps,
       SkipKeeps, ClaimProducedKeeps, RouteKeeps, DeliverKeeps DEF Next
  <2> QED
    BY <1>1, <2>1, <2>2
<1> QED
  BY InitInv, <1>1, PTL DEF Spec

\* Whatever the claims of dead ledgers, late dispatchers and interleaved resets
\* do to the table, a frame a pass produced reaches every reading socket of its
\* account, unless another account's engine numbered an order alike
\* (sweeper.rs:996, run.rs:1908).
THEOREM OwnFramesArrivePerNumber == Spec => []OwnFramesArriveUnlessShared
<1>1. DInv => OwnFramesArriveUnlessShared
  BY DEF DInv
<1> QED
  BY <1>1, DInvariant, PTL

\* And a query's reply loses a row only to such an account (run.rs:1933).
THEOREM RowsShownPerNumber == Spec => []RowsShownUnlessShared
<1>1. DInv => RowsShownUnlessShared
  BY DEF DInv
<1> QED
  BY <1>1, DInvariant, PTL

\* The state is well typed: ledgers are never shared or handed on.
THEOREM DeliveryTypeCorrect == Spec => []TypeOK
<1>1. DInv => TypeOK
  BY DEF DInv
<1> QED
  BY <1>1, DInvariant, PTL
=============================================================================
