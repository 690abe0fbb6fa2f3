# A TLA+ verification project for mogwai

mogwai is a fake exchange: a venue process that plays a generated tape to its
consumers, keeps a trading engine per account, fills resting orders against the
tape and can be told to misbehave. This directory models the parts of it whose
correctness depends on the order in which things happen. Paths below are
relative to `src/crates/` unless they start with `src/`.

- [The system](#the-system): components, their state, what is hard in them
- [Modules](#modules): what is modelled, and how it corresponds to the code
- [Runs](#runs): what TLC checks, the bounds, what the runs show
- [Findings](#findings): a disagreement with the documentation that a run shows
- [Other disagreements](#other-disagreements): met while modelling, without a run
- [Proofs](#proofs): what is proved for every value of the constants
- [What is not modelled](#what-is-not-modelled)
- [Plan](#plan)

## The system

| component | state it keeps | operations | interacts with | what makes it correct |
|---|---|---|---|---|
| engine order book (`mogwai-engine/src/orders.rs`, `lib.rs`) | open book, terminal truth store, fill store, seen ids | submit, group submit, cancel, amend, expire, ratchet, plan and apply scans | ledger, divergences, sweeper | an order lives one life; stale walk results are void; order lists keep their linkage |
| account ledger (`mogwai-engine/src/account.rs`) | balances, positions, cached holds, unsettled credit, marks | book a fill, hold and release, mark, settle, fund, breach | order book, sweeper | holds equal the fold over the book; a reduce-only fill reduces |
| divergences (`mogwai-engine/src/divergence.rs`) | queue of armed divergences, bounded at 64 | arm, spend | every handler that books | an arm is spent once, by what it was aimed at |
| risk policy (`mogwai-venue/src/risk.rs`) | peak equity, floor, lock | judge a span, ratchet, lock | extremes, sweeper, engine | the floor never falls; a locked account stays locked |
| account registry (`mogwai-venue/src/registry.rs`) | per account: incarnation, connections, pending admission, handoffs, freeze stamp | reserve, commit, begin reading, release, rollback, collect | socket upgrade, sweeper, TTL | a check made against one ledger never commits onto another; an account with a successor never freezes |
| boatyard (`mogwai-venue/src/boatyard.rs`) | one slot per boat key: placing, placed with passengers, failed | board, drop a ticket | tape threads, upgrade | single-flight placement; every joiner wakes; a boat lives while it has passengers |
| extremes (`mogwai-venue/src/extremes.rs`) | epoch, published span, the writer's own span | record a print, take a span | tape thread, sweeper, risk | every print is in one taken span |
| fill sweeper (`mogwai-venue/src/sweeper.rs`, `fills.rs`) | per boat: due instant, swept frontier | plan, walk, read marks, apply, enforce | every account's engine, boats | no span swept twice or skipped |
| outbound admission and writer (`mogwai-venue/src/admission.rs`, `ws.rs`) | byte budget, tickets, held charges, lanes | reserve, emit, write, close | handlers, sweeper | budget conserved; close always gets through |
| tape ring, pacing, history (`mogwai-venue/src/tape.rs`, `history.rs`, `vol_window.rs`) | ring of frames, cursor, pages | publish, receive, lag, page | writer, sweeper | a loss is declared before what follows it |
| order attribution (`run.rs`, `sweeper.rs`, `ws.rs`) | one table from order number to account | claim, look up, scope, retire | dispatcher, sweeper, TTL, reset | an account's frames and rows reach it, and only it |
| run lifetime (`mogwai-venue/src/run.rs`, `serve.rs`) | completion, fault latch, passengers | complete, fault, drain | all of the venue | shutdown waits for passengers, and ends |
| adapter (`mogwai-adapter/src/lifecycle.rs`, `client/`) | connection generation, receipts, order mirror, quotas | dial, back off, send, report undelivered, mirror | the venue, nautilus | a command is written or reported, once; the mirror never regresses |
| generator, lab, command line | streams of prices, files | generate, fit, measure | rivers | numeric; nothing concurrent |

The engine is a value behind a mutex (`tokio::sync::Mutex`), so its handlers are
atomic; the interleavings that matter are between a plan made under that mutex,
a walk of the tape made without it, and the application of its results under it
again. The lock-free part of the venue is the extremes hand-off. The registry
and the boatyard are mutex-protected maps whose users hold promises (a
reservation, a ticket) across awaits that may be cancelled. The adapter runs a
reconnect loop against a venue that may close at any point.

Every behaviour of this code that a unit test would hardly reach is listed under
`hazards` in `PROJECT.json`, at its line, with the properties that cover it.

## Modules

| module | extends | models | theorems in |
|---|---|---|---|
| `OrderLedger` | | the order state of one engine and its operations | `EngineBook_proofs` |
| `EngineBook` | `OrderLedger` | the engine's handlers, group loop and walkers | `EngineBook_proofs` |
| `OrderLifecycle` | | what the engine promises of every order; `EngineBook` implements it | |
| `Extremes` | | the lock-free hand-off of a span's high and low | `Extremes_proofs` |
| `Sockets` | | names shared by the next three | |
| `Registry` | `Sockets` | the connection registry, and what it promises alone | `Upgrade_proofs` |
| `Boatyard` | `Sockets` | placements, tickets and boats | |
| `Upgrade` | `Registry`, `Boatyard` | a socket from dial to dropped ticket, TTL sweep, POST /accounts; implements `RegistrySpec` | `Upgrade_proofs` |
| `Sweep` | | the fill sweeper against sockets, boats and orders that change under it | `Sweep_proofs` |
| `Feed` | | tape, broadcast ring, snapshots and the writer of one passenger | `Feed_proofs` |
| `Risk` | | the prop-firm risk ledger | `Extremes_proofs` |
| `Entry` | `Risk` | order entry of a policed account beside the sweep that judges it | `Extremes_proofs` |
| `Delivery` | | the table of order owners, who claims, who looks up, who retires | `Delivery_proofs` |
| `Outbound` | | one connection's commands, permits and lanes, from the read loop to the peer | `Outbound_proofs` |
| `RunEnd` | | what ends a run, who has to be told first, the exit status | `Feed_proofs` |
| `Mirror` | | what the adapter believes of one order | |
| `ExecClient` | `Mirror` | the adapter's execution client between host and venue | `ExecClient_proofs` |

`Feed_proofs` and `Extremes_proofs` each speak of two specifications that share
nothing, side by side, which is why `RunEnd` and `Entry` carry their module's
name in that of their specification (`EndSpec`, `EntrySpec`).

`MC` modules define constants only. An operator whose comment starts with
`Slip:` is a deliberately wrong variant of the definition that follows it (a
forgotten refresh, a dropped guard, an off-by-one). The models never use one;
replacing the definition's body by it breaks the property `PROJECT.json` names,
which shows that the property is sensitive to that mistake.

### OrderLedger

The order state of one engine, as a record, and the operations its handlers are
composed of, as functions from ledger to ledger: `Rest`, `Take` and `Put`
maintain the hold cache exactly as `rest_open`, `take_open` and
`refresh_open_hold` do; `CloseOut` and `CloseUnrested` are the two homes of "an
order went terminal" and reap the held children of an order that never filled;
`Linkage` is `apply_linkage_after_fill` (release, then `Oco` or `Ouo`);
`SweepFill` is the fill branch of `apply_scans_on_clock`; `Trigger` and
`Activate` are `on_trigger` and `on_activate`.

| model | code |
|---|---|
| `book[id]` with `resting`, `qty`, `leaves`, `rev` | `OpenOrder` in `OpenBook`: `resting`, `submit.quantity`, `leaves_qty`, `revision` |
| `book[id].px` | the level the order waits for; a number that changes whenever the code draws, states or seeds a level anew |
| `closed[id]` | the row `record_closed` freezes: status and filled quantity |
| `executed[id]` | the sum of the fills `record_fill` has booked |
| `seen` | the keys of `seen_client_order_ids` |
| `holds[id]` | what the cached holds charge for the order |
| `position` | the netted position of the one symbol |
| `armed` | the divergence queue, as a set |

`class` folds order types that take the same path: `stop` stands for every
market-on-trigger type, `stopLimit` for every limit-on-trigger type, and `trail`
for a trailing order with an activation level. `Market` is what the tape and the
synthesized ladder show: whether there is a reading, whether the order's level is
reached, how deep the ladder is, and whether the account can pay. It is chosen
freely at each use, so the model covers every tape.

### EngineBook

The engine's handlers as actions over one ledger, the group loop and the walkers.
A handler is one step. `on_submit_from` is the action `Submit`, a disjunction of
its early returns in the code's order (`ArmedReject`, `ArriveHeld`,
`ArriveConditional`, `ArriveBlind`, `ArrivePostOnly`, `ArriveResting`,
`ArriveTaking`); `on_submit_group` is `GroupSubmit`, one `Submit` or
`MemberRefused` per member and one `GroupClose` per filled member, during which
no other action is enabled because the lock is held. A walk is `PlanScan`
(`pending_scans`), any steps of anybody, and then one of `ScanMiss`, `ScanHit`,
`ScanStale` or `ScanDropped`.

Choices a reader should know: a divergence is armed at most once at a time (the
code queues up to 64, and sheds the oldest); one `Expire` step expires one order
although the code expires a batch under one lock; `VenueCancel` is every cancel
that reads no arm (`cancel_open_order_silently`, `cancel_unreadable_orders`);
the frontier that guards a scan beside the revision is left out here, so this
model relies on the revision alone, and `Sweep` models the frontier; the
wire-only arms are left out.

`OrderLifecycle` is what the engine promises of every order: placed once; waits
for its parent or works; only a working order executes; a waiting one works only
when its parent has executed; done is done. `EngineBook` implements it under the
refinement mapping `Life` (`Phase` computes the phase from the book, the truth
store and the seen ids); the property `Lifecycle` is `Life!Spec`. An order found
on the book and in the truth store at once, or in neither, maps to no phase and
refutes it.

### Extremes

The hand-off of a span's high and low from the tape thread to the sweeper.
`record_with` is four steps (`RecordPrint`: load the epoch and fold; `Recheck`;
`Lock`: take the mutex and load the epoch again; `Publish`), `take` is two
(`Bump`, which holds no lock, and `TakePublished`). `tape` and `takes` are
history. The reader's bump may fall between any two steps of the writer.

### Registry, Boatyard and Upgrade

`Registry` is `registry.rs`: per account an entry with its incarnation, the
records of its connections (committed or reading), the pending admission, the
stored count of handoffs and the freeze stamp. Every operation takes the mutex
once and is one operator over one entry: `Ensure`, `Reserve` (with the answers
of `ReserveAnswer` in the code's order), `Rollback`, `Install` (commit and the
connections it displaces), `BeginReading`, `Release`, `Collect`. `RegistryNext`
calls them in any order a caller might, and is the abstract specification: what
it promises (`LeaseExact`, `IncarnationsFresh`) holds whatever the callers do.

`Boatyard` is `boatyard.rs`: under each key a slot that is empty, placing,
placed with a passenger count, or failed; the semaphores that were closed
(`handed`); the ticket each socket holds; the boats whose tape runs.

`Upgrade` composes the two along `admit`, its detached tail and `handle_socket`.
A step runs from one lock or await to the next:

| steps of an upgrade | code |
|---|---|
| `Dial`, `Decide`, `Check` | `admit` samples the incarnation, decides whether the claim discards the ledger, and asks funding, policy and calendar of the ledger it will get |
| `TakeReservation` | `reserve` |
| `Board`, `Wake`, `Placed` | `Boatyard::board`: join, wait, place, fail |
| `Discard`, `Obtain`, `Commit`, `HandOver` | the tail, a task of its own: `reopen`, `Run::account`, `commit` with the closes it sends, and the answer to the handler |
| `Bind`, `Announce`, `Closed`, `Hangup`, `Leave` | `begin_reading`, the serving loop outside its select, its ends, the release and the dropped ticket |
| `ClientGone` | the handler's future is dropped at an await |
| `ReadExpired`, `CollectExpired` | `collect_expired_accounts`: reading and visiting are separate |
| `OpenAccount` | `POST /accounts` |

The client may go away at any await. Before the tail that drops the reservation;
during the tail it marks the upgrade `abandoned`, and the tail goes on and drops
the passenger at its end. A placement whose upgrade is dropped while it runs
leaves its slot placing for ever (`Stranded`), as the code does. The arms of
`commit` that refuse are unreachable (`ReservationHolds` says so), so `Commit`
is guarded by `Install`'s success. A socket, its admission, its connection and
its boat carry one name.

### Sweep

The sweeper's loop: `SampleAccounts`, `SampleBoats`, `Gather` per account under
its engine lock, `Read` (no lock held; a reading may fail), `Apply` per account,
and at the loop's top `Rescheduled`, which is `next_due`. Around it sockets
`Board`, `Commit`, `Resume` and `Leave`, and consumers `Submit`, `Amend` and
`Cancel`. Wall time is one counter and a boat's clock runs from its placement.
An order carries its scan frontier; `since`, `astray`, `owed`, `met` and
`settled` are history. A walk may find a hit at any instant after the frontier,
so the model covers every tape. `astray` marks what `FillsAfterAcceptance` does
not speak of: orders another river's bind pulled back, and orders that a return
found exactly at its own clock while a pass had them. Revisions are abstracted to "the scans gathered
by this pass that are still fresh" (`pass.scans`): whatever bumps a revision
removes its order from it. A hit fills its order whole; conditionals, river
faults and the drain budget, funding, marks and the end of a terminated run are
left out; all boats run at one speed; a release and its dropped ticket are one
step; the loop-top sampling is merged with the end of the pass before it.

### Feed

One passenger's market data. The tape's thread publishes frames into a ring of
`Depth` and never waits; a quote is kept for late sockets and sent under one
lock, a funding frame is kept and sent under two. The socket subscribes beside a
snapshot of what it missed; the writer takes what it can, learns from the ring
how many frames it lost, declares them before the next frame it writes, stops at
the end of the passenger's window and withholds while a window is armed. `wire`,
`lost` and `withheld` are history. Execution, heartbeat and history frames, and
the ring's own end, are left out.

### Risk and Entry

`Risk` is the ledger a policy keeps (opening, peak and day-open equity, the
period, locked and terminated) and what one reading of the equity does to it:
`Observe`, and `Replay` over several. `Entry` drives it: a submit passes
`CheckLock`, `CheckCap` and then `Act`, each a step, because the code awaits
between them; `Cancel` and `Modify` ask neither; `Pass` is a pass of one boat:
it fills working orders, moves the mark, replays the interval's extremes and the
close on the risk ledger, and liquidates on a breach, all under the engine's
lock. One instrument, netting, priced in the policy's currency, no lists, fills
whole, funds for everything. Two history variables remember what the cap checks have
not counted, and no other state depends on them: `stale`, the sockets whose check is of a book that
another socket's order has joined or a breach emptied since, and `unseen`, whether
size that no check counted has entered since the last such breach.

### Delivery

Every account's engine numbers its orders from 1, and one run-wide table
`owners` maps a number to an account (`order_owners`). A ledger is a number of
its own; `holder` and `minted` say whose it is and how many orders its engine
has minted. A socket is admitted in three steps (`Empty` discards the ledger on
a resetting claim, `Clear` retires the claims, `Enter` obtains the ledger), trades
with `Submit` and `Track` (the engine first, the claim after its lock) and asks
with `Query` and `Scope`. A pass of the sweeper is `Plan`, `Produce` or `Skip`,
`ClaimProduced`, `Route`, `Deliver`; the TTL is `Collect` and `Retire`. What a
frame says of its order is left out, and so is whether a lane has room for it,
which is `Outbound`.

### Outbound

One connection: the read loop (`Read`, `Timer`, `Announce`, `Close`, `Leave`,
`Depart`), the dispatcher (`Take`, then `Spawn` a history page, `Decline`,
`Refuse` or `Act`, then `Publish`; `AbortWorker`), history pages (`Slot`, `Walk`,
`Finish`), the sweeper's batches (`Sweep`, `Deliver`), the exec pump
(`PumpTake`, `PumpSend`, `PumpEnd`), the heartbeat (`Beat`) and the writer
(`WriterTake`, `Write`, `WriterEnd`). The permits are counters: `slots` of the
process, whose use by other connections is in `Read`'s choice to turn away; `bytes` of the connection's budget; `tickets` of
the priority lane. `held` and `prio` are unbounded lanes whose frames hold
permits, `out` is the bounded channel. `fate` follows each command; `heard` is
history. A held frame costs one unit: the sizing model
(`worst_case`) is assumed to dominate what is then serialized, as the code
assumes. Ack delays, withheld lane frames and the market frames of the writer
(`Feed`) are left out.

### RunEnd

The deadline task (`DeadlineCompletes`, `DeadlineFlags`, `DeadlineStops`: publish,
record that the end is planned, stop), a terminating `Breach` of the only
account, `Signal`, and faults, from a source or a FaultTape request
(`AskFault`, `AnswerFault`), through the thread that forwards the first
(`Relay`), all meet in one select (`Trigger`). Then the serve future drains
hyper's connections (`ServeEnds`) and, when the end is planned, the passengers
(`PassengersDrained`); `Exit` reports a recorded fault first, and `GraceEnds` is
`SHUTDOWN_GRACE`. A socket's `phase` goes from the request (`asking`) over the
tail (`seated`, where the passenger token is taken) and the 101 (`admitted`) to
`riding`, `telling` (an ending is chosen and waits for room in the bounded
channel), `closing` (the writer has `CLOSE_GRACE`) and `gone`, where the token
is dropped. Another admission may `Displace` it until its record is given up,
while it tells too: `displaced` is the close in its priority lane, which the
writer (`sink`) takes before an ending queued in the channel and then stops. A client may leave in any of them; a tail whose client left is an
`orphan`. The instants a completion carries are left out: a socket re-derives
them on its boat's clock. A breach is possible while somebody is aboard; that
the count of accounts it read may be stale is left out (`SoleAccount` is fixed).

### Mirror and ExecClient

`Mirror` is `ExecState` for one order: what an event from the venue, or a
rejection the adapter made up (`RejectOrigin`), does to the record. `ExecClient`
is the client around it: `SubmitOrder`, `ChangeOrder`, `Stop` and `Connect` of
the host; per generation a connection task that dials, takes commands, writes
them, and settles each receipt when its socket ends; the inbound filter that
drops, doubles or holds back a frame and the pump behind it; and the fence that
refuses what an old generation emits. The venue is outside `src`'s adapter and
modelled by what it may say: it admits or refuses, triggers, fills a unit at a
time, cancels, and speaks on the socket seated last.

An aborted task's writer may already have sent the first few of its receipts.
`GiveUp` is exhausted redials, a terminal frame or a lost sink. Refusals made
before a command leaves the client change no state and are left out, as are
`reset`, queries, the group ring, account snapshots, the latency categories of
the havoc filter and the pruning of closed records. Dropping `ws_cmd` and taking
a new generation in `connect` are one step.

## Runs

Deadlock checking is off in every run, because each bounded instance does stop:
ids are used up (an engine never reuses one), sockets dial once, and prints,
frames, time and faults are bounded.

| run | instance | checks |
|---|---|---|
| `orders` | a limit and a reduce-only limit with two walkers, a partial-fill arm, a refuse-cancel arm and an amend to 3; or two at a time of a post-only limit, a trailing stop-limit, its post-only stop-limit child, a fill-or-kill, a day reduce-only market-to-limit and an immediate-or-cancel market, with refusals for funds (`LimitsOrKinds`) | `TypeOK`, `HoldsExact`, `OpenRowsTruthful`, `AnswersItsQuestion`, `ReduceOnlyReduces`, `Lifecycle` |
| `brackets` | an entry with two exits, `Oco` or `Ouo`, in one frame in each of its orders, one walker, depth up to 2 | `HeldAwaitsLiveParent`, `LinkageHolds`, `AtomicAdmission` |
| `extremes` | three prices, four prints, three takes | `SpansCutTape`, `NothingUnpublished` |
| `upgrade` | two sockets, two accounts, one river at two speeds, a callsign, one ledger opened by POST; with and without reset on reconnect | `TypeOK`, `LeaseExact`, `BoatsSailForPassengers`, `ReservationHolds`, `RideKeepsBoat`, `LedgerAsChecked`, `AnsweredUnlessStranded`, `DisplacedLeaves` |
| `sweep` | two legs of one account or of two, two rivers, two placements, one order, two instants, a settlement at the first | `SettledOnce`, `FillsAfterAcceptance`, `RiddenOrdersKept` |
| `feed` | a ring of one slot, four frames of which two share an instant, no window end or one at the last frame | `HolesStated`, `NothingMissed`, `LossIsStated` |
| `entry` | two legs, three ids, three capped policies (daily limit; end-of-day trail with a static drawdown; intraday trail), orders up to twice the cap, a reduce-only one, resizes both ways (to 3), three price paths | `CapHolds`, `FixedFloorsWatched` |
| `delivery` | three sockets, two of one account, three ledgers, one order each | `OwnFramesArriveUnlessShared`, `RowsShownUnlessShared` |
| `outbound` | two inputs, of which at most two commands, two slots, a budget of two frames of which a batch may need both, one ticket, a channel of one | `PermitsConserved`, `AnswersSound`, `CommandsDecided`, `Departs`, `AnswersArrive` |
| `run_end` | one socket, one FaultTape request, a source fault, a deadline, a breach, a signal | `ToldBeforeCleanExit`, `CalledToEnd`, `EveryoneIsTold` |
| `client` | one conditional order, two connects, one lost socket, fault or change, all three faults | `NothingVanishes`, `EndsHold`, `Answered` |

`stop_remainder`, on a stop-market beside a limit, is expected to end in a
counterexample (see Findings).

Bounds. In `orders`, two units of quantity allow no fill, a partial and a whole
one. Two walkers are two overlapping passes, the most any order can be asked by
at once that differ. `MaxRevision` caps amends and walks per order at one:
enough for a walk to be overtaken, answered late, and planned again. The kinds
are kept two at a time because classes interact only through the position, the
arms and the parent link. In `brackets` the exits that would be conditional and
already through the market on arrival are kept out of `Through`: with them the
code breaks the linkage (see `triggered_member` below). `MaxLinked` is the
code's 8 and is never reached. Two upgrades are enough for every race of two
claims: joiner and placer, evictor and evicted, resetter and bystander, each
beside a TTL sweep; what needs more of them is what the theorems are for. In
`sweep`, two placements let a boat be replaced under its key while a pass keeps
the first, and two instants put a settlement, an acceptance and a hit on either
side of one another (the three properties also hold of three legs on one river
and three instants, and the theorems are for any number of either). A ring of one slot overwrites at every second frame, so
losses come before, between and after each other and a window. In `entry` each of the
four ways past the cap occurs and takes the position past it: `CapHolds` fails
when `unseen` leaves any one of them out. `MaxSpent = 1` in `client` is one mishap per behaviour, with a stop
and a second connect beside it. In `delivery`, three ledgers let one account's be
replaced beside the other's, and one order each already makes their numbers
collide. In `outbound`, everything shared is as small as it can be while two
answers, or an answer and a batch, can still stand behind one another; a batch
may use less than it reserved. One socket is enough for the liveness of
`run_end`, since sockets meet only in the drain, of which the theorem speaks for
any number of them.

### Fairness

- `Upgrade`: `WF(VenueStep(u))` for every socket. The runtime polls every task
  that can go on and a placement runs on a blocking thread that ends. A socket
  notices its close only in its loop's select, which `Announce` leaves for as
  long as the peer does not read. Nothing is owed by a client, an operator, the
  TTL sweep or a peer that should read or hang up.
- `Feed`: `WF(Write)`, the writer's task, on a sink that takes what it is given or
  fails (`End`). The tape, the peer and the consumer's windows owe nothing.
- `ExecClient`: `WF` of a connect's end, and of `Progress(g)`, that some step of
  generation `g`'s tasks (or of a venue that is there) is taken while there is
  one: less than tokio gives each task. The host owes nothing, and neither does
  the venue owe a fill.
- `Outbound`: `WF` of the dispatcher, the history pages, the writer, and
  the sweeper's delivery; `SF` of the pump and the read loop,
  whose sends compete for the bounded channel: tokio serves the waiters of a
  channel in the order they came, so nobody is overtaken for ever. The peer, the
  timer, the heartbeat, the sweeper's batches and other connections owe nothing.
- `RunEnd`: `WF` of the deadline task once it woke, of the relay thread, of the
  serving process' steps and its grace, and of each socket's own tasks, its loop
  and its writer. The launcher, a breach, other admissions, faults, consumers, upgrades under way and requests owe
  nothing: the grace covers them.
- The engine, the extremes, the sweep, order entry and attribution state no liveness and no
  fairness.

### What the properties say

- `HoldsExact`: the incrementally maintained hold cache is the fold over the
  book (`reconcile_order_holds` asserts it in debug builds).
- `OpenRowsTruthful`: quantity less leaves of a working order is what it has
  executed, through partial fills, amends and the shrinks of a sibling's fills.
- `AnswersItsQuestion`: a walk's hit books a fill only for an order that still
  waits for the level, and in the state, it was planned against.
- `ReduceOnlyReduces`: a reduce-only fill never grows or flips the position.
- `HeldAwaitsLiveParent`, `LinkageHolds`, `AtomicAdmission`: a held child's parent
  is on the book and unfilled; the linkage rules, whatever the member order and
  whether the fill came on arrival or off the tape; every frame that is valid on
  its own is accepted whole or not at all. This is of lists whose entry is not
  post-only and whose exits are not through the market on arrival; of the others
  the code promises less (see Other disagreements).
- `SpansCutTape`: the taken spans are exact summaries, to the instant, of
  consecutive runs of the tape; only a raced take may answer nothing wrongly.
- `NothingUnpublished`: the path that skips the mutex hides no extreme.
- `LeaseExact`: the stored handoff count is the number of connections committed
  and not reading, so no saturating subtraction ever hides one given back twice,
  and an account is stamped frozen exactly while nobody is on it.
- `ReservationHolds`: a reservation holds until its upgrade commits or is gone,
  against the sweep and other upgrades, and outlives neither.
- `BoatsSailForPassengers`, `RideKeepsBoat`: a boat runs exactly while somebody
  rides it; a registered ride names the very boat its owner's ticket keeps.
- `LedgerAsChecked`: who passed checks against a ledger is served that one; on a
  venue that does not reset, everybody on an account shares its ledger, and two
  on one river share a boat.
- `AnsweredUnlessStranded`, `DisplacedLeaves`: every upgrade is answered unless
  its key's placement was stranded; a displaced connection that has lanes leaves
  by itself and gives its boat back, unless its loop is announcing the ride's end
  to a peer that does not read (both exceptions are real).
- `SettledOnce`: no settlement is booked twice,
  and none behind a boat's frontier is missing for an account seated before it.
- `FillsAfterAcceptance`: a fill is on a print after the order, as it stands,
  was accepted; `RiddenOrdersKept`: the sweep cancels no readable order.
- `HolesStated`, `LossIsStated`, `NothingMissed`: each
  hole is declared with its count, running total and bounding instants before
  the next frame, and is declared in the end; every frame a writer is past was
  written, withheld, lost or out of the window; a late socket knows the quote.
- `CapHolds`, `FixedFloorsWatched`: the position stays within the cap whatever
  fills in which order, as long as each order in the book was counted by a cap
  check of the book it joined (`unseen` collects those that were not: reduce-only
  orders, resizes upward, and orders whose check was `stale`); extremes find a breach exactly when every print would,
  under floors that stand still: a policy without a trail on the intraday peak,
  and readings that are all of the period the ledger is in.
- `NothingVanishes`, `EndsHold`, `Answered`: a submitted order was written or is
  owed; a closed record is closed at the venue, guessed, or never got there, was
  reported unless a stop or a second connect came in between, and stays closed;
  every submit is answered, or a frame about it was lost.
- `OwnFramesArriveUnlessShared`, `RowsShownUnlessShared`: a swept frame reaches
  every reading socket of its account, and a query shows every row of it, unless
  another account's engine has minted the same number (the exception is
  real, see attribution under Other disagreements).
- `PermitsConserved`: no path of a frame, a reservation or a queued command,
  teardown and aborts included, loses a permit or returns one twice.
- `AnswersSound`: answers keep the order of
  the commands; no refusal names a command the engine acted on; what the engine
  did is published whatever aborts the dispatcher, while somebody listens.
- `CommandsDecided`, `AnswersArrive`: a queued command is decided although the
  peer reads nothing, and its answer arrives if the peer reads on.
- `Departs`: a displaced connection, and one whose time is up,
  leaves, unless its peer stopped reading (the exception is real, see the
  read loop under Other disagreements).
- `ToldBeforeCleanExit`: who exits zero at the deadline has nobody aboard, also
  no socket whose 101 was on its way when the accept loop stopped, and everybody
  with an ending that reads has read it, or the close of the admission that
  displaced it. `EveryoneIsTold`: one of the two happens, whenever a socket
  boards, and also if nothing ends the process.
- `CalledToEnd`: a signal, a deadline or a fault is followed by the exit, whoever
  stopped reading.

## Findings

`stop_remainder` ends in a counterexample: a triggered stop-market that takes
part of its quantity is recorded canceled and rested again as a live conditional
(`mogwai-engine/src/orders.rs:2193`); it fills after its cancel. The reference
says such a remainder never rests.

## Other disagreements

Met while modelling; the models take the code's side. Those of the first group
are counterexamples TLC finds when the formula given is checked; no run lists
them.

- The schedule: it keeps the boat it first saw under a key
  (`mogwai-venue/src/sweeper.rs:71`). A boat that winds down and is replaced
  between two loop tops stays in it, and the pass decides the orders of an
  account that rides the replacement on the departed boat's clock, which the
  comment at 232-235 rules out (`FillsAfterAcceptance` with
  `Rides(orders[o].account, pass.boat)` in place of its disjunction).
- The cap: `docs/config.md:391-394` promises the largest position the book can
  carry after an order, in the worst fill order. Four things go past it
  (`CapHolds` without `~unseen`, or with any one of them left out of `unseen` or
  `stale`). The check leaves working reduce-only orders out of the projection
  (`mogwai-venue/src/http.rs:653`), and one that fills first moves the position a
  plain order was netted against; a modify that grows an order is not checked;
  two legs may both be between check and engine; and an order larger than the cap
  passes against the opposite position, which a breach liquidates before the
  order enters. `CapAlwaysHolds` shows that the model has no other way past it.
- The report of a stop: `stop` withdraws the generation before it aborts
  (`mogwai-adapter/src/client/exec.rs:1199`), so the aborted task's report of
  what it never wrote is refused by the fence although the record closes: the
  host is not told, and `docs/adapter-lifecycle.md:169-172` promises it
  (`EndsHold` with `HostTold(o) == o \in told`).
- Attribution: `order_owners` is one table for the run, keyed by a number every
  engine starts at V-1 (`mogwai-venue/src/run.rs:690`): a second account's claim
  overwrites the first's, whose swept fills then go to the other account
  (`sweep.missed = {}`, with two orders). A reset or a collection also retires an
  account's claims between a pass's claim and its lookup (`run.rs:1255`), and the
  frame is broadcast to every socket as unclaimed, which the code calls
  unreachable (`sweep.step = "routed" => sweep.owner # Nobody`).
- Refusals: when no ticket is left for a refusal, the close that stands for it is
  an `Err` every call site drops (`ws.rs:661`), so a command gets neither:
  `Turn` with `tickets = 0`.
- The read loop: the completion and duration arms await room in the bounded
  channel outside its select (`ws.rs:1641`), so a peer that stopped reading keeps
  its connection past eviction, and CLOSE_GRACE is not reached (`Departs` without
  its exception).
- The announced end: a terminating breach on a venue with one account sends every
  socket RunComplete and stops nothing (`sweeper.rs:612`): the process serves on,
  where `src/README.md:225` and `src/docs/cli.md:286` say it exits
  (`heard[s] = "run" ~> exit # "no"`).
- FaultTape: it is answered "will exit nonzero" as long as the relay thread lives
  (`http.rs:1346`), also when a stop or a signal has been or will be selected; the
  process then exits zero (`exit = "zero" => post[p] # "exiting"`).
- A close ahead of the ending: an admission that displaces a connection while its
  loop waits to queue the ending puts a close in the priority lane, which the
  writer takes first and returns (`ws.rs:1155-1181`). The peer reads, does not
  learn that the run is over, its token is dropped and the process may exit zero
  (`ToldBeforeCleanExit` without its last disjunct).
- The graces: CLOSE_GRACE is shorter than SHUTDOWN_GRACE, so a consumer that
  stopped reading is cut off untold and the process exits zero (`ws.rs:1694`),
  which `src/docs/cli.md:384-386` says it no longer does (`ToldBeforeCleanExit`
  with `peer[s] = "stalled"`).

The others follow from the code as the models have it:

- `mogwai-engine/src/orders.rs:1533`: a limit filled by the sweep is recorded
  terminal with the filled quantity from before that fill, so a query reports it
  unfilled (`messages.rs:1012`: "Quantity filled so far.").
- `orders.rs:738`: a post-only entry that would take liquidity is refused only on
  a frame's second pass; its exits are accepted and held for ever
  (`docs/order-lists.md:10`: the whole group is rejected). The brackets' entry
  is therefore not post-only.
- `orders.rs:281`: two mutually shrinking members both through the market both
  fill whole; the linkage waits for the closing pass.
- `orders.rs:2370` (`triggered_member`): a conditional member triggered on
  arrival applies its linkage before its sibling is admitted.
- `orders.rs:2617`: a child of a child is accepted in one frame;
  `docs/order-lists.md:183` lists it as refused.
- `mogwai-venue/src/extremes.rs:203`: a print between `take`'s bump and its lock
  overwrites the closing span, and `take` answers that nothing was printed; the
  documentation says nothing is silently discarded. `SpansCutTape` allows it.
- `registry.rs:586-607, 630-641`: a connection evicted between its commit and its
  reading loses its record before it has lanes, so no close is sent to it; it
  crosses into serving and serves on off the record until its ride ends or its
  peer goes, against `docs/accounts.md:169-170` (every incumbent socket is
  closed). `DisplacedLeaves` speaks of those that have lanes.
- `run.rs:1040-1088`: on a venue that resets, a claim replaces the ledger before
  it commits, so incumbents it then displaces trade a discarded ledger in
  between; `LedgerAsChecked` therefore speaks of one shared ledger only where a
  venue does not.
- `boatyard.rs:337-355`: a dropped upgrade strands the placement it began, and
  every later passenger of that key waits for ever; `AnsweredUnlessStranded`
  names the exception.
- `tape.rs:214-220`: funding is kept and sent under two locks, so a socket that
  subscribes in between gets the frame twice; the comment at 190-193 says never
  both. `HolesStated` counts frames, so a double is not a loss.
- `sweeper.rs:1085-1092`: two extremes miss a breach of a floor that moves inside
  the interval (a trail on the intraday peak, a reset); `FixedFloorsWatched`
  states the case in which they do not. A lock can also be lifted early by a
  boat whose clock is ahead, for one account riding several.
- `http.rs:615-618`: a submit that passed the lock check enters the engine after
  a sweep locked the account, as both the check and the delay come first.
- `sweeper.rs:527-530`: a socket attaching to a running boat is booked the
  settlement of an interval it did not sit through.
- `lib.rs:1745`, `mogwai-data/src/trigger.rs:278`: a return from a freeze bumps
  no revision of an order it finds exactly at its clock, so a walk planned before
  the return is still applied to it; if that walk reached less far it moves the
  frontier back, and the next pass may fill the order on a print from before the
  return. It takes a pass that kept one boat, two sockets of the account and a
  third that placed the next boat in between; `FillsAfterAcceptance` leaves such
  orders out.
- `lib.rs:1708-1711`: an account frozen between the sampling of accounts and the
  gathering has orders canceled as unreadable; `RiddenOrdersKept` is about
  accounts that ride.
- `ws.rs:741-753`: the comment that a frame of an order just accepted cannot
  overtake its acceptance, since a sweep must walk first, leaves out the cancels
  of a breach and of an expiry, which need no walk.
- `ws.rs:915-955`: a finished history page for which no ticket is left is
  dropped, as its comment says.
- `sweeper.rs:137`: whether the venue holds one account is read when the pass
  starts and used when a breach is booked; an account opened in between is told
  that the run is over.
- `exec.rs:2874-2876`: an acceptance delivered after a fill sets the record back
  to accepted, since the arm guards only closed records.

## Proofs

Each theorem holds for every value of the constants that satisfies the named
assumptions of its module.

**The engine** (`TermsAssumption`, `BookAssumption`). `EngineBook_proofs` begins with
one lemma per ledger operation: what it does to the type and to the holds.

- `TypeCorrect == Spec => []TypeOK`. The type alone is not inductive: `leaves`
  is a natural number only because no fill exceeds it. The invariant adds
  `WellFormed` (on every slot `leaves <= qty`, an absent slot is `Absent`, the
  holds are exact) and that a walk names an id. An action then cites the lemmas
  of the operations it composes.
- `HoldsExactAlways == Spec => []HoldsExact`, from the same invariant: every
  operation that touches a slot moves the hold by the difference of `HoldEntry`.

The second part is about what becomes of the orders. Two relations say what an
operation makes of an order: `Deals` of the one it is about (a fill of some
quantity is booked once, within the position if it reduces only, and the order
stays with exactly that much more worked off or is recorded terminal), `Moves` of
every other (left alone, rewritten at a new revision, released after its parent's
fill, or taken off and recorded canceled). Each operation gets one lemma, and
every step of the engine is one of four kinds: it `Passes` the orders over, it
`Links`, one order `Works`, or one `Arrives`. The reaping of children reaches them
by a least set (`HeldBelow`), so no recursion is involved. The invariant `BInv` is
`IInv` with three parts: `Truthful` (book, truth store and fill store agree on
every order), `Asked` (a walk under way asks of the level its order still waits
for, unless the order has moved to a later revision) and `Booked` (the members
remembered for a group's closing pass have executed).

- `OpenRowsAlwaysTruthful`, `WalksAnswerTheirQuestion` and
  `ReduceOnlyAlwaysReduces` state `OpenRowsTruthful`, `AnswersItsQuestion` and
  `ReduceOnlyReduces`.
- `OnlyStopsFillAfterClose`: no order but a stop executes once its row is
  terminal. The exception is the finding `stop_remainder` reports.
- `EngineImplementsLifecycle`: `Spec => Lifecycle`, if no order's class is `stop`.
  The hypothesis excludes what that finding says breaks the refinement (a
  stop-market whose trigger fills it in part); stop-limits are in the theorem, and
  the run `orders` checks the refinement on terms of the same kinds.

The third part is about lists. A group is admitted member by member with no way
back: what its second pass has accepted stays accepted when a later member is
refused, and the linkage of fills on arrival waits for the pass that closes it.
What a list promises therefore depends on what its members may be refused for,
and each theorem names that as a hypothesis on the terms. The run `brackets` has
terms that satisfy all of them.

- `HeldAlwaysAwaitsLiveParent`, where no list's root can be refused once its group
  is under way and no list nests (`RootsAccepted`). `Awaiting` says that a held
  child's parent is on the book and unfilled, or that the group under way has yet to
  admit it or to link its fill.
- `FramesAdmittedWhole == Spec => []AtomicAdmission`, where no member can be refused for funds
  or for what its own type cannot take (`MembersAccepted`). `Whole` says that
  each member of the group under way is accepted or still comes up, that those
  accepted are on the book or have fills the group has still to link, and that
  parents travel with their children: the second pass finds each parent there,
  with room for one more child.
- `LinksHold == Spec => []LinkageHolds`, where moreover no linked order comes
  alone, no `Ouo` order is reached on arrival and none is amended (`LinksAccepted`).
  `Linking` says that an executed `Oco` order's siblings are off the book unless the
  closing pass has still to link it, and that what an exit has left fits within what
  neither it nor its mutually shrinking sibling has executed.

**The hand-off** (`ExtremesAssumption`, `NullAssumption`).

- `NothingUnpublishedAlways == Spec => []NothingUnpublished`. `IInv` adds that a
  call standing at its re-check with its epoch still open has published what it
  holds, that a call's extremes are of the epoch it loaded, and that a take under
  way closes an epoch that is already over, so it never removes the open span.
- `SpansAlwaysCutTape == Spec => []SpansCutTape`. The witness, where the takes cut
  the tape, has to be carried along: `CInv` says that there is a cut of the takes
  answered so far and a print after which the open run begins (`Laid`), that what
  the recorder publishes next is the summary of that run, and that a publication
  which comes late is of the run being closed, to its last print (`Lags`).

**The cap and the floors** (`RiskAssumption`, `EntryAssumption`), in the same module, since
what the hand-off delivers is what the floors are judged by. What a pass computes
is recursive (the ledger after each reading, the book after each fill), over
sequences of any length. A function that takes a finite run of steps exists
(`IteratesExist`, by induction over the set of lengths for which it does), and what
holds before each step holds of the last (`NatSetInduction`, from the library's
well-founded order on the naturals).

- `FixedFloorsAlwaysWatched == EntrySpec => []FixedFloorsWatched`. Both ways of
  judging come down to whether equity is under a floor at some place read
  (`ReplayStands`, as a reading that does not fire leaves standing floors where they
  are). Equity is linear in the price, so it is nowhere lower than at one of the
  extremes. `EntryInv`, the type and that a command's id is spent, is the invariant;
  its hard part is a pass, which fills a choice of the working orders and may
  liquidate the rest.
- `CapAlwaysHolds == EntrySpec => []CapHolds`, of any traffic. The position's bound
  is not inductive; `CapInv` is that, while nothing is `unseen`, the book has room
  for either side to fill whole before any of the other, and for any one submit
  between check and engine whose check still counts (`Counted`) on top. A fill
  moves the position by exactly what its side stops adding, so neither end of the
  range moves out (`Tighter`), whatever is filled and in whatever order. What a
  side can still execute is the number of its lots, a set, so that an order leaving
  takes its own with it (`LotsWithout`). An entering order makes every other check
  stale, and so does a liquidation, which empties the book and with it what was
  unseen.

**The registry** (`SocketsAssumption`, `RegistryAssumption`), alone, under any
callers `RegistryNext` allows; the first part of `Upgrade_proofs`.

- `RegistryLeaseExact == RegistrySpec => []LeaseExact`. `LeaseInv` adds the type,
  that an account's records are finitely many and that a socket is on record at
  most once per account, without which a release would not give back exactly the
  handoff it must.
- `IncarnationsAlwaysFresh == RegistrySpec => []IncarnationsFresh`.

**A socket's life** (with `UpgradeAssumption`). The invariant `IInv /\ YInv` is
proved as `VenueInv`:

- `Riders`: only a connection between its commit and its release is on record,
  on the account and under the ride it asked for, so `Install` never finds its
  socket registered anywhere.
- `Holders`: admissions that reserved and accounts that are pending name each
  other, so no other upgrade and no sweep can take an entry from under one.
- `YInv`: a placed slot is named by the socket that placed it, counts exactly the
  tickets that name it, and has a passenger (`Crewed`); a socket holds a ticket
  exactly from its boarding to its leaving, of the boat placed under its key, and
  a boat is under one key only (`Voyage`).

From it follow `UpgradeTypeCorrect`; `UpgradeImplementsRegistry == Spec =>
RegistrySpec`, each step of the venue being one call the abstract registry
allows or none; `LeaseAlwaysExact` by that refinement; `ReservationsHold`;
`BoatsAlwaysSailForPassengers`; and `RidesKeepTheirBoats`. The proof has one
lemma per kind of step about the registry's side (`...Kept`) and one about the
yard's (`...Voyage`, `...Afloat`), over lemmas that say how a step moves its
upgrade (`...Shape`). The passenger counts need the cardinality of the set of
tickets to grow and shrink by one with each boarding and each drop.

- `LedgersServedAsChecked == Spec => []LedgerAsChecked`. `LedgerInv` ties an
  upgrade to the ledger it read through the incarnation it observed: `Checked`
  says that while the account is intact (open, of that incarnation, with no
  discarding reservation pending) the ledger the checks read is the one in the
  map, and that what the commit served is what was checked; `Shared` says that on
  a venue that resets nothing whoever is on record is served the ledger in the map
  and rides one boat of each river. It rests on `IncarnationsFresh`: a ledger is
  dropped only with its incarnation, which is never minted again.

**The sweep** (`SweepAssumption`), for any accounts, sockets, rivers and orders, any
number of placements and instants, and settlements at any of them. `IInv` adds to
the type

- `Fleet`: the boats were placed one after the other and are swept no further than
  their clocks, and the boat of a seated leg is the last placed under its key;
- `Booked`: nothing is booked beyond a boat's frontier, nor to an account the pass
  has yet to reach beyond the frontier it set out from, so a span swept again after
  a failed reading books nothing twice; and whoever is `Seated` outside a pass is
  one the pass attached, booked what it was owed up to there (`Paid`);
- `Scanned`: an order that is not astray waits, on any boat its key's riders have,
  for a print no earlier than its acceptance, and so does any walk still fresh for
  it (`Fresh`): what makes a stale walk harmless is that every move that could put
  its span behind the acceptance also takes the order from `pass.scans`;
- `Known`: a pass that gathers has sampled the boat of every leg registered before.

It yields

- `SettlementsBookedOnce == Spec => []SettledOnce`: at most once each, and none a
  sitting leg was owed is passed over;
- `FillsOnlyOnLaterPrints == Spec => FillsAfterAcceptance`, an action property. The
  attempt to prove it is what showed the corner of `lib.rs:1745` above, which two
  sockets do not meet;
- `RiddenOrdersAlwaysKept == Spec => RiddenOrdersKept`, another;
- `SweepTypeCorrect`.

**Attribution** (`DeliveryAssumption`). `DInv` says that claims are of numbers
the owner's engine minted (`ClaimsEarned`), that a seat, a dispatcher and a pass
stand on a ledger of their own account (`Seated`, `Accepted`, `OnLedger`,
`OnOrder`) and that a routed frame's owner minted its number (`Routed`). Ledgers
are never handed on and engines never forget a number (`Grows`), so an earned
claim stays earned.

- `OwnFramesArrivePerNumber`, `RowsShownPerNumber`, `DeliveryTypeCorrect`.

**The feed** (`FeedAssumption`), for any tape, ring, window and interleaving of publisher,
socket and writer. The messages on the wire are described from the tape: `Placed`
and `Phased` say where subscription, ring and writer stand, `Covered` and `Inside`
that each frame behind the writer was written, withheld, counted as lost or lies
past the window, `Quoted` that the quote a later subscriber would be given is one of
these, waits in the snapshots or is ahead of the writer, and `Holes` that every declaration sent is numbered, totalled and
dated by its neighbours (`Fair`, `Counted`, `Agrees`, `DatedAt`). Each is kept when one
message is appended, which is how a property of a whole sequence stays
inductive.

- `HolesAreStated == Spec => []HolesStated`.
- `NothingIsMissed == Spec => []NothingMissed`.

**The end of a run** (`SoleAccountAssumption`). `EndInv` adds to the type that the plan is recorded before
the stop and the stop is what the select saw (`Ordered`), that behind the serve
future there is no request and none begins (`Closed`), that a planned end is done
only with the last token dropped (`Drained`), and that a socket with an ending
leaves by its writer, which has put the ending or the close of a displacement on
the wire unless the peer stopped reading (`Flushed`).

- `CleanExitIsTold == EndSpec => []ToldBeforeCleanExit`.

**The execution client** (`ExecClientAssumption`), for any orders, generations,
faults and losses. `CInv` adds to the type:

- `Sole`: a submit is owed by one place of one generation's book and queue only;
  `Waits`: it is on the wire if it is being sent, and otherwise its order is
  submitted and new to everybody, so whoever gives it up may say so.
- `Wired` and `Known`: what the venue knows was written or may have been, and the
  host announced it.
- `Frames`: every frame on its way, held back or in the pump is `Founded`, true of
  the venue, and stays true since the venue's order only moves on.
- `Unissued`: a generation not yet issued has no task.
- `Ended`: a closed record is honest, and was told to the host unless the client
  was `Withdrawn`, which nothing undoes.

Steps are handled by what they do: those that leave commands alone, a submit, a
write, a disconnect, a give-up or a death that reports what is left, the delivery
of a frame, and the venue's own.

- `NoSubmitVanishes == Spec => []NothingVanishes`: a submit announced to the host
  is owed, at the venue, or accounted for.
- `EndsAlwaysHold == Spec => EndsHold`: a closed record is never reopened nor
  closed for a reason that did not happen.

**Outbound** (`OutboundAssumption`), for any number of commands and batches and any
size of budget, lanes, queue and channel. Neither property is inductive alone: a
publication's permits balance only because what is published fits its reservation,
and an answer is the latest of its lane only because of where its command was
before. `IInv` is

- `Loads`: the type, what kinds of frame each lane carries (`Lanes`), that only
  what is being published is reserved for, and that it fits (`Reserved`), and the
  sums of the byte budget and of the tickets;
- `Stations` and `Places`: each command is at the one place its fate names, the
  commands read are the first sent, those queued wait in that order behind the
  dispatcher's, and each command queued or with the dispatcher holds one slot;
- `Told`: what was heard, the writer's hand, the channel, the pump's hand and the
  held lane each answer no later a command than the next (`InLine`), and none that is
  not decided (`Decided`); a refusal is of a command turned away; the pump ends only
  with the connection (`PumpStays`); what the engine did is with the dispatcher or
  among those answers (`ActedIsTold`).

Each part gets one lemma per action (`...Loads`, `...Places`, `...Told`), over lemmas
on how counting and what is said distribute over concatenation.

- `PermitsAlwaysConserved == Spec => []PermitsConserved`.
- `AnswersAlwaysSound == Spec => []AnswersSound`.

**Only model-checked.** Every invariant the runs check is a theorem, but not
every one without hypotheses: the list properties are false of the terms their
hypotheses exclude, where the code keeps no such promise.
Out of the prover's reach are liveness under fairness and `ENABLED`, hence
`AnsweredUnlessStranded`, `DisplacedLeaves`, `LossIsStated`, `Answered`,
`CommandsDecided`, `Departs`, `AnswersArrive`, `CalledToEnd` and `EveryoneIsTold`;
and operators declared RECURSIVE, which no module here uses.

## What is not modelled

- Of outbound admission: the ack delays and the lane frames a window withholds;
  the sizing model is assumed to dominate.
- The order of one account's events once the engine's lock is dropped (`ws.rs`
  725-756, `http.rs` 828-833, `sweeper.rs` 966-1070): `Delivery` and `Outbound`
  model who gets them and whether, not how two producers' events cross.
- Boot, readiness, launcher supervision and the operator's endpoints but
  FaultTape; the health report of a fault.
- Commissions, margin, currencies, funding and the terms of an account;
  hedging positions; `retire_off_river`.
- `DuplicateNextFill`, `DropNextAccountUpdate`, the latency arms and the bounded
  queue of divergences.
- Of the adapter: the data client, queries, account snapshots, group refusals,
  `reset`. Commands queued while it backs off go out on the next socket, which
  the model has; frames in flight when a socket dies after a write are lost,
  which is why `Answered` excepts orders a frame of which was lost.
- `POST /accounts` between the check and the claim of one request (`run.rs` 1393).
- The tape generator, the offline tools, conversion and parsing, the clocks:
  numeric or pure input and output, without interleavings.

## Plan

Written so far, in this order: OrderLedger, EngineBook with OrderLifecycle,
Extremes; Registry, Boatyard, Upgrade; Sweep; Feed; Risk, Entry; Mirror,
ExecClient; Delivery; Outbound; RunEnd; and the proofs above. What is left, most
important first:

1. The cap as the code should have it: the projection with reduce-only orders, a
   modify that is checked, one check and entry under one lock; then `CapHolds`
   without `unseen`.
2. `EngineBook`: hedging positions and the divergence queue with its bound.
3. The order of events after the engine's lock, and account snapshots.
4. The data client, whose lifecycle is `ExecClient`'s without receipts.
