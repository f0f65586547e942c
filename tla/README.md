# A TLA+ model of the Kite trading node

The repository is a trading node: it feeds one futures slot of a Zerodha Kite account
(MCX) to a bar model and moves the account's position to what the model wants, with real
orders.  No order journal is kept and no crash is recovered from: every live start requires
a flat account without open orders, and Kite is the source of truth.  So all that protects
the account is how the live processes of one run interleave: the strategy, the execution
client's order tasks, its order-stream monitor, the run's watcher, and Kite, which answers
late, twice removed (order book, trade book, positions) or not at all.

This directory models those parts, model-checks them with TLC and proves the safety of the
four that hold the run together (dispatcher, order stream, strategy, feed) and of the moved
stop with TLAPS.  `src/` below is the repository root; NC is
`crates/kite-adapter/src/execution/native_client`, KN is `apps/kite-node/src/native_node`.

## The system

| Part | State | Operations | Talks to |
|---|---|---|---|
| Dispatcher (`NC/dispatch.rs`, `execution/broker_events.rs`) | records (events, broker id, management outcome), poisoned flag, owned position | `submit_guarded` (with `admit`), `cancel`, `modify_stop`, `refresh`, `audit`, `finish`, `fault` | Kite over HTTP; the engine over a channel of order events; everyone through one async mutex |
| Execution client (`NC/mod.rs`) | connected, active, order_stream_ready, tasks, poll task | `connect`, `submit_order`, `cancel_order`, `modify_order`, `disconnect` | spawns a task per command; raises the run's `done` flag when it fails |
| Order-stream monitor (`NC/order_stream.rs`) | socket, reconnect history, Notify, connection watch | reader, reconciler | dispatcher's lock, `ready` and `active` flags |
| Live strategy (`KN/model_strategy.rs`) | target, ours, in flight, timed out, halted, flatten attempts, exit cancels | bar, quote, one-second timer, order filled / cancelled / expired / rejected / denied | engine's cache, execution client, run control |
| Run control and watcher (`KN/live_control.rs`, `KN/model_live.rs`) | done, stopping, flat, fault | `fail`, `run_fault`, wait for flat, stop the node | strategy, feed and client share its flags |
| Market feed (`KN/data.rs`, `ws_candles.rs`, `live_backfill.rs`, `websocket/supervisor.rs`) | socket generations, current and closing bars, backfill state | tick to bar, reconnect, gap, hand-over | strategy's data, run control |
| Order budget (`crates/kite-execution/src/rate_limit`, `NC/coordination.rs`) | one Redis key per account: history, last time, cooldown | `reserve`, `cooldown`, reopen | every slot of the account |
| Dashboard (`KN/dash_writer.rs`, `dashboard.rs`) | bounded queues, the board | `push`, flush, `close` | its own thread and Redis |
| Broker client and mock (`NC/broker.rs`, `mock.rs`, `outage.rs`), reports, fees | none, or the paper account | `snapshot`, `generate_mass_status`, retries of a read | Kite over HTTP; the execution client |
| Bar models (`crates/wvad`, `sniper`, `lorentzian`, `sats`) | open trade, calibration | `on_bar`, `mark_target`, `force_close` | the live strategy (WVAD), the replay |
| Replay (`KN/model_backtest.rs`) | day schedule, book of executed lots | one bar after another | a bar model |
| SATS strategy (`backup/kite-node`, parked) | open lots, resting stop, exit, halt | bar, quote, timer, order events | engine, execution client |

What makes it hard: the answer to a place call may be lost while the order lives; the books
trail the exchange and each other; a cached position may be one fill old; a socket may be
dead without being closed; the flags of the run are read on one thread and written on
another; a client that fails stops itself, and with it the only way to flatten.  What
makes each part correct is stated as the properties below; `PROJECT.json` lists every
hazard at its line.

## Modules

**`OneOrderAccount`** is the abstract specification of the dispatcher together with Kite:
an account whose position is within a cap, with at most one working order, which trades a
lot at a time; an order is opened only as a reducing exit, an entry from flat or one flip.

**`KiteDispatcher`** is `dispatch.rs` with `broker_events.rs`, and Kite.  The dispatcher's
variables are its records (`order`, `status`, `filled`, `known`, `management`), `poisoned`,
`position`, the events sent (`tx`), the call it awaits and the phase of the run.  Kite's are
what really happened (`phase`, `exFilled`, `net`) and what a read of each of its three views
would return now.  Actions:

| Action | Code |
|---|---|
| `Deny`, `Place` | `submit_guarded` to the broker call: no resubmission, `admit`, budget, record, poison, Submitted |
| `PlaceAcknowledged`, `PlaceRejected`, `PlaceStopped`, `PlaceUnknown` | the outcome of the call (`transport.rs`) and the rest of `submit_guarded` |
| `Cancel`, `CancelAnswered`, `CancelStopped` | `cancel` before and after its call |
| `Abort` | `shutdown.rs`: the task is aborted inside its await |
| `Refresh` | `refresh`, `prepare_observation`, `broker_events::reconcile` |
| `Fault`, `FinishStarts`, `FinishSettles`, `FinishGivesUp` | `fault`, `finish` |
| `Kite...`, `...CatchUp` | external: the exchange and the three views |

The mutex makes every operation atomic but for the broker's await, so only place and cancel
have two steps.  A refresh's reads are the moment of its step: the books are read last and
nothing is awaited after them.

**`LiveRun`** is a run seen from the strategy: `Bar`, `Quote`, `Tick` and the order-event
handlers compute the strategy's next state with functions named after the code
(`NextOrder`, `Reconciled`, `ClosedByBroker`, ...).  A handler that decides to send is two
steps, because `reconcile` reads the stop flag before it withdraws `flat` (`Send`), and the
watcher runs on another thread.  The client's order task (`Dispatch...`), its failure
(`ClientStops`), the feed's fault (`FeedFails`), the watcher and Kite interleave with it.
The dispatcher is its admission rule here; lost orders, refusals, partial fills and cancels
are choices of Kite.

**`OrderStream`** is the monitor with its two futures, which interleave at their awaits:
the reader (`UpdateArrives`, `Probe`, `Heartbeat`, `Dropped`, `ConnectFails`, `Connects`,
`BadFrame`), the reconciler (`Wakes`, `Locks`, `Reads`, `Applies`, `Audit...`, `ReadFails`),
the end of the monitor (`Flagged`, `Faulted`, `Ended`) and the order commands that want the
same lock.  Kite's books are a version number here.

The three meet at named points: `Admitted` of KiteDispatcher takes `ready`, which
OrderStream maintains, and `seen`, the cached position that LiveRun records in each order;
`Admissible` in LiveRun is the part of `Admitted` that depends on the strategy;
`ClientStops` in LiveRun is the end of OrderStream's monitor; `Fault` in KiteDispatcher is
what both do to the dispatcher.

**`ProtectiveStop`** is the part of the dispatcher that `KiteDispatcher` leaves out: one
resting stop whose trigger is moved.  `Command`, `Modifies`, `Cancels` are `modify_order`
and `cancel_order` with the wait for the lock between the checks of `mod.rs` and those of
`dispatch.rs`; `Acknowledged`, `Uncertain`, `CancelEnds` are the answers; `Refresh` is
`prepare_observation`'s reading of the trigger; `Kite...` and `Exchange...` accept, decline,
trigger and fill, and two books trail them.

**`CandleAggregator`** is the aggregator of `ws_candles.rs` as operators on a record
(current bar, closing bars in their grace, carried volume, late trades); recursion over
bars is a recursive function there, for the proofs.  **`Feed`** composes
it with the supervisor, the data client and the backfill.  Supervisor and client are one
task, the backfill is another; both send bars to the strategy under one lock.

| Action | Code |
|---|---|
| `Subscribe`, `Connect`, `LosesConnection`, `Wakes`, `DurationReached`, `Cancel` | `websocket/supervisor.rs`: generations, backoff, end |
| `ReceivePacket`, `ReceiveOneSided`, `ReceiveHeartbeat`, `ReceiveError` | the client's callback in `data.rs`: freshness, quote, trade to bar, gap |
| `ClockEvent` | the 250 ms callback: bars whose grace is over, silence of data |
| `FetchSucceeds`, `FetchFails` | `live_backfill.rs`: history for the bars the stream joined too late for |
| `Tick`, `Trade`, `Send`, `LinkBreaks`, `Stop` | external: time, the market, the network, the operator |

**`BarModel`** is the abstract promise of a bar model to its runner: entry, partials at
rising targets, one exit of exactly the rest, a stop that follows the targets reached and
never runs back or ahead.  **`ModelTrade`** holds what the engines share (a trade, its lots,
its targets), **`WvadEngine`**, **`SniperEngine`**, **`LorentzianEngine`** and
**`SatsEngine`** are the trade life cycles of the four engines (SATS with its calibration
epochs).  **`SatsReplay`** is the executed position of SATS' own replay in its exit modes,
with its trailing stop and its bracket.  **`BarModels`** runs one of the engines under the
live runner (`LiveBar`, `LiveStop`, `LiveTarget`, `LiveCloses`) or a replay (`ReplayBar`:
schedule, blackouts, square-off, book; `SatsReplayBar`) and maps it to `BarModel`.  Indicators are choices: a crossing, a signal or a
quality is any value the code distinguishes.

**`Services`** puts five modules that share no state in one run: a behaviour has one subject
and the others stand still.  They are `ProtectiveStop` and

* **`OrderBudget`**: `reserve.lua` and the limiter over a Redis that logs behind, crashes
  (`Crash` loses the writes not yet logged) and whose clock may be set back; an answer may
  get lost after the script ran;
* **`DashQueue`**: two producers, bounded queues, the thread (`Drains`, `CountsDropped`,
  `FlushSucceeds`, `FlushFails`, `RetryDue`; `Unpublished` when no Redis is configured) and
  `Close`, after which the watcher may still push once, because it is aborted and not joined;
* **`AccountView`**: the five requests of a snapshot, one after another while the account
  moves and Kite's rows, trades and position show it each in its own time (`KiteShows`); their
  retries, what the client accepts at `connect` and in a mass status, and the mock broker,
  which fills its orders when it is asked;
* **`SatsLive`**: the parked SATS strategy over the client's queue of calls, the dispatcher's
  one-order rule and Kite, with the stop that rests at the exchange.  `NoStop`, the value for
  no resting stop, is the id of no order, as `None` is in the code; the single exit may be at
  any of the three targets.

The abstract links between the parts are three.  `Feed`'s fault is `FeedFails` of `LiveRun`;
a `Bar` of `LiveRun` is an element of `Feed`'s `sent`; a refusal by `OrderBudget` is `Deny`
of `KiteDispatcher`.  `LiveRun` uses WVAD's trade through the lots that a bar or a target
leaves, which `BookFollowsModel` and `ImplementsBarModel` justify.

**`KiteDispatcher_proofs`**, **`OrderStream_proofs`**, **`LiveRun_proofs`**, **`ProtectiveStop_proofs`**,
**`Services_proofs`**, **`Feed_proofs`** and **`BarModels_proofs`** hold the theorems (see below); **`DataLemmas`** has facts
about sets, sums and histories that they share, **`Totals`** the sums of a sequence and over a set.

`MCKiteDispatcher` and `MCLiveRun` add the symmetry of the order ids and one state
constraint (see below), `MCFeed` and `MCServices` one constraint, `MCBarModels` and `MCServices` values of
constants.  The constants of `Services`' parts are assumed there, so that TLC evaluates them.  Definitions marked "Mutant" are wrong variants of code used to
show that a property can fail; nothing else refers to them.

## What the runs check

| Run | Question | Properties |
|---|---|---|
| `dispatcher` (2 orders, cap 2) | Does one order at a time survive lost answers and trailing books? | OneLiveOrder, ExposureWithinCap, ReduceOnlyReduces, RecordsTellTheTruth, PositionSettled, EventsLawful, CleanStopIsFlat, ImplementsAccount |
| `live_run` (the deployed slot: 3 lots, 1 and 1 closed at the targets; 2 trades) | Does the strategy's logic ever run into admission, repeat an entry, trade after the end, or say flat wrongly? | AlwaysAdmissible, EntryNeverResent, EntriesOnlyWhileTrading, FlatIsTrue |
| `live_run_progress` (2 lots) | Does the position arrive? | TargetReached, HaltedFlattens |
| `live_run_stops` (1 lot) | Does a run that cannot go on stop? | UnresolvedHalts, ClientStopEndsRun |
| `order_stream` (2 changes, 3 connections, 2 reconnects) | Do entries reopen only on current knowledge; is an update ever forgotten? | ReadyMeansRead, NoLostUpdate |
| `order_stream_live` (1 change, 2 connections) | Do the timers repair what the stream loses? | EndedOrderResolved, EntriesReopen, MismatchStops |
| `feed` | Does the strategy get every bar once, in order, with all its volume, or a fault? | TypeOK, BarsInOrder, VolumeConserved, HolesAreKnown, FaultedUnlessWhole, SilenceFaults |
| `bar_models` (4 lots, 1 and 1 closed at the targets) | Do the four engines keep their promise on bars, on ticks and in the replay? | TicksAgreeWithBars, FlatOvernight, BookFollowsModel, EpochPure, ImplementsBarModel |
| `services` | Five parts, each under its own faults: see below | BudgetHolds, UpdatesAccountedFor, ViewAddsUp, NeverBothFill, StopNeverLoosens |
| `mismatch_flattens`, `partial_flip`, `stop_race` | Three sentences of the documentation that the code does not keep | MismatchFlattens, PartialFlipHalts, StopsOnlyWhenFlat |

The first nine pass.  The last three end in a counterexample each:

* *Mismatch.*  `README.md` says a position mismatch "halts new orders and flattens".  The
  audit's error poisons the dispatcher and stops the client, so the flatten is refused.
  (A rejection does flatten.)
* *Partly filled flip.*  The header of `model_strategy.rs` says the strategy halts;
  `closed_by_broker` abandons the trade, flattens the rest and goes on trading.
* *Stop race.*  The watcher can read `flat` as true after the strategy decided to send an
  entry and before it withdrew `flat`; the node stops and the entry fills.  The window is a
  few instructions wide.

`services` asks: whether the budget keeps its limits and acknowledged cooldowns through
crashes, lost answers and a clock set back; whether every update of the dashboard is applied,
waits or is counted, and its latest events reach Redis through every failure; whether a
snapshot that is accepted is consistent although its parts were read at different times, from
books that trail; whether SATS' resting stop and the exit that follows its cancel can both
fill; and whether the trigger of a stop is ever loosened while its record trails.

What three of the properties do not say:

* `EntriesOnlyWhileTrading`: no entry or flip is sent after the square-off or a halt.  After a
  stop request one may still be: that of the handler which had read the flag before the
  request.  No other is decided.  `stop_race` is this very order of steps.
* `UpdatesAccountedFor`: an event may be lost without a count, and is, when more than
  `PENDING_KEPT` newer ones wait behind it (`Board::event` drops the oldest; the header of
  `dash_writer.rs` promises the latest 500).  Of the others none is lost.  That a push never
  waits is its type (`try_send`) and not a property.
* `ViewAddsUp`: equal order books before and after do not make the parts fit while Kite's
  books trail each other.  With books that had caught up when the first and the last part were
  read, the snapshot is the account as it is.  Otherwise only this holds: reports that are
  made have the trades of every fill that they count (`fees::groups_for`, `Filled order trades
  missing`); else the mass status fails.  A trailing position is noticed by the audit alone.

### What the models showed besides

These are properties of the code that no sentence of the repository contradicts, or only a
comment about something else; a reader of the models should know them.

* *Feed.*  A fault sets `stopping`, so packets after it are ignored.  A late trade's volume
  goes to the bar after the current one, and the first trade of a bar counts as late if a
  later bar was opened before it, even within the grace.  A quote with one side missing
  faults the run.  Texts and pings count as life of the socket, fresh data is watched apart.
* *Stops.*  A modification to the trigger a stop already has leaves its command outstanding
  for good: the next modification or cancel of that stop is refused and stops the client.  A modified stop that fills before a read
  shows the new trigger looks like an unconfirmed modification, and the client stops.
  `modify_order` checks the active flag before it waits for the lock and not after.  No
  strategy in the repository calls it.
* *SATS (parked).*  When the stop at the exchange fills, the open lots stay positive until
  the next bar, whose stop exit halts with a position mismatch.  The record of the stop is
  cleared at its first partial fill; only the dispatcher's one-order rule keeps the exit that
  may follow from being sent.  An entry filled in pieces has its stop refused and goes on
  without one.  A cancel of an order that already closed stops the client.  An exit cancelled
  after a part filled leaves the strategy waiting for it.
* *SATS replay.*  A trailing position that outlived its trade is not closed by an opposite
  flip that enters nothing (a low quality, outside the hours), and a later entry in its own
  direction closes it as `FLIP`; `sats_backtest.rs:286` speaks of "the new opposite signal".
* *Account.*  A mass status fails while a stop order is in the book, and while the trade
  book trails the order book.  `connect` may take a position that trails for flat.  A share of the fees may
  be a paisa low.  The mock never triggers a stop.
* *Dashboard.*  The last write is skipped while the retry delay of a lost connection runs.
  The events beyond `PENDING_KEPT` are dropped and not counted.  A push of the watcher that
  comes after the thread's last round stays in its queue.
* *Budget.*  A crash of Redis forgets up to a second of reservations in every window, the
  minute's and the day's too; the comment at `store.rs:124-125` speaks of the one second.
  A refused reserve does not renew the clock check.  Exits and cancels do not ask.

### Bounds

* Two orders are the smallest number that can meet; a third one adds nothing to pairs, and
  the theorems below hold for any number.  A cap of two lots has partial fills, exits
  smaller than the position and flips over two lots.
* `LiveRun`: `Slots` bounds how many orders exist at once (the one in flight and one that
  timed out), `MaxTrades` the entries of the day (two, so that a reversal meets what the
  first left), `FastAttempts` and `MaxExitCancels` are counters whose limits are reached
  (3 and 5 in the code).  The liveness runs are smaller because TLC builds the whole
  behaviour graph; partial fills need two lots, so `TargetReached` has them.
* `Undecided` (in `MCLiveRun`) stops exploring behaviours in which the client is down, an
  order is lost or the node has stopped: these conditions are permanent and each satisfies
  both properties of that run, so no counterexample passes through them.
* `OrderStream`: `MaxChanges` changes of the books, `MaxGeneration` connections (three, so
  that a pass may live through two drops), `MaxReconnects` in the window.
* `Feed`: bars of 2 units with a grace of 1 over 6 units have a bar before, during and after
  the one the stream joins in; two trades are the fewest that can come late or in the wrong
  order; two connections have one reconnect; one packet in flight suffices because time may
  pass over it.  `Followed` (in `MCFeed`) goes on after a stop or a fault only while it came
  early or while a backoff meets the end: what is left then cannot send bars.  449 401 states.
* `BarModels`: four lots with one closed at each of the first two targets, one lot more than
  the deployed split, so that what is left differs from SATS' thirds; four bars in a day with a blackout in the middle; prices are the levels of a trade
  and what lies between them.  The number of epochs is capped at two.  SATS' replay has the
  four kinds of exit and no calibration, as is the default.
* `Services`: `Windows` (one per unit, two in three units), the cooldown and the clock make
  every window full and empty again; a queue of one, two updates and two failures fill,
  drop and flush; two lots, of one order or of two, change the account and its books between
  any two of the requests of a snapshot, in each of two tries; SATS has one setting for
  each kind of exit and two trades; three triggers let a stop be moved twice, and three
  commands let one be refused.  `Followed` (in `MCServices`) uses that buying and selling
  are mirror images, and goes on with a stop in the account's book only while it is the only
  order.
* Deadlock is not checked, except in `bar_models`: every run of the node ends.

### Fairness

Safety needs none.  The liveness runs assume: the one-second timer fires again and again and
finds the handlers idle (strong fairness of `Tick`: other handlers may be chosen in
between, but the node's loop polls every source); events in the channel are delivered;
spawned tasks and the watcher get scheduled by tokio; an order that stays at work is traded
(market orders); the monitor's `select!` chooses its branches at random, so each timer is
taken at some time; Kite's reads return (they have timeouts, and fail for good otherwise)
and its books settle.  For `SilenceFaults` they assume that time passes and that the
supervisor's task is scheduled (`WF` of `Tick` and of `Supervisor`).  Nothing is assumed of updates, sockets, fills of lost orders, quotes
or bars.

## What is proved

TLC checks small instances; the theorems of the `*_proofs` modules hold for every value of
the constants.  The assumptions are the `ASSUME`s of the modules: numbers are natural,
bounds positive, a packet that is taken is younger than a bar and its grace, and the worth of an
order is small against the precision of a `Decimal`.  In each module
`Invariance` is the inductive invariant; TLC evaluated each on a run before it was proved.

**`KiteDispatcher_proofs`**: the type invariant and every property of the run `dispatcher`.
That the real position stays in the cap depends on what an admitted order
still may do, which depends on what its admission saw, which depends on what had been read.
`IInv` states this chain:

* `Trailing`: a record's fills never exceed the trade book's, those never the exchange's; a
  terminal state in the order book is the truth and final;
* `Ended`: a closed record shows such a terminal state and has every fill;
* `Begun`: whatever lives at Kite is unresolved here (the request leaves after the record
  exists);
* `OneUnresolved`: at most one such order;
* `Unseen`: the owned position and the real one differ by the fills of the unresolved order
  that were not seen yet, and the position it was admitted on satisfied the cap and the
  exposure rule;
* `PositionSettled`, the cap of the owned position, and what a clean verdict implies.

`DispatcherImplementsAccount` maps each step to a step of `OneOrderAccount` or to a stutter:
`PlaceOpens`, `PhaseMoveCloses`, `FillTrades`, `WhoMoves`.

`EventsLawfulHolds` is about the whole history of what Nautilus was told, so its invariant
`StoryInv` says of the history what each status foretells (`Foretells`): a submitted order was
not accepted yet, an order at work was, and only a closed one was told to be canceled or
rejected; and a cancel in progress is of an order that has a record, which is why its answer
cannot follow a rejection of the order.  What a step tells is one event or none, and only of
its own order (`GoesOn`).

**`OrderStream_proofs`**: `TypeOK`, `ReadyMeansRead`, `NoLostUpdate`.  A pass notes the connection's
generation when it takes the lock and compares it at its end, so the invariant relates what
the pass has read to that note: if the note is still current, what was read is not older than
the connection (`PassReadsSinceConnect`); passes read ever newer books (`PassMovesOn`).

**`LiveRun_proofs`**: `TypeOK`, `AlwaysAdmissible`, `FlatIsTrue`, `EntryNeverResent`,
`EntriesOnlyWhileTrading`.  The strategy decides on a cache that events in flight have yet to
change.  `FutureEndsAsKite` says that there is a sequence of caches, the present one and one
after each event on its way, that every event finds its order open in the cache it changes,
and that the last cache is Kite's account (while the client is up; after that a fill that will
never be shown keeps its order open).  With it: Kite has one unresolved order at the most and the
position is as far from where that order leads as it has lots to trade (`OneUnresolved`); the
same holds of the cache until the strategy halts (`OneInFlight`); an open order is remembered
(`OpenIsRemembered`); and a trade whose opening order was sent never wants more than it has
or is getting (`EnteredHolds`), which is why an entry is not repeated.  An entry that was
decided is still in time when it is sent (`OpeningInTime`): the square-off and a halt are
the strategy's own steps, which cannot come between; a stop request can.

**`ProtectiveStop_proofs`**: `StopNeverLoosens`, and in **`Services_proofs`** that it holds of
`Services`, each step of which is a step of the part or leaves it alone.  The trigger at Kite
may be the record's or the outstanding command's; a command is taken for done only when the
book shows its trigger (`OutstandingExplains`, `IdleAgrees`, `RequestIsOnce`).

**`Services_proofs`** also has `NeverBothFill` of `SatsLive`.  What keeps the resting stop and an
exit apart is not the strategy, which may ask for anything: the dispatcher lets one order work
at a time and admits it on the position of that moment.  So `SatsInv` asks little of the
strategy (`Keeps`: its handlers append well-formed calls, and an entry has the lots of the
settings) and much of the one order (`Fits`: an exit may still trade no more than the position
that is not told yet, an entry is all there is of a position).  A fill moves the order towards
flat or towards its entry, also while the position is not told of it (`SatsTold`).

`UpdatesAccountedForHolds` is about `DashQueue`.  Every update is applied once, as a fill or as
a noted event, waits in a queue or was counted as dropped (`DashCounts`); the lots on the board
and those that wait are the lots that were pushed, as long as nothing was dropped
(`DashPosition`).  Of the events that were noted, those that wait for Redis are always the
latest ones (`Pends`), and those before them that the board would still keep are in Redis
(`Delivers`, through a pipeline that broke off anywhere); so what the board lets go of is
never among the latest `PendingKept`.  `DashEnds` follows the thread's last round, which
empties one queue after the other once the flag is read, and behind which only the one late
push of the watcher can come.

`BudgetHoldsHolds` is about `OrderBudget`.  The script forgets stamps as they age, Redis forgets
writes, and the clock goes back; so the invariant `BudgetInv` compares, for every time that a
window may still reach back to, the orders that were allowed since then and are still counted
with the stamps the key has since then (`Covers`), of the key in memory and of the key in the
log.  Dropping old stamps leaves what is after every later cut (`EndIs`, `Shortened`); a window
that is not full has room for one more stamp (`HasRoom`), and so for one more order; a crash
goes back to a key that covers what it counts (`BudgetForgets`).  The stamps of a key stay in
order and before its last reading of the clock (`Ordered`), so that the script never refuses
a key it wrote.  For the deferral, every key has one time from which it allows an order, whenever it is
asked (`RetryIs`): the end of its cooldown or the moment at which the oldest of the orders that
fill a window leaves it.

`ViewAddsUpHolds` is about `AccountView`.  The account itself always adds up (`Books`): the
trades of an order are as many as its row counts and the position is their sum.  What Kite
shows of it is behind it, row by row, and the position behind the trades (`ShownIs`).  What a
read in progress has need not fit, so `AccountInv` says when it does (`ReadIs`): if the books
had caught up at its first request and nothing has traded since (`Still`; rows only grow,
`GrownFrom`), they still are, and the trades and the position that were read are the
account's.  Two equal order books, the last of which has caught up, are such a case, and
then the snapshot is the account (`ViewIs`).  Otherwise only the client's own checks hold:
reports are made when every row has the trades of its fills.  The mock's
snapshot fills one order after the other (`MockFills`).  A share of the charges is bounded in
`SharesFit`: each trade's part of the worth is rounded to a quotient of `Digits`, and the parts of all but
the last may together exceed their true part by half a unit each, so the last share is
not negative only because one unit is far below a trade's part.  That is the assumption on
`Digits` (the worth of an order against the 28 digits of a `Decimal`); with a coarse quotient the
property is false, for instance with four trades of parts .35, .35, .25 and .05 at one digit.

**`Feed_proofs`**: every property of the run `feed` but `SilenceFaults`.  The bars that wait out
their grace and the current one are one queue here (`Opens`): a trade is late, joins a bar of
it or opens the next one (`TradedQueue`), and what is due leaves it at its front (`Leaves`).
The invariant relates the queue to what was sent and to the gap before the stream:

* `Queued`: open bars start on boundaries, in order, behind what was closed; only the oldest
  can be part-seen; `BeginsAt`: it is part-seen exactly if it starts inside the backfill's gap;
* `SentIsPast`: what was sent is older than the queue or inside the gap, and as long as the
  backfill may answer only the warm-up was sent: this is why its bars cannot come too late;
* `VolumeConserved` itself, over the sums of `Totals`;
* `ToldIsKept`, `NotOverdue`, `BackfillIsWhole`: a told period is before the stream, open or
  sent; no open bar is overdue while the stream is read; a backfill that was handed over has
  every period of the gap;
* `FaultedUnlessWhole` itself.

**`BarModels_proofs`**: `FlatOvernight`, `EpochPure`, `TicksAgreeWithBars`, `BookFollowsModel` and
the refinement `ImplementsBarModel`: every property of the run `bar_models`, for every split of the lots, every schedule and every price.  The four
engines change a trade on very different occasions but only by the few operators of
`ModelTrade`, so there is one invariant for all of them:

* `Sound`: a trade is `TradeAt` its direction, its stop and its targets; the targets were
  reached in order and the stop is behind the last one.  What is left and what was closed
  follow from that (`PositionOf`);
* `Pure`: a SATS trade of the present epoch has the influence that epoch began with;
* `Replayed`: the replay is flat between days, its book is what the trade has left, and an
  entry is the last event of a bar.

The lemmas of each engine say what its call tells (`Settles`, `Calls`, `SatsCalls`): partials
at ever higher targets and then an exit of the rest, perhaps an entry.  That such a sequence
is a legal step of `BarModel`, and what the book makes of it, is shown over the history of
the positions after each event (`Positions`, `Books`), of which there is exactly one.  `TicksAgreeWithBars` compares the partials of a set of
targets with those of its two parts (`Parts`, `Split`).

`BookFollowsModelHolds` has its invariant, `Executing`, for SATS' replay, which executes a
position of its own beside the trade of the model and acts on it twice in a bar: by its own
bracket or trail, and by what the model tells.  `Between` says what that position is
between two bars:

* in thirds or as a single lot size, exactly the lots that the mode leaves of the trade
  (`Plain`), and none without a trade;
* on a trail, the trade's direction, with all lots or none, and none only after the trail was
  activated; an activated trail's stop is no worse than the executed entry
  (`Trails`); without a trade either nothing or a position that outlives it behind such a
  stop (`Outlives`).

`Within` says the same inside a bar, before the trade has ended: a bracket or a trail may
have closed the position early, but only on a bar that stops the trade, that reaches the
bracket's target, or behind an active trail.  The engine's events on that bar are followed
one by one (`Follows`, `Chain`), over the history of the executed positions (`Executions`),
of which again there is exactly one.

**`DataLemmas`** has the facts about data that these proofs need and a library would prove by
induction: the least element of a set of naturals (from the well-foundedness theorems), the greatest of
finitely many numbers (`MaxOver`), and
with it, by least counterexample, what the recursive sum `Total` makes of an appended, a
concatenated, a changed, a bounded and a zero sequence, and what occurs in a longer one;
products and quotients, which are beyond the provers' linear arithmetic, by their bounds; and the histories of a sequence of steps, of which
there is exactly one (`OneHistory`).  `AfterExits` of `SatsLive` is unrolled with them.  `Popped` and `HandedOut` of the aggregator are
unrolled the same way.

Only model-checked: the runs that end in a counterexample, and liveness (`SilenceFaults`, the
properties of `live_run_progress`, `live_run_stops` and `order_stream_live`), which is outside
the prover's reach.

## Not modelled

`PROJECT.json` gives the status of every component; what is left out, and why:

* HTTP, login, credentials and the parsing of bytes, instruments and configuration files:
  input and output, or conversions without state.  Their failures are choices of the models.
* The arithmetic of the indicators and of costs: real numbers and decimals, out of TLC's
  reach.  Their results are choices.  `TicksAgreeWithBars` stands for targets that count
  when they are touched (`tp_through_ticks` is 0) and for WVAD; of Sniper's marks only the
  promise of `BarModel` is checked.
* The layout of the dashboard's page and of reports; margins; single-order queries; the
  paper client's poll loop, which only repeats the mock's snapshot.
* The lower bound of the entry hours (before the session no bar exists).
* Start scripts and the rest of `backup/`, which is not built.

## Plan

Done, in this order: `KiteDispatcher` with `OneOrderAccount` and its proofs, `LiveRun`,
`OrderStream`; `CandleAggregator` and `Feed`; `BarModel` with the four engines and
`BarModels`; `OrderBudget`, `DashQueue`, `AccountView`, `SatsLive` and `ProtectiveStop` in
`Services`; the proofs of `OrderStream`, `LiveRun`, `ProtectiveStop`, `Feed`, `BarModels`, and of `SatsLive`, `DashQueue`, `OrderBudget`
and `AccountView` in `Services`.  Every invariant and every action property of a passing run
is a theorem.
