------------------------------- MODULE LiveRun -------------------------------
(***************************************************************************)
(* One live run of a portfolio slot: the Nautilus strategy                 *)
(* (model_strategy.rs), the tasks of the Kite execution client that send   *)
(* its orders (native_client/mod.rs), the run's shared flags               *)
(* (live_control.rs) and the watcher that ends the run (model_live.rs).    *)
(*                                                                         *)
(* The strategy turns model events into a target position and moves the    *)
(* position toward it with one market order at a time.  Its handlers run   *)
(* one after another on the node's thread.  Order tasks, Kite, the feed    *)
(* and the watcher run beside it, so a handler that sends an order is two  *)
(* steps: it reads the flags and decides, then it withdraws `flat` and     *)
(* sends (Send); the watcher may act in between.                           *)
(*                                                                         *)
(* Simplifications:                                                        *)
(*  - the engine is the events it may emit for its open trade; prices,     *)
(*    late bars (no entry on them) and entry windows only choose among     *)
(*    those, and the open trade of the warm-up is closed before the start; *)
(*  - a fill at Kite and the refresh that turns it into an event are one   *)
(*    step (KiteDispatcher is about what lies between); one trade fills    *)
(*    one lot; once the client has stopped nothing is read any more;       *)
(*  - a dispatch is one step under the client's lock;                      *)
(*  - order ids are reused (Slots) once nobody remembers the order.        *)
(***************************************************************************)
EXTENDS Integers, Sequences

CONSTANTS
  Slots,           \* ids of the orders that exist at the same time
  None,            \* no order
  Lots,            \* lots of an entry (slot config lots)
  Tp1Lots, Tp2Lots,  \* lots closed at the first and second target
  FastAttempts,    \* flatten attempts before the backoff (FLATTEN_FAST_ATTEMPTS)
  MaxExitCancels,  \* cancelled exits in a row before the halt
  MaxTrades,       \* bound: entry signals of the day
  Causes           \* why the client may stop itself: mismatch, error

ASSUME ConfigAssumption ==
  /\ None \notin Slots
  /\ Lots \in Nat \ {0} /\ Tp1Lots \in Nat /\ Tp2Lots \in Nat
  /\ Tp1Lots + Tp2Lots < Lots
  /\ FastAttempts \in Nat /\ MaxExitCancels \in Nat /\ MaxTrades \in Nat
  /\ Causes \subseteq {"mismatch", "error"}

VARIABLES
  st,        \* the strategy with its model: see Strategies
  squared,   \* the daily square-off was done
  pos,       \* position of the engine's cache: fills already delivered
  orders,    \* what each open order asks for
  unshown,   \* lots whose fill has not been delivered
  untraded,  \* lots Kite has not traded
  where,     \* how far each order got: see Places
  events,    \* order events on their way to the strategy
  net,       \* position of the account at Kite
  client,    \* execution client: up, mismatch or error (dead), stopped
  stopping,  \* Control.stopping
  watcher,   \* watching, waiting for flat, or sawFlat / gaveUp: node stopped
  entered    \* history: last trade that had an opening order

vars == <<st, squared, pos, orders, unshown, untraded, where, events, net,
          client, stopping, watcher, entered>>
strategyVars == <<st, squared, pos, entered>>
orderVars == <<orders, unshown, untraded, where, events, net, client>>
controlVars == <<stopping, watcher>>

-----------------------------------------------------------------------------
Abs(n) == IF n < 0 THEN -n ELSE n
Sign(n) == IF n > 0 THEN 1 ELSE IF n < 0 THEN -1 ELSE 0

\* lots are signed; `seen` is the cached position when the order was sent.
OrderSpecs == [lots : (-2 * Lots)..(2 * Lots), reduce : BOOLEAN,
               seen : (-Lots)..Lots]
NoOrder == [lots |-> 0, reduce |-> FALSE, seen |-> 0]

\* queued for the client's lock; working or lost: a record without an end, which
\* Kite has or never got; over: ended, its last event still queued; dead: the
\* client was stopped when its turn came; closed: in the cache too (or unused).
Places == {"queued", "working", "lost", "over", "dead", "closed"}
Unresolved(s) == where[s] \in {"working", "lost"}

Strategies ==
  [dir : -1..1, hits : 0..2, trade : 0..MaxTrades,
   target : (-Lots)..Lots, ours : BOOLEAN, halted : BOOLEAN,
   inFlight : Slots \cup {None}, timedOut : SUBSET Slots,
   attempts : 0..FastAttempts,
   exitCancels : 0..MaxExitCancels, flat : BOOLEAN,
   sending : OrderSpecs \cup {NoOrder}]

Init ==
  /\ st = [dir |-> 0, hits |-> 0, trade |-> 0, target |-> 0, ours |-> FALSE,
           halted |-> FALSE, inFlight |-> None,
           timedOut |-> {}, attempts |-> 0,
           exitCancels |-> 0, flat |-> TRUE, sending |-> NoOrder]
  /\ squared = FALSE /\ pos = 0 /\ entered = 0
  /\ orders = [s \in Slots |-> NoOrder]
  /\ unshown = [s \in Slots |-> 0]
  /\ untraded = [s \in Slots |-> 0]
  /\ where = [s \in Slots |-> "closed"]
  /\ events = <<>> /\ net = 0 /\ client = "up"
  /\ stopping = FALSE
  /\ watcher = "watching"

-----------------------------------------------------------------------------
(* The strategy's pieces, as functions of its state m. *)

Halted(m) == [m EXCEPT !.halted = TRUE, !.target = 0, !.ours = FALSE]

\* The single order that moves p toward t; it never adds.
NextOrder(p, t) ==
  LET Asks(lots, reduce) == [lots |-> lots, reduce |-> reduce, seen |-> p]
  IN  CASE p = 0 -> Asks(t, FALSE)
        [] p # 0 /\ Abs(t) < Abs(p) /\ (t = 0 \/ Sign(t) = Sign(p)) -> Asks(t - p, TRUE)
        [] p # 0 /\ Sign(t) = -Sign(p) -> Asks(t - p, FALSE)
        [] OTHER -> NoOrder

\* Mutant: three strikes and out, as before version 2.22.0.
FlattenDueThenNever(m, rested) == m.attempts < FastAttempts
FlattenDue(m, rested) == m.attempts < FastAttempts \/ rested

\* Mutant: flat is reported although a timed-out order may still trade.
ReportsFlatByPosition(m, p) == p = 0
ReportsFlat(m, p) == p = 0 /\ m.timedOut = {}

Attempted(m) ==
  IF m.halted /\ m.attempts < FastAttempts
    THEN [m EXCEPT !.attempts = @ + 1] ELSE m

\* Nothing is in flight: compare the position p with the target.
Decided(m, p, stop, rested) ==
  LET t == IF m.halted \/ stop THEN 0 ELSE m.target
      due == m.halted => FlattenDue(m, rested)
  IN  CASE p = t -> [m EXCEPT !.flat = ReportsFlat(m, p)]
        [] p # t /\ ~due -> [m EXCEPT !.flat = FALSE]
        [] p # t /\ due /\ NextOrder(p, t) = NoOrder -> Halted(m)
        [] p # t /\ due /\ NextOrder(p, t) # NoOrder ->
             [Attempted(m) EXCEPT !.sending = NextOrder(p, t)]

Landed(m) == [m EXCEPT !.inFlight = None]
Remembered(m, w) == [Landed(m) EXCEPT !.timedOut = {s \in @ : w[s] # "closed"}]

\* Mutants: any fill is taken for the end of the order; a late order is waited for.
ReconciledOnAnyFill(m, p, w, late, rested) ==
  Decided(Remembered(m, w), p, stopping, rested)
ReconciledPatiently(m, p, w, late, rested) ==
  IF m.inFlight # None /\ w[m.inFlight] # "closed" THEN m
  ELSE Decided(Remembered(m, w), p, stopping, rested)

\* reconcile(): p and w are the cache's position and order states, late says that
\* the order in flight is older than IN_FLIGHT_NS, rested that the last flatten
\* is older than FLATTEN_RETRY_NS.
Reconciled(m, p, w, late, rested) ==
  CASE m.inFlight # None /\ w[m.inFlight] # "closed" /\ ~late -> m
    [] m.inFlight # None /\ w[m.inFlight] # "closed" /\ late ->
         Halted([Landed(m) EXCEPT !.timedOut = @ \cup {m.inFlight}])
    [] m.inFlight = None \/ w[m.inFlight] = "closed" ->
         Decided(Remembered(m, w), p, stopping, rested)

\* Events of the engine, as apply() turns them into the target.
PartialLots(m, k) ==
  (IF m.hits = 0 THEN Tp1Lots ELSE 0) + (IF k = 2 THEN Tp2Lots ELSE 0)
TargetHit(m, k) ==
  LET left == Abs(m.target) - PartialLots(m, k)
  IN  [m EXCEPT !.hits = k,
                !.target = IF ~m.ours THEN @
                           ELSE Sign(@) * (IF left > 0 THEN left ELSE 0)]
TradeExit(m) ==
  [m EXCEPT !.dir = 0, !.hits = 0, !.ours = FALSE,
            !.target = IF m.ours THEN 0 ELSE @]
Entry(m, d) ==
  [m EXCEPT !.dir = d, !.hits = 0, !.trade = @ + 1, !.ours = TRUE,
            !.target = d * Lots]

\* What one bar or quote can do to the open trade: targets, or the end of it.
Managed(m) ==
  {TargetHit(m, k) : k \in (m.hits + 1)..2} \cup {TradeExit(m)}

-----------------------------------------------------------------------------
(* The strategy's handlers.  One runs at a time, also while it sends. *)

FreeSlots(m, w) ==
  {s \in Slots : w[s] = "closed" /\ s # m.inFlight /\ s \notin m.timedOut}
NodeRuns == client # "stopped"
Ready == /\ NodeRuns /\ watcher \in {"watching", "waiting"}
         /\ st.sending = NoOrder

\* No entry follows a halt, so what the engine and the cancel count do from there
\* is not followed.
Settled(m) ==
  IF m.halted THEN [m EXCEPT !.dir = 0, !.hits = 0, !.exitCancels = 0] ELSE m

\* A handler ends in state m: it sends an order (there must be a free slot, the
\* bound of the model) or is finished.
Becomes(m) ==
  /\ m.sending # NoOrder => FreeSlots(m, where) # {}
  /\ st' = Settled(m)
  /\ entered' = IF m.sending # NoOrder /\ ~m.sending.reduce
                  THEN m.trade ELSE entered

\* Whether the order in flight may be late, the last flatten long enough ago.
Lateness(w) ==
  IF st.inFlight # None /\ w[st.inFlight] # "closed" THEN BOOLEAN ELSE {FALSE}
Restedness == IF st.halted THEN BOOLEAN ELSE {FALSE}

\* Mutant: the square-off flattens but does not end the day's entries.
EntriesOkAfterSquareOff(m) == ~m.halted /\ ~stopping
EntriesOk(m) == ~squared /\ ~m.halted /\ ~stopping

Entries(m) ==
  {Entry(m, d) : d \in IF m.dir = 0 /\ m.trade < MaxTrades /\ EntriesOk(m)
                         THEN {-1, 1} ELSE {}}

\* A closed bar: the open trade is managed, a new signal may follow at once
\* (stop or reversal and entry on one bar), then the daily square-off.
Bar(squareOff) ==
  /\ Ready
  /\ \E m \in {st} \cup (IF st.dir # 0 THEN Managed(st) ELSE {}) :
       \E n \in {m} \cup Entries(m) :
       \E late \in Lateness(where), rested \in Restedness :
         LET end == IF squareOff THEN [TradeExit(n) EXCEPT !.target = 0] ELSE n
         IN  Becomes(Reconciled(end, pos, where, late, rested))
  /\ squareOff => ~squared /\ ~st.halted
  /\ squared' = (squared \/ squareOff)
  /\ UNCHANGED <<pos, orderVars, controlVars>>

\* A quote reaches the stop or a target of a trade this run opened.
Quote ==
  /\ Ready
  /\ st.ours /\ ~st.halted /\ st.dir # 0
  /\ \E m \in Managed(st) : \E late \in Lateness(where) :
       Becomes(Reconciled(m, pos, where, late, FALSE))
  /\ UNCHANGED <<squared, pos, orderVars, controlVars>>

\* The guard timer, every second.
\* Mutant: the timer only looks after a stop request.
TickedForStop(late, rested) ==
  IF stopping /\ ~st.halted THEN Reconciled(Halted(st), pos, where, late, rested)
  ELSE st
Ticked(late, rested) ==
  LET m == IF stopping /\ ~st.halted THEN Halted(st) ELSE st
      n == Reconciled(m, pos, where, late, rested)
  IN  IF n.inFlight = None /\ n.sending = NoOrder
        THEN [n EXCEPT !.flat = ReportsFlat(n, pos)] ELSE n
Tick(late, rested) ==
  /\ Ready
  /\ Becomes(Ticked(late, rested))
  /\ UNCHANGED <<squared, pos, orderVars, controlVars>>

\* The rest of a handler that decided to send: flat is withdrawn, the order goes
\* to a task of the client.
Send(s) ==
  /\ st.sending # NoOrder
  /\ s \in FreeSlots(st, where)
  /\ st' = [st EXCEPT !.inFlight = s, !.flat = FALSE, !.sending = NoOrder]
  /\ orders' = [orders EXCEPT ![s] = st.sending]
  /\ unshown' = [unshown EXCEPT ![s] = Abs(st.sending.lots)]
  /\ untraded' = [untraded EXCEPT ![s] = Abs(st.sending.lots)]
  /\ where' = [where EXCEPT ![s] = "queued"]
  /\ UNCHANGED <<squared, pos, entered, events, net, client, controlVars>>

-----------------------------------------------------------------------------
(* Order events delivered: the cache is updated, then the handler runs. *)

Forgotten(m, s) == IF m.inFlight = s THEN Landed(m) ELSE m

\* Mutants: one cancel too many; a cancelled entry is sent again like an exit.
ClosedByBrokerOnceMore(m, s) ==
  LET n == Forgotten(m, s)
  IN  CASE orders[s].reduce /\ n.exitCancels <= MaxExitCancels ->
             [n EXCEPT !.exitCancels = @ + 1]
        [] orders[s].reduce /\ n.exitCancels > MaxExitCancels -> Halted(n)
        [] ~orders[s].reduce -> [n EXCEPT !.target = 0, !.ours = FALSE]
ClosedByBrokerRetries(m, s) ==
  LET n == Forgotten(m, s)
  IN  IF n.exitCancels < MaxExitCancels
        THEN [n EXCEPT !.exitCancels = @ + 1] ELSE Halted(n)
ClosedByBroker(m, s) ==
  LET n == Forgotten(m, s)
  IN  CASE orders[s].reduce /\ n.exitCancels < MaxExitCancels ->
             [n EXCEPT !.exitCancels = @ + 1]
        [] orders[s].reduce /\ n.exitCancels >= MaxExitCancels -> Halted(n)
        [] ~orders[s].reduce -> [n EXCEPT !.target = 0, !.ours = FALSE]

Delivers(s, kind) ==
  /\ Ready /\ events # <<>>
  /\ Head(events) = <<s, kind>>
  /\ events' = Tail(events)
  /\ UNCHANGED <<squared, untraded, net, client, controlVars>>

Closes(s) ==
  /\ where' = [where EXCEPT ![s] = "closed"]
  /\ orders' = [orders EXCEPT ![s] = NoOrder]
  /\ unshown' = [unshown EXCEPT ![s] = 0]

OnFilled(s) ==
  /\ Delivers(s, "Filled")
  /\ pos' = pos + Sign(orders[s].lots)
  /\ IF unshown[s] = 1
       THEN Closes(s)
       ELSE /\ unshown' = [unshown EXCEPT ![s] = @ - 1]
            /\ UNCHANGED <<where, orders>>
  /\ \E late \in Lateness(where'), rested \in Restedness :
       Becomes(Reconciled([st EXCEPT !.exitCancels = 0], pos', where', late, rested))

OnCanceled(s) ==
  /\ Delivers(s, "Canceled")
  /\ Closes(s)
  /\ Becomes(ClosedByBroker(st, s))
  /\ UNCHANGED pos

OnRefused(s) ==
  /\ Delivers(s, "Rejected") \/ Delivers(s, "Denied")
  /\ Closes(s)
  /\ Becomes(Halted(Forgotten(st, s)))
  /\ UNCHANGED pos

-----------------------------------------------------------------------------
(* The client's order task: one command at a time, under the lock. *)

\* The dispatcher's admission as the strategy meets it (KiteDispatcher has the
\* rules in full).
Admissible(s) ==
  /\ \A r \in Slots : ~Unresolved(r)
  /\ orders[s].seen = net

DispatchPlaces(s) ==
  /\ client = "up" /\ where[s] = "queued" /\ Admissible(s)
  /\ \E p \in {"working", "lost"} : where' = [where EXCEPT ![s] = p]
  /\ UNCHANGED <<strategyVars, orders, unshown, untraded, events, net, client, controlVars>>

\* Admission refuses it, or the stream gate or the budget an opening order.
DispatchDenies(s) ==
  /\ client = "up" /\ where[s] = "queued"
  /\ ~Admissible(s) \/ ~orders[s].reduce
  /\ where' = [where EXCEPT ![s] = "over"]
  /\ untraded' = [untraded EXCEPT ![s] = 0]
  /\ events' = Append(events, <<s, "Denied">>)
  /\ UNCHANGED <<strategyVars, orders, unshown, net, client, controlVars>>

\* Session expired or rate limited: the record stays, the client stops itself.
DispatchFails(s) ==
  /\ client = "up" /\ where[s] = "queued" /\ Admissible(s)
  /\ where' = [where EXCEPT ![s] = "lost"]
  /\ client' = "error"
  /\ UNCHANGED <<strategyVars, orders, unshown, untraded, events, net, controlVars>>

\* "Native client stopped": no event tells the strategy.
DispatchDead(s) ==
  /\ client # "up" /\ where[s] = "queued"
  /\ where' = [where EXCEPT ![s] = "dead"]
  /\ UNCHANGED <<strategyVars, orders, unshown, untraded, events, net, client, controlVars>>

-----------------------------------------------------------------------------
(* Kite, seen through the client's reconciliation while the client is up. *)

Fills(s) ==
  /\ where[s] = "working"
  /\ untraded' = [untraded EXCEPT ![s] = @ - 1]
  /\ net' = net + Sign(orders[s].lots)
  /\ where' = IF untraded[s] = 1 THEN [where EXCEPT ![s] = "over"] ELSE where
  /\ events' = IF client = "up" THEN Append(events, <<s, "Filled">>) ELSE events
  /\ UNCHANGED <<strategyVars, orders, unshown, client, controlVars>>

\* Kite ends it before it is fully traded; a rejected order has no trade.
Ends(s, kind) ==
  /\ where[s] = "working"
  /\ kind = "Rejected" => untraded[s] = Abs(orders[s].lots)
  /\ untraded' = [untraded EXCEPT ![s] = 0]
  /\ where' = [where EXCEPT ![s] = "over"]
  /\ events' = IF client = "up" THEN Append(events, <<s, kind>>) ELSE events
  /\ UNCHANGED <<strategyVars, orders, unshown, net, client, controlVars>>

-----------------------------------------------------------------------------
(* What ends a run.  A client that stopped itself has raised Control.done;   *)
(* Control.fail sets fault, stopping and done; the watcher sets stopping     *)
(* alone, so that while it watches `stopping` is `fault`.                    *)

\* The audit finds another position than the dispatcher's, or the order stream
\* or a read fails for good.
ClientStops(why) ==
  /\ client = "up"
  /\ client' = why
  /\ UNCHANGED <<strategyVars, orders, unshown, untraded, where, events, net, controlVars>>

\* Control.fail: a feed gap, an invalid packet, the feed has ended.  (Once the
\* watcher waits, another fault changes nothing.)
FeedFails ==
  /\ NodeRuns /\ watcher = "watching" /\ ~stopping
  /\ stopping' = TRUE
  /\ UNCHANGED <<strategyVars, orderVars, watcher>>

\* Mutant: the watcher looks at recorded faults only.
RunFaultRecorded == stopping
RunFault == stopping \/ client \in {"mismatch", "error"}

WatcherFault ==
  /\ watcher = "watching" /\ RunFault
  /\ stopping' = TRUE /\ watcher' = "waiting"
  /\ UNCHANGED <<strategyVars, orderVars>>

\* Ctrl+C, SIGTERM, SIGHUP, or the run's time is over.
WatcherSignal ==
  /\ watcher = "watching"
  /\ stopping' = TRUE /\ watcher' = "waiting"
  /\ UNCHANGED <<strategyVars, orderVars>>

WatcherSeesFlat ==
  /\ watcher = "waiting" /\ st.flat
  /\ watcher' = "sawFlat"
  /\ UNCHANGED <<strategyVars, orderVars, stopping>>

\* After a minute the node is stopped anyway, with a warning.
WatcherGivesUp ==
  /\ watcher = "waiting" /\ ~st.flat
  /\ watcher' = "gaveUp"
  /\ UNCHANGED <<strategyVars, orderVars, stopping>>

\* The node stops after the handler in progress and disconnects the client.
Disconnect ==
  /\ watcher \in {"sawFlat", "gaveUp"} /\ NodeRuns
  /\ st.sending = NoOrder
  /\ client' = "stopped"
  /\ UNCHANGED <<strategyVars, orders, unshown, untraded, where, events, net, controlVars>>

-----------------------------------------------------------------------------
Strategy ==
  \/ \E squareOff \in BOOLEAN : Bar(squareOff)
  \/ Quote
  \/ \E late, rested \in BOOLEAN : Tick(late, rested)
  \/ \E s \in Slots : Send(s)
  \/ \E s \in Slots : OnFilled(s) \/ OnCanceled(s) \/ OnRefused(s)

Client ==
  \/ \E s \in Slots : \/ DispatchPlaces(s) \/ DispatchDenies(s)
                      \/ DispatchFails(s) \/ DispatchDead(s)
  \/ \E why \in Causes : ClientStops(why)

Kite ==
  \E s \in Slots :
    \/ Fills(s)
    \/ \E kind \in {"Canceled", "Rejected"} : Ends(s, kind)

Watcher == \/ WatcherFault \/ WatcherSignal \/ WatcherSeesFlat
           \/ WatcherGivesUp \/ Disconnect

Next == Strategy \/ Client \/ Kite \/ FeedFails \/ Watcher

Spec == Init /\ [][Next]_vars

\* The timer fires every second and no handler holds it up for long; tasks and
\* the watcher are scheduled by tokio; a market order that Kite keeps taking is
\* traded at last.
Fairness ==
  /\ SF_vars(Tick(FALSE, TRUE)) /\ SF_vars(Tick(TRUE, TRUE))
  /\ SF_vars(\E s \in Slots : OnFilled(s) \/ OnCanceled(s) \/ OnRefused(s))
  /\ WF_vars(\E s \in Slots : Send(s))
  /\ WF_vars(\E s \in Slots : DispatchPlaces(s) \/ DispatchDenies(s) \/ DispatchDead(s))
  /\ SF_vars(\E s \in Slots : Fills(s))
  /\ WF_vars(WatcherFault \/ WatcherSeesFlat \/ WatcherGivesUp)

LiveSpec == Spec /\ Fairness

-----------------------------------------------------------------------------
\* Every variable keeps its type.
TypeOK ==
  /\ st \in Strategies
  /\ squared \in BOOLEAN /\ entered \in 0..MaxTrades
  /\ pos \in (-Lots)..Lots /\ net \in (-Lots)..Lots
  /\ orders \in [Slots -> OrderSpecs]
  /\ unshown \in [Slots -> 0..(2 * Lots)]
  /\ untraded \in [Slots -> 0..(2 * Lots)]
  /\ where \in [Slots -> Places]
  /\ events \in Seq(Slots \X {"Filled", "Canceled", "Rejected", "Denied"})
  /\ client \in {"up", "mismatch", "error", "stopped"}
  /\ stopping \in BOOLEAN
  /\ watcher \in {"watching", "waiting", "sawFlat", "gaveUp"}

\* As long as the strategy has not halted, whatever it sends finds no unresolved
\* order and the position it was computed from: the one-order-at-a-time logic of
\* reconcile() never runs into the dispatcher's admission.
AlwaysAdmissible ==
  \A s \in Slots :
    client = "up" /\ where[s] = "queued" /\ ~st.halted => Admissible(s)

\* When the strategy reports flat, the account is flat and no order of the run
\* can still trade, whatever was timed out, lost or dropped on the way (set_flat,
\* timed_out: "the run is never reported flat while any of them is open").
FlatIsTrue ==
  st.flat => /\ net = 0
             /\ \A s \in Slots : where[s] \notin {"queued", "working", "lost"}

\* An entry or flip is sent once per model trade: a cancelled, partly filled or
\* overtaken one is never sent again (closed_by_broker).
EntryNeverResent ==
  [][st.sending = NoOrder /\ st'.sending # NoOrder /\ ~st'.sending.reduce
       => entered < st'.trade]_vars

\* An entry or a flip is on its way from the handler that decided it.
Opens(m) == m.sending # NoOrder /\ ~m.sending.reduce

\* After the square-off or a halt no entry or flip is sent.  After a stop request the one
\* may still be sent whose handler read the flag before it, and no other: `stopping` and
\* the sending are not one step (entries_ok, reconcile, submit).
EntriesOnlyWhileTrading ==
  [][/\ \A s \in Slots : Send(s) /\ Opens(st) => ~squared /\ ~st.halted
     /\ stopping /\ ~Opens(st) => ~Opens(st')]_vars

\* The client is up and no order is lost between it and Kite.
Healthy == client = "up" /\ \A s \in Slots : where[s] # "lost"

RunLasts == watcher \in {"watching", "waiting"}

\* The position reaches what the model wants, or the strategy halts: no sequence
\* of signals, partial fills and cancels leaves it waiting.
TargetReached ==
  [](pos # st.target => <>(pos = st.target \/ st.halted \/ ~Healthy \/ ~RunLasts))

\* A halted strategy flattens and says so, however often an attempt is denied or
\* cancelled (FLATTEN_RETRY_NS: it never gives up).
HaltedFlattens == st.halted ~> (st.flat \/ ~Healthy \/ ~RunLasts)

\* An order that has no answer coming halts the strategy (IN_FLIGHT_NS).
UnresolvedHalts ==
  \A s \in Slots :
    st.inFlight = s /\ where[s] \in {"lost", "dead"} ~> (st.halted \/ ~RunLasts)

\* A client that stopped itself ends the run; it is not left idle for the rest of
\* the day (run_fault turns the bare stop signal into a fault).
ClientStopEndsRun ==
  client \in {"mismatch", "error"} ~> watcher \in {"sawFlat", "gaveUp"}

\* README: "position mismatch halts new orders and flattens".
MismatchFlattens == client = "mismatch" /\ RunLasts ~> net = 0

\* model_strategy.rs: a partly filled flip that leaves a smaller position on the
\* new side halts the strategy.
PartialFlipHalts ==
  [][\A s \in Slots :
       OnCanceled(s) /\ ~orders[s].reduce /\ orders[s].seen # 0
         /\ Sign(pos) = Sign(orders[s].lots)
       => st'.halted]_vars

\* model_live.rs: "flatten, wait for flat, stop": a node stopped because it was
\* flat leaves no position behind.
StopsOnlyWhenFlat == watcher = "sawFlat" => net = 0
=============================================================================
