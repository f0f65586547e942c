----------------------------- MODULE AccountView -----------------------------
(***************************************************************************)
(* How a run sees its account.  A snapshot of Kite is five requests, one   *)
(* after another (native_client/broker.rs), tried up to three times        *)
(* (native_client/outage.rs), while the account goes on changing; a paper  *)
(* run asks the mock broker (native_client/mock.rs), which fills its open  *)
(* orders at that moment.  The client starts on a snapshot                 *)
(* (native_client/mod.rs, connect) and reports orders, fills, charges and  *)
(* position from one (generate_mass_status, reports.rs, fees.rs).          *)
(*                                                                         *)
(* Kite answers with what its books show.  Each row of the order book and  *)
(* the trade book show what has happened in their own time, the position   *)
(* after the trade book (broker.rs, book; dispatch.rs, AUDIT_GRACE).  A    *)
(* trade is one lot.                                                       *)
(***************************************************************************)
EXTENDS Integers, Sequences, FiniteSets, Totals

CONSTANTS
  MaxOrders,   \* bound: orders of the day
  MaxLots,     \* lots of an order
  MaxTraded,   \* bound: lots of all orders
  Attempts,    \* tries of a read (outage.rs)
  Charges,     \* charges of an order, in hundredths of a rupee
  Prices,      \* prices of a trade
  Digits       \* a quotient is exact to 1 / Digits (Decimal: 28 digits)

\* Assumed by Services.  An order's worth is far below the precision of a quotient:
\* one of 28 digits, the other of less than half as many.
AccountAssumption ==
  /\ MaxOrders \in Nat /\ MaxLots \in Nat \ {0} /\ MaxTraded \in Nat
  /\ Attempts \in Nat \ {0}
  /\ Charges \subseteq Nat /\ Prices \subseteq Nat \ {0} /\ Digits \in Nat \ {0}
  /\ \A price \in Prices : MaxLots * MaxLots * price <= Digits

VARIABLES
  broker,  \* Kite or the mock
  orders,  \* the order book
  trades,  \* the trade book: the order of each trade
  net,     \* the position
  shown,   \* Kite's books: the rows, and how many trades they and the position have
  client,  \* down, up, or failed: the run does not start
  read,    \* the read in progress
  view     \* the snapshot just accepted: it is used at once and not kept

accountVars == <<orders, trades, net, shown>>
vars == <<broker, accountVars, client, read, view>>

NoRead == [why |-> "none"]
NoView == [taken |-> FALSE]
Over == {"COMPLETE", "CANCELLED", "REJECTED"}

Init ==
  /\ broker \in {"kite", "paper"}
  /\ orders = <<>> /\ trades = <<>> /\ net = 0
  /\ shown = [orders |-> <<>>, trades |-> 0, position |-> 0]
  /\ client = "down" /\ read = NoRead /\ view = NoView

Is(i, status) == i \in DOMAIN orders /\ orders[i].status = status
Traded(i) == orders[i].side
UnchangedClient == UNCHANGED <<broker, client, read>> /\ view' = NoView

-----------------------------------------------------------------------------
(* The account.  At Kite an order of anybody, at the mock one of this run. *)

\* MockBroker::execute, Place and ProtectiveStopMarket.
Placed(side, lots, stop) ==
  [side |-> side, lots |-> lots, filled |-> 0, trigger |-> IF stop THEN 1 ELSE 0,
   status |-> CASE stop -> "TRIGGER PENDING"
                [] ~stop /\ broker = "kite" -> "OPEN PENDING"
                [] ~stop /\ broker = "paper" -> "OPEN"]

PlacesOrder ==
  /\ broker = "paper" => client = "up"
  /\ Len(orders) < MaxOrders
  /\ \E side \in {-1, 1}, lots \in 1..MaxLots, stop \in BOOLEAN :
       /\ lots + Total([i \in DOMAIN orders |-> orders[i].lots]) <= MaxTraded
       /\ orders' = Append(orders, Placed(side, lots, stop))
  /\ UNCHANGED <<trades, net, shown>> /\ UnchangedClient

CancelsOrder(i) ==
  /\ broker = "paper" => client = "up"
  /\ Is(i, "OPEN") \/ Is(i, "TRIGGER PENDING")
  /\ orders' = [orders EXCEPT ![i].status = "CANCELLED"]
  /\ UNCHANGED <<trades, net, shown>> /\ UnchangedClient

ModifiesStop(i) ==
  /\ broker = "paper" => client = "up"
  /\ Is(i, "TRIGGER PENDING")
  /\ orders[i].trigger = 1
  /\ orders' = [orders EXCEPT ![i].trigger = 2]
  /\ UNCHANGED <<trades, net, shown>> /\ UnchangedClient

\* Kite's own: the order is accepted or rejected, a stop triggers, a lot trades.
KiteAnswers(i) ==
  /\ broker = "kite" /\ Is(i, "OPEN PENDING")
  /\ \E status \in {"OPEN", "REJECTED"} : orders' = [orders EXCEPT ![i].status = status]
  /\ UNCHANGED <<trades, net, shown>> /\ UnchangedClient

KiteTriggers(i) ==
  /\ broker = "kite" /\ Is(i, "TRIGGER PENDING")
  /\ orders' = [orders EXCEPT ![i].status = "OPEN"]
  /\ UNCHANGED <<trades, net, shown>> /\ UnchangedClient

LotFilled(o) ==
  [o EXCEPT !.filled = @ + 1,
            !.status = IF o.filled + 1 = o.lots THEN "COMPLETE" ELSE @]

KiteFills(i) ==
  /\ broker = "kite" /\ Is(i, "OPEN")
  /\ orders' = [orders EXCEPT ![i] = LotFilled(@)]
  /\ trades' = Append(trades, i)
  /\ net' = net + Traded(i)
  /\ UNCHANGED shown /\ UnchangedClient

\* A row, the next trade, the next trade in the position.
KiteShows ==
  /\ broker = "kite"
  /\ \/ \E i \in DOMAIN orders :
          /\ i \in DOMAIN shown.orders => shown.orders[i] # orders[i]
          /\ i <= Len(shown.orders) + 1
          /\ shown' = [shown EXCEPT !.orders = IF i \in DOMAIN @ THEN [@ EXCEPT ![i] = orders[i]]
                                              ELSE Append(@, orders[i])]
     \/ shown.trades < Len(trades) /\ shown' = [shown EXCEPT !.trades = @ + 1]
     \/ shown.position < shown.trades /\ shown' = [shown EXCEPT !.position = @ + 1]
  /\ UNCHANGED <<orders, trades, net>> /\ UnchangedClient

CaughtUp == shown = [orders |-> orders, trades |-> Len(trades), position |-> Len(trades)]

-----------------------------------------------------------------------------
(* What the client makes of a snapshot v. *)

TradesOf(v, i) == {k \in DOMAIN v.trades : v.trades[k] = i}

\* fees::groups_for: the trades of an order are those its book row counts.
Grouped(v) ==
  \A i \in {v.trades[k] : k \in DOMAIN v.trades} :
    /\ i \in DOMAIN v.orders
    /\ Cardinality(TradesOf(v, i)) = v.orders[i].filled
    /\ v.orders[i].status \in {"OPEN", "COMPLETE", "CANCELLED"}

\* fees::allocate: each trade bears its part of the charges by worth, rounded
\* down, and the last what remains.
Part(worth, k) ==
  LET whole == Total(worth)
  IN  (2 * worth[k] * Digits + whole) \div (2 * whole)
Share(total, worth, k) ==
  LET RoundedDown(j) == (total * Part(worth, j)) \div Digits
      last == Len(worth)
  IN  IF k < last THEN RoundedDown(k)
      ELSE total - Total([j \in 1..(last - 1) |-> RoundedDown(j)])

\* reports::order_for: what a row becomes; a stop has no report.
ReportedStatus(o) ==
  CASE o.status = "OPEN" /\ o.filled = 0 -> "Accepted"
    [] o.status = "OPEN" /\ 0 < o.filled /\ o.filled < o.lots -> "PartiallyFilled"
    [] o.status = "COMPLETE" /\ o.filled = o.lots -> "Filled"
    [] o.status = "CANCELLED" -> "Canceled"
    [] o.status = "REJECTED" /\ o.filled = 0 -> "Rejected"
    [] o.status = "OPEN PENDING" /\ o.filled = 0 -> "Submitted"
    [] OTHER -> "none"
Reportable(o) == o.trigger = 0 /\ ReportedStatus(o) # "none"

\* generate_mass_status: all reports or none; a row with fills needs its trades.
Reports(v) ==
  /\ Grouped(v)
  /\ \A i \in DOMAIN v.orders :
       Reportable(v.orders[i]) /\ (v.orders[i].filled > 0 => TradesOf(v, i) # {})

\* reports::fills_for and positions_for.
FilledIn(v) ==
  Total([k \in DOMAIN v.trades |-> v.orders[v.trades[k]].side])
PositionIn(v) == v.net

\* connect: a production run starts flat and without an open order.
Clean(v) ==
  broker = "kite" => v.net = 0 /\ \A i \in DOMAIN v.orders : v.orders[i].status \in Over

\* `settled` is history: the books had caught up at the first and at the last read.
Accepts(v) ==
  /\ view' = [taken |-> TRUE, orders |-> v.orders, trades |-> v.trades, net |-> v.net,
              why |-> read.why, settled |-> v.settled]
  /\ client' = IF read.why = "status" \/ Clean(v) THEN "up" ELSE "failed"
  /\ read' = NoRead

-----------------------------------------------------------------------------
(* A read. *)

Reading(why) == [why |-> why, attempt |-> 1, at |-> "first"]
At(step) == read # NoRead /\ broker = "kite" /\ read.at = step

\* connect, with the profile verified or not; a report for the node.
Connect ==
  /\ client = "down" /\ read = NoRead
  /\ \/ read' = Reading("connect") /\ client' = client
     \/ read' = NoRead /\ client' = "failed"
  /\ UNCHANGED <<broker, accountVars>> /\ view' = NoView

AsksStatus ==
  /\ client = "up" /\ read = NoRead
  /\ read' = Reading("status")
  /\ UNCHANGED <<broker, accountVars, client>> /\ view' = NoView

\* MockBroker::snapshot: every open order is filled, then the state is returned.
FilledOpen(os) ==
  [i \in DOMAIN os |->
     IF os[i].status = "OPEN" THEN [os[i] EXCEPT !.status = "COMPLETE", !.filled = os[i].lots]
     ELSE os[i]]
OpenTrades(os) ==
  LET upTo[i \in 0..Len(os)] ==
        IF i = 0 THEN <<>>
        ELSE upTo[i - 1] \o [k \in 1..(IF os[i].status = "OPEN" THEN os[i].lots ELSE 0) |-> i]
  IN  upTo[Len(os)]

MockSnapshot ==
  /\ broker = "paper" /\ read # NoRead
  /\ orders' = FilledOpen(orders)
  /\ trades' = trades \o OpenTrades(orders)
  /\ net' = net + Total([i \in DOMAIN orders |->
                         IF orders[i].status = "OPEN" THEN orders[i].side * orders[i].lots ELSE 0])
  /\ Accepts([orders |-> orders', trades |-> trades', net |-> net', settled |-> TRUE])
  /\ UNCHANGED <<broker, shown>>

ReadFirst ==
  /\ At("first")
  /\ read' = [why |-> read.why, attempt |-> read.attempt, at |-> "trades",
              first |-> shown.orders, settled |-> CaughtUp]
  /\ UNCHANGED <<broker, accountVars, client>> /\ view' = NoView

ReadTrades ==
  /\ At("trades")
  /\ read' = [why |-> read.why, attempt |-> read.attempt, at |-> "positions",
              first |-> read.first, settled |-> read.settled,
              trades |-> SubSeq(trades, 1, shown.trades)]
  /\ UNCHANGED <<broker, accountVars, client>> /\ view' = NoView

ReadPositions ==
  /\ At("positions")
  /\ read' = [why |-> read.why, attempt |-> read.attempt, at |-> "again",
              first |-> read.first, settled |-> read.settled, trades |-> read.trades,
              net |-> Total([k \in 1..shown.position |-> orders[trades[k]].side])]
  /\ UNCHANGED <<broker, accountVars, client>> /\ view' = NoView

\* outage::read: only what may pass by itself is tried again.
Retried ==
  IF read.attempt < Attempts
    THEN /\ read' = [Reading(read.why) EXCEPT !.attempt = read.attempt + 1]
         /\ UNCHANGED client
    ELSE /\ read' = NoRead
         /\ client' = IF read.why = "connect" THEN "failed" ELSE client

\* Mutant: the order book that moved is accepted.
SameWhateverNow(first, now) == TRUE
\* KiteBroker::snapshot: the order book read last is the one read first.
Same(first, now) == first = now

ReadAgain ==
  /\ At("again")
  /\ IF Same(read.first, shown.orders)
       THEN Accepts([orders |-> read.first, trades |-> read.trades, net |-> read.net,
                     settled |-> read.settled /\ CaughtUp])
       ELSE Retried /\ view' = NoView
  /\ UNCHANGED <<broker, accountVars>>

\* A timeout, a network or server error; a session or integrity error ends the read.
ReadFails ==
  /\ read # NoRead /\ broker = "kite"
  /\ \/ Retried
     \/ /\ read' = NoRead
        /\ client' = IF read.why = "connect" THEN "failed" ELSE client
  /\ UNCHANGED <<broker, accountVars>> /\ view' = NoView

-----------------------------------------------------------------------------
Account ==
  \/ PlacesOrder \/ KiteShows
  \/ \E i \in 1..MaxOrders :
       \/ CancelsOrder(i) \/ ModifiesStop(i)
       \/ KiteAnswers(i) \/ KiteTriggers(i) \/ KiteFills(i)

Reader ==
  \/ Connect \/ AsksStatus \/ MockSnapshot
  \/ ReadFirst \/ ReadTrades \/ ReadPositions \/ ReadAgain \/ ReadFails

Next == Account \/ Reader

Spec == Init /\ [][Next]_vars

-----------------------------------------------------------------------------
\* A snapshot that is accepted although its parts were read at different times is the
\* account as it is, if Kite's books had caught up when the first and the last part were
\* read, or the mock answered: then the trades of every order are those it counts, the
\* position is what the trades come to, and the reports of a run can be made unless one
\* of its orders is a stop (reports.rs, order_for).  While the books trail each other the
\* parts may not fit, but the reports that are made have the trades of every fill that
\* they count; and the charges of an order are shared out among its trades whatever
\* their prices (fees.rs, allocate: no part is negative).
ViewAddsUp ==
  view.taken =>
    /\ view.settled =>
         /\ view.orders = orders /\ view.trades = trades /\ view.net = net
         /\ Grouped(view) /\ PositionIn(view) = FilledIn(view)
         /\ view.why = "status" =>
              (Reports(view) <=> \A i \in DOMAIN view.orders : view.orders[i].trigger = 0)
    /\ Reports(view) =>
         \A i \in DOMAIN view.orders : Cardinality(TradesOf(view, i)) = view.orders[i].filled
    /\ \A i \in DOMAIN view.orders, total \in Charges :
         \A worth \in [1..view.orders[i].filled -> Prices] :
           \A k \in DOMAIN worth : Share(total, worth, k) \in 0..total
=============================================================================
