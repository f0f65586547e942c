---------------------------- MODULE LiveRun_proofs ----------------------------
(***************************************************************************)
(* Proofs about LiveRun for any number of order ids, lots and trades: type *)
(* correctness, that flat is never reported while the account is not, that *)
(* the strategy never runs into the dispatcher's admission, and that an    *)
(* entry is sent once and only while entries are allowed.                  *)
(*                                                                         *)
(* The argument looks at the events that are still on their way to the     *)
(* strategy: its future is the cache as it will be after the first, the    *)
(* second, ... of them.  Nothing is open at the end of it that Kite has    *)
(* ended, and while the client is up its last position is the account's.   *)
(***************************************************************************)
EXTENDS LiveRun, TLAPS

USE ConfigAssumption

-----------------------------------------------------------------------------
(* The inductive invariant *)

Events == Slots \X {"Filled", "Canceled", "Rejected", "Denied"}
Open(s) == where[s] # "closed"

\* An order that exists has lots, and where it leads is a position of the run.
Sound(o) == /\ o \in OrderSpecs /\ o.lots # 0
            /\ o.seen + o.lots \in (-Lots)..Lots
            /\ o.reduce => /\ Sign(o.seen + o.lots) \in {0, Sign(o.seen)}
                           /\ Abs(o.seen + o.lots) <= Abs(o.seen)

\* What an order still has to show or to trade, by where it is.
OrdersSound ==
  \A s \in Slots :
    /\ Open(s) => Sound(orders[s]) /\ unshown[s] \in 1..Abs(orders[s].lots)
    /\ ~Open(s) => unshown[s] = 0
    /\ untraded[s] <= unshown[s]
    /\ where[s] \in {"over", "closed"} => untraded[s] = 0
    /\ where[s] \in {"queued", "lost", "dead"} =>
         unshown[s] = Abs(orders[s].lots) /\ untraded[s] = unshown[s]
    /\ where[s] = "working" => untraded[s] >= 1

\* Kite has one unresolved order at the most, and the account's position is as far
\* from where that order leads as it has lots to trade.
OneUnresolved ==
  /\ \A r, s \in Slots : Unresolved(r) /\ Unresolved(s) => r = s
  /\ \A s \in Slots : Unresolved(s) =>
       net = orders[s].seen + orders[s].lots - Sign(orders[s].lots) * untraded[s]

\* The cache after the event e.
Cache == [pos : (-Lots)..Lots, unshown : [Slots -> 0..(2 * Lots)]]
Shown(c, e) ==
  [pos |-> IF e[2] = "Filled" THEN c.pos + Sign(orders[e[1]].lots) ELSE c.pos,
   unshown |-> [c.unshown EXCEPT ![e[1]] = IF e[2] = "Filled" THEN @ - 1 ELSE 0]]

\* c is the strategy's future: every event finds its order open, and nothing is
\* ever opened by an event.
IsFuture(c) ==
  /\ c[0] = [pos |-> pos, unshown |-> unshown]
  /\ \A i \in 1..Len(events) :
       c[i - 1].unshown[events[i][1]] > 0 /\ c[i] = Shown(c[i - 1], events[i])
  /\ \A i, j \in 0..Len(events) : i <= j =>
       \A s \in Slots : c[j].unshown[s] <= c[i].unshown[s]

\* Where the future ends: while the client is up, with Kite's position and what
\* Kite has left to trade.  Once it is down fills are not shown any more, but then
\* their order stays open.
EndsAsKite(last) ==
  /\ client = "up" => last.pos = net /\ \A s \in Slots : last.unshown[s] = untraded[s]
  /\ \A s \in Slots : untraded[s] <= last.unshown[s]
  /\ (\A s \in Slots : last.unshown[s] = 0) => last.pos = net

FutureEndsAsKite ==
  \E c \in [0..Len(events) -> Cache] : IsFuture(c) /\ EndsAsKite(c[Len(events)])

\* An order no event of which can be on its way.
QuietOrders ==
  \A i \in 1..Len(events) : where[events[i][1]] \in {"working", "over"}

-----------------------------------------------------------------------------
(* How a state m of the strategy fits the rest; e is the last trade that had an *)
(* opening order.                                                               *)

\* The strategy remembers every order that is not closed in its cache.
OpenIsRemembered(m) ==
  \A s \in Slots : Open(s) => s = m.inFlight \/ s \in m.timedOut

\* Flat is reported with everything closed.
FlatIsClosed(m) == m.flat => pos = 0 /\ \A s \in Slots : ~Open(s)

\* Until it halts the strategy has one order, and its position is as far from where
\* that order leads as there are lots to show.
OneInFlight(m) ==
  ~m.halted =>
    /\ m.timedOut = {}
    /\ \A s \in Slots : Open(s) =>
         pos = orders[s].seen + orders[s].lots - Sign(orders[s].lots) * unshown[s]

\* A day that was squared off wants no position.
SquaredWantsNone(m) == squared => m.target = 0

\* The position p has the side that is wanted, and not less of it.
Holds(m, p) == m.target = 0 \/ (Sign(m.target) = Sign(p) /\ Abs(m.target) <= Abs(p))

\* A trade whose opening order was sent never wants more than it has or is getting.
EnteredHolds(m, e) ==
  /\ e <= m.trade
  /\ ~m.halted /\ ~stopping /\ e = m.trade =>
       /\ m.sending # NoOrder => Holds(m, m.sending.seen + m.sending.lots)
       /\ \A s \in Slots : Open(s) => Holds(m, orders[s].seen + orders[s].lots)
       /\ m.sending = NoOrder /\ (\A s \in Slots : ~Open(s)) => Holds(m, pos)

Fits(m, e) == /\ OpenIsRemembered(m) /\ FlatIsClosed(m) /\ OneInFlight(m)
              /\ SquaredWantsNone(m) /\ EnteredHolds(m, e)

\* What a handler decided to send is sound, with nothing in flight.
SendingSound ==
  st.sending # NoOrder =>
    /\ Sound(st.sending) /\ st.inFlight = None /\ st.sending.seen = pos
    /\ ~st.halted => \A s \in Slots : ~Open(s)

\* What concerns the orders alone.
OrdersFit == OrdersSound /\ OneUnresolved /\ FutureEndsAsKite /\ QuietOrders

IInv == /\ TypeOK /\ OrdersFit
        /\ Fits(st, entered) /\ SendingSound

-----------------------------------------------------------------------------
(* The strategy's functions *)

\* Values that every proof about the strategy needs.
LEMMA Values ==
  /\ 0 \in (-Lots)..Lots /\ TRUE \in BOOLEAN /\ FALSE \in BOOLEAN
  /\ 0 \in 0..MaxExitCancels /\ 0 \in -1..1 /\ 0 \in 0..2
  /\ NoOrder \in OrderSpecs /\ None \in Slots \cup {None} /\ None \notin Slots
BY DEF NoOrder, OrderSpecs

\* A strategy stays one when a field gets a value of the field's type.
LEMMA FieldSet ==
  ASSUME NEW m \in Strategies
  PROVE  /\ \A v \in -1..1 : [m EXCEPT !.dir = v] \in Strategies
         /\ \A v \in 0..2 : [m EXCEPT !.hits = v] \in Strategies
         /\ \A v \in 0..MaxTrades : [m EXCEPT !.trade = v] \in Strategies
         /\ \A v \in (-Lots)..Lots : [m EXCEPT !.target = v] \in Strategies
         /\ \A v \in BOOLEAN : [m EXCEPT !.ours = v] \in Strategies
         /\ \A v \in BOOLEAN : [m EXCEPT !.halted = v] \in Strategies
         /\ \A v \in Slots \cup {None} : [m EXCEPT !.inFlight = v] \in Strategies
         /\ \A v \in SUBSET Slots : [m EXCEPT !.timedOut = v] \in Strategies
         /\ \A v \in 0..FastAttempts : [m EXCEPT !.attempts = v] \in Strategies
         /\ \A v \in 0..MaxExitCancels : [m EXCEPT !.exitCancels = v] \in Strategies
         /\ \A v \in BOOLEAN : [m EXCEPT !.flat = v] \in Strategies
         /\ \A v \in OrderSpecs \cup {NoOrder} : [m EXCEPT !.sending = v] \in Strategies
<1> USE DEF Strategies
<1>1. \A v \in -1..1 : [m EXCEPT !.dir = v] \in Strategies
  OBVIOUS
<1>2. \A v \in 0..2 : [m EXCEPT !.hits = v] \in Strategies
  OBVIOUS
<1>3. \A v \in 0..MaxTrades : [m EXCEPT !.trade = v] \in Strategies
  OBVIOUS
<1>4. \A v \in (-Lots)..Lots : [m EXCEPT !.target = v] \in Strategies
  OBVIOUS
<1>5. \A v \in BOOLEAN : [m EXCEPT !.ours = v] \in Strategies
  OBVIOUS
<1>6. \A v \in BOOLEAN : [m EXCEPT !.halted = v] \in Strategies
  OBVIOUS
<1>7. \A v \in Slots \cup {None} : [m EXCEPT !.inFlight = v] \in Strategies
  OBVIOUS
<1>8. \A v \in SUBSET Slots : [m EXCEPT !.timedOut = v] \in Strategies
  OBVIOUS
<1>9. \A v \in 0..FastAttempts : [m EXCEPT !.attempts = v] \in Strategies
  OBVIOUS
<1>10. \A v \in 0..MaxExitCancels : [m EXCEPT !.exitCancels = v] \in Strategies
  OBVIOUS
<1>11. \A v \in BOOLEAN : [m EXCEPT !.flat = v] \in Strategies
  OBVIOUS
<1>12. \A v \in OrderSpecs \cup {NoOrder} : [m EXCEPT !.sending = v] \in Strategies
  OBVIOUS
<1>13. QED
  BY <1>1, <1>2, <1>3, <1>4, <1>5, <1>6, <1>7, <1>8, <1>9, <1>10, <1>11, <1>12, Zenon

\* A halted strategy wants nothing and is otherwise the same.
LEMMA HaltedStrategy ==
  ASSUME NEW m \in Strategies
  PROVE  /\ Halted(m) \in Strategies
         /\ Halted(m).halted = TRUE /\ Halted(m).target = 0 /\ Halted(m).trade = m.trade
         /\ Halted(m).inFlight = m.inFlight /\ Halted(m).timedOut = m.timedOut
         /\ Halted(m).flat = m.flat /\ Halted(m).sending = m.sending
<1> DEFINE a == [m EXCEPT !.halted = TRUE]
           b == [a EXCEPT !.target = 0]
           d == [b EXCEPT !.ours = FALSE]
<1>1. a \in Strategies
  BY Values, FieldSet, Zenon
<1>2. b \in Strategies
  BY <1>1, Values, FieldSet, Zenon
<1>3. d \in Strategies
  BY <1>2, Values, FieldSet, Zenon
<1>4. Halted(m) = d
  BY DEF Halted
<1>5. /\ d.halted = TRUE /\ d.target = 0 /\ d.trade = m.trade
      /\ d.inFlight = m.inFlight /\ d.timedOut = m.timedOut
      /\ d.flat = m.flat /\ d.sending = m.sending
  BY DEF Strategies
<1>6. QED BY <1>3, <1>4, <1>5, Zenon

\* The next order leads to the target; it opens or flips only when the position does
\* not have the wanted side.
LEMMA NextOrderLeads ==
  ASSUME NEW p \in (-Lots)..Lots, NEW t \in (-Lots)..Lots, p # t,
         NextOrder(p, t) # NoOrder
  PROVE  /\ Sound(NextOrder(p, t))
         /\ NextOrder(p, t).seen = p
         /\ p + NextOrder(p, t).lots = t
         /\ ~NextOrder(p, t).reduce => t # 0 /\ Sign(t) # Sign(p)
<1>1. CASE p = 0
  <2>1. NextOrder(p, t) = [lots |-> t, reduce |-> FALSE, seen |-> p]
    BY <1>1 DEF NextOrder
  <2>2. t \in (-2 * Lots)..(2 * Lots) /\ t # 0 /\ p + t = t /\ Sign(t) # Sign(p)
    BY <1>1 DEF Sign
  <2>3. QED BY <2>1, <2>2 DEF Sound, OrderSpecs
<1>2. CASE p # 0 /\ Abs(t) < Abs(p) /\ (t = 0 \/ Sign(t) = Sign(p))
  <2>1. NextOrder(p, t) = [lots |-> t - p, reduce |-> TRUE, seen |-> p]
    BY <1>2 DEF NextOrder, Sign
  <2>2. QED BY <1>2, <2>1 DEF Sound, OrderSpecs, Sign, Abs
<1>3. CASE p # 0 /\ Sign(t) = -Sign(p)
  <2>1. NextOrder(p, t) = [lots |-> t - p, reduce |-> FALSE, seen |-> p]
    BY <1>3 DEF NextOrder, Sign
  <2>2. t - p \in (-2 * Lots)..(2 * Lots) /\ t - p # 0 /\ t # 0 /\ Sign(t) # Sign(p)
    BY <1>3 DEF Sign
  <2>3. QED BY <2>1, <2>2 DEF Sound, OrderSpecs
<1>4. QED BY <1>1, <1>2, <1>3 DEF NextOrder

-----------------------------------------------------------------------------
(* Comparing the position with the target *)

\* What reconcile() makes of m at position p, with the orders where w says: n has
\* lost no open order, reports flat for a reason, and sends only what leads to the
\* target with nothing in flight.
Reconciles(m, p, w, n) ==
  /\ n \in Strategies /\ n.trade = m.trade
  /\ n.target \in {m.target, 0}
  /\ m.halted => n.halted
  /\ ~n.halted => n.target = m.target /\ n.timedOut \subseteq m.timedOut
  /\ \A s \in Slots : w[s] # "closed" /\ (s = m.inFlight \/ s \in m.timedOut)
                        => s = n.inFlight \/ s \in n.timedOut
  /\ n.flat => m.flat \/ (p = 0 /\ n.timedOut = {} /\ n.inFlight = None)
  /\ n.sending # NoOrder =>
       /\ n.inFlight = None /\ n.halted = m.halted /\ n.target = m.target
       /\ Sound(n.sending) /\ n.sending.seen = p
       /\ n.sending.seen + n.sending.lots = IF m.halted \/ stopping THEN 0 ELSE m.target
       /\ ~n.sending.reduce => /\ ~m.halted /\ ~stopping
                               /\ m.target # 0 /\ Sign(m.target) # Sign(p)

\* With nothing in flight.
LEMMA DecidedReconciles ==
  ASSUME NEW m \in Strategies, m.sending = NoOrder, m.inFlight = None,
         NEW p \in (-Lots)..Lots, NEW w, NEW rested \in BOOLEAN, stopping \in BOOLEAN
  PROVE  Reconciles(m, p, w, Decided(m, p, stopping, rested))
<1> DEFINE t == IF m.halted \/ stopping THEN 0 ELSE m.target
           due == m.halted => FlattenDue(m, rested)
<1>1. t \in (-Lots)..Lots
  BY DEF Strategies
<1>2. CASE p = t
  <2> DEFINE f == p = 0 /\ m.timedOut = {}
             n == [m EXCEPT !.flat = f]
  <2>1. Decided(m, p, stopping, rested) = n
    BY <1>2 DEF Decided, ReportsFlat
  <2>2. n \in Strategies
    BY FieldSet, f \in BOOLEAN, Zenon
  <2>3. n.flat = f /\ n.sending = NoOrder /\ n.inFlight = None /\ n.timedOut = m.timedOut
        /\ n.target = m.target /\ n.trade = m.trade /\ n.halted = m.halted
    BY DEF Strategies
  <2> HIDE DEF n
  <2>4. QED BY <2>1, <2>2, <2>3 DEF Reconciles
<1>3. CASE p # t /\ ~due
  <2> DEFINE n == [m EXCEPT !.flat = FALSE]
  <2>1. Decided(m, p, stopping, rested) = n
    BY <1>3 DEF Decided
  <2>2. n \in Strategies
    BY FieldSet, Values, Zenon
  <2>3. ~n.flat /\ n.sending = NoOrder /\ n.inFlight = None /\ n.timedOut = m.timedOut
        /\ n.target = m.target /\ n.trade = m.trade /\ n.halted = m.halted
    BY DEF Strategies
  <2> HIDE DEF n
  <2>4. QED BY <2>1, <2>2, <2>3 DEF Reconciles
<1>4. CASE p # t /\ due /\ NextOrder(p, t) = NoOrder
  <2>1. Decided(m, p, stopping, rested) = Halted(m)
    BY <1>4 DEF Decided
  <2>2. QED BY <2>1, HaltedStrategy DEF Reconciles
<1>5. CASE p # t /\ due /\ NextOrder(p, t) # NoOrder
  <2> DEFINE o == NextOrder(p, t)
             a == Attempted(m)
             n == [a EXCEPT !.sending = o]
  <2>1. Decided(m, p, stopping, rested) = n
    BY <1>5 DEF Decided
  <2>2. a \in Strategies
    <3>1. m.attempts < FastAttempts => m.attempts + 1 \in 0..FastAttempts
      BY DEF Strategies
    <3>2. QED BY <3>1, FieldSet DEF Attempted
  <2>3. a.inFlight = None /\ a.timedOut = m.timedOut /\ a.flat = m.flat
        /\ a.target = m.target /\ a.trade = m.trade /\ a.halted = m.halted
    BY DEF Strategies, Attempted
  <2>4. /\ Sound(o) /\ o.seen = p /\ p + o.lots = t
        /\ ~o.reduce => t # 0 /\ Sign(t) # Sign(p)
    BY <1>1, <1>5, NextOrderLeads
  <2>5. n \in Strategies
    BY <2>2, <2>4, FieldSet, Zenon DEF Sound
  <2> HIDE DEF o, a
  <2>6. n.sending = o /\ n.inFlight = None /\ n.timedOut = m.timedOut /\ n.flat = m.flat
        /\ n.target = m.target /\ n.trade = m.trade /\ n.halted = m.halted
    BY <2>2, <2>3 DEF Strategies
  <2> HIDE DEF n
  <2>7. QED BY <2>1, <2>4, <2>5, <2>6 DEF Reconciles
<1>6. QED BY <1>2, <1>3, <1>4, <1>5

\* With or without an order in flight.
LEMMA ReconciledReconciles ==
  ASSUME NEW m \in Strategies, m.sending = NoOrder, NEW p \in (-Lots)..Lots,
         NEW w, NEW late \in BOOLEAN, NEW rested \in BOOLEAN, stopping \in BOOLEAN
  PROVE  Reconciles(m, p, w, Reconciled(m, p, w, late, rested))
<1> DEFINE flying == m.inFlight # None /\ w[m.inFlight] # "closed"
           l == [m EXCEPT !.inFlight = None]
<1>1. l \in Strategies
  BY FieldSet, Values, Zenon
<1>2. l.inFlight = None /\ l.timedOut = m.timedOut /\ l.flat = m.flat /\ l.target = m.target
      /\ l.trade = m.trade /\ l.halted = m.halted /\ l.sending = NoOrder
  BY DEF Strategies
<1>3. Landed(m) = l
  BY DEF Landed
<1>4. m.timedOut \subseteq Slots /\ m.inFlight \in Slots \cup {None}
  BY DEF Strategies
<1> HIDE DEF l
<1>5. CASE flying /\ ~late
  <2>1. Reconciled(m, p, w, late, rested) = m
    BY <1>5 DEF Reconciled
  <2>2. QED BY <2>1 DEF Reconciles
<1>6. CASE flying /\ late
  <2> DEFINE k == [l EXCEPT !.timedOut = @ \cup {m.inFlight}]
  <2>1. Reconciled(m, p, w, late, rested) = Halted(k)
    BY <1>3, <1>6 DEF Reconciled
  <2>2. l.timedOut \cup {m.inFlight} \in SUBSET Slots
    BY <1>2, <1>4, <1>6
  <2>3. k \in Strategies
    BY <1>1, <2>2, FieldSet, Zenon
  <2>4. k.inFlight = None /\ k.timedOut = m.timedOut \cup {m.inFlight} /\ k.flat = m.flat
        /\ k.target = m.target /\ k.trade = m.trade /\ k.halted = m.halted /\ k.sending = NoOrder
    BY <1>1, <1>2 DEF Strategies
  <2> HIDE DEF k
  <2>5. QED BY <2>1, <2>3, <2>4, HaltedStrategy DEF Reconciles
<1>7. CASE ~flying
  <2> DEFINE r == [l EXCEPT !.timedOut = {s \in @ : w[s] # "closed"}]
  <2>1. Reconciled(m, p, w, late, rested) = Decided(r, p, stopping, rested)
    BY <1>3, <1>7 DEF Reconciled, Remembered
  <2>2. {s \in l.timedOut : w[s] # "closed"} \in SUBSET Slots
    BY <1>2, <1>4
  <2>3. r \in Strategies
    BY <1>1, <2>2, FieldSet, Zenon
  <2>4. r.inFlight = None /\ r.timedOut = {s \in m.timedOut : w[s] # "closed"}
        /\ r.flat = m.flat /\ r.target = m.target /\ r.trade = m.trade
        /\ r.halted = m.halted /\ r.sending = NoOrder
    BY <1>1, <1>2 DEF Strategies
  <2> DEFINE n == Decided(r, p, stopping, rested)
  <2>5. Reconciles(r, p, w, n)
    BY <2>3, <2>4, DecidedReconciles
  <2> HIDE DEF r, n
  <2>6. \A s \in Slots : w[s] # "closed" /\ (s = m.inFlight \/ s \in m.timedOut)
                           => s = n.inFlight \/ s \in n.timedOut
    BY <1>7, <2>4, <2>5 DEF Reconciles
  <2>7. n.timedOut \subseteq r.timedOut => n.timedOut \subseteq m.timedOut
    BY <2>4
  <2>8. Reconciles(m, p, w, n)
    BY <2>4, <2>5, <2>6, <2>7 DEF Reconciles
  <2>9. QED BY <2>1, <2>8 DEF n
<1>8. QED BY <1>5, <1>6, <1>7

-----------------------------------------------------------------------------
(* Events of the engine *)

\* n wants what m wants, or less of it, and is otherwise the same to the orders.
Shrinks(m, n) ==
  /\ n \in Strategies
  /\ n.trade = m.trade /\ n.halted = m.halted /\ n.inFlight = m.inFlight
  /\ n.timedOut = m.timedOut /\ n.flat = m.flat /\ n.sending = m.sending
  /\ \/ n.target \in {0, m.target}
     \/ Sign(n.target) = Sign(m.target) /\ Abs(n.target) <= Abs(m.target)

\* The position t less k lots has the side of t and not more of it.
Less(t, k) == Sign(t) * (IF Abs(t) - k > 0 THEN Abs(t) - k ELSE 0)

\* A target lost by a part keeps its side, or is flat.
LEMMA PartOfPosition ==
  ASSUME NEW t \in (-Lots)..Lots, NEW k \in Nat
  PROVE  /\ Less(t, k) \in (-Lots)..Lots
         /\ \/ Less(t, k) = 0
            \/ Sign(Less(t, k)) = Sign(t) /\ Abs(Less(t, k)) <= Abs(t)
<1>1. CASE t > 0
  BY <1>1 DEF Less, Sign, Abs
<1>2. CASE t = 0
  BY <1>2 DEF Less, Sign, Abs
<1>3. CASE t < 0
  BY <1>3 DEF Less, Sign, Abs
<1>4. QED BY <1>1, <1>2, <1>3

\* A target or the end of the open trade only takes from the position wanted.
LEMMA ManagedShrinks ==
  ASSUME NEW m \in Strategies, NEW n \in Managed(m)
  PROVE  Shrinks(m, n)
<1>1. ASSUME NEW k \in (m.hits + 1)..2 PROVE Shrinks(m, TargetHit(m, k))
  <2> DEFINE u == IF ~m.ours THEN m.target ELSE Less(m.target, PartialLots(m, k))
             a == [m EXCEPT !.hits = k]
             b == [a EXCEPT !.target = u]
  <2>1. PartialLots(m, k) \in Nat
    BY DEF PartialLots
  <2>2. m.target \in (-Lots)..Lots /\ k \in 0..2
    BY DEF Strategies
  <2>3. u \in (-Lots)..Lots
        /\ (u \in {0, m.target} \/ (Sign(u) = Sign(m.target) /\ Abs(u) <= Abs(m.target)))
    BY <2>1, <2>2, PartOfPosition
  <2>4. TargetHit(m, k) = b
    BY DEF TargetHit, Less, Strategies
  <2> HIDE DEF u
  <2>5. a \in Strategies
    BY <2>2, FieldSet, Zenon
  <2>6. b \in Strategies
    BY <2>3, <2>5, FieldSet, Zenon
  <2>7. b.target = u /\ b.trade = m.trade /\ b.halted = m.halted /\ b.inFlight = m.inFlight
        /\ b.timedOut = m.timedOut /\ b.flat = m.flat /\ b.sending = m.sending
    BY DEF Strategies
  <2>8. QED BY <2>3, <2>4, <2>6, <2>7 DEF Shrinks
<1>2. Shrinks(m, TradeExit(m))
  <2> DEFINE u == IF m.ours THEN 0 ELSE m.target
             a == [m EXCEPT !.dir = 0]
             b == [a EXCEPT !.hits = 0]
             c == [b EXCEPT !.ours = FALSE]
             d == [c EXCEPT !.target = u]
  <2>1. u \in (-Lots)..Lots /\ u \in {0, m.target}
    BY DEF Strategies
  <2>2. TradeExit(m) = d
    BY DEF TradeExit, Strategies
  <2> HIDE DEF u
  <2>3. a \in Strategies
    BY Values, FieldSet, Zenon
  <2>4. b \in Strategies
    BY <2>3, Values, FieldSet, Zenon
  <2>5. c \in Strategies
    BY <2>4, Values, FieldSet, Zenon
  <2>6. d \in Strategies
    BY <2>1, <2>5, FieldSet, Zenon
  <2>7. d.target = u /\ d.trade = m.trade /\ d.halted = m.halted /\ d.inFlight = m.inFlight
        /\ d.timedOut = m.timedOut /\ d.flat = m.flat /\ d.sending = m.sending
    BY DEF Strategies
  <2>8. QED BY <2>1, <2>2, <2>6, <2>7 DEF Shrinks
<1>3. QED BY <1>1, <1>2 DEF Managed

\* A strategy that wants less fits as well.
LEMMA ShrunkFits ==
  ASSUME NEW m \in Strategies, NEW n, NEW e, Shrinks(m, n), Fits(m, e), m.sending = NoOrder,
         orders \in [Slots -> OrderSpecs], pos \in (-Lots)..Lots
  PROVE  Fits(n, e)
<1> USE DEF Shrinks
<1>1. OpenIsRemembered(n) /\ FlatIsClosed(n) /\ OneInFlight(n)
  BY DEF Fits, OpenIsRemembered, FlatIsClosed, OneInFlight
<1>2. m.target = 0 => n.target = 0
  BY DEF Sign, Strategies
<1>3. SquaredWantsNone(n)
  BY <1>2 DEF Fits, SquaredWantsNone
<1>4. ASSUME NEW p \in Int, Holds(m, p) PROVE Holds(n, p)
  <2>1. CASE n.target = 0
    BY <2>1 DEF Holds
  <2>2. CASE n.target # 0
    <3>1. Sign(m.target) = Sign(p) /\ Abs(m.target) <= Abs(p)
      BY <1>2, <1>4, <2>2 DEF Holds
    <3>2. Abs(n.target) \in Int /\ Abs(m.target) \in Int /\ Abs(p) \in Int
      BY DEF Abs, Strategies
    <3>3. Sign(n.target) = Sign(m.target) /\ Abs(n.target) <= Abs(m.target)
      BY <2>2, <3>2
    <3>4. QED BY <3>1, <3>2, <3>3 DEF Holds
  <2>3. QED BY <2>1, <2>2
<1>5. EnteredHolds(n, e)
  <2>1. pos \in Int /\ \A s \in Slots : orders[s].seen + orders[s].lots \in Int
    BY DEF OrderSpecs
  <2>2. e <= n.trade
    BY DEF Fits, EnteredHolds
  <2>3. ASSUME ~n.halted, ~stopping, e = n.trade
        PROVE  /\ \A s \in Slots : Open(s) => Holds(n, orders[s].seen + orders[s].lots)
               /\ (\A s \in Slots : ~Open(s)) => Holds(n, pos)
    BY <1>4, <2>1, <2>3 DEF Fits, EnteredHolds
  <2>4. n.sending = NoOrder
    OBVIOUS
  <2>5. QED BY <2>2, <2>3, <2>4 DEF EnteredHolds
<1>6. QED BY <1>1, <1>3, <1>5 DEF Fits

\* A new trade may want anything: nothing was opened for it yet.
LEMMA EntryFits ==
  ASSUME NEW m \in Strategies, NEW n \in Entries(m), NEW e \in 0..MaxTrades, Fits(m, e)
  PROVE  n \in Strategies /\ n.sending = m.sending /\ ~n.halted /\ Fits(n, e)
<1>1. PICK d \in {-1, 1} : n = Entry(m, d)
  BY DEF Entries
<1>2. m.trade < MaxTrades /\ ~squared /\ ~m.halted
  BY DEF Entries, EntriesOk
<1> DEFINE a == [m EXCEPT !.dir = d]
           b == [a EXCEPT !.hits = 0]
           c == [b EXCEPT !.trade = m.trade + 1]
           f == [c EXCEPT !.ours = TRUE]
           g == [f EXCEPT !.target = d * Lots]
<1>3. d \in -1..1 /\ m.trade + 1 \in 0..MaxTrades /\ d * Lots \in (-Lots)..Lots
  BY <1>2 DEF Strategies
<1>4. n = g
  BY <1>1 DEF Entry, Strategies
<1>5. a \in Strategies
  BY <1>3, FieldSet, Zenon
<1>6. b \in Strategies
  BY <1>5, Values, FieldSet, Zenon
<1>7. c \in Strategies
  BY <1>3, <1>6, FieldSet, Zenon
<1>8. f \in Strategies
  BY <1>7, Values, FieldSet, Zenon
<1>9. g \in Strategies
  BY <1>3, <1>8, FieldSet, Zenon
<1>10. g.trade = m.trade + 1 /\ g.halted = m.halted /\ g.inFlight = m.inFlight
       /\ g.timedOut = m.timedOut /\ g.flat = m.flat /\ g.sending = m.sending
  BY DEF Strategies
<1> HIDE DEF g
<1>11. OpenIsRemembered(n) /\ FlatIsClosed(n) /\ OneInFlight(n)
  BY <1>4, <1>10 DEF Fits, OpenIsRemembered, FlatIsClosed, OneInFlight
<1>12. SquaredWantsNone(n)
  BY <1>2 DEF SquaredWantsNone
<1>13. e <= n.trade /\ e # n.trade
  BY <1>4, <1>10 DEF Fits, EnteredHolds, Strategies
<1>14. QED
  BY <1>2, <1>4, <1>9, <1>10, <1>11, <1>12, <1>13 DEF Fits, EnteredHolds

\* The daily square-off: the trade is over and nothing is wanted.
LEMMA SquareOffShrinks ==
  ASSUME NEW m \in Strategies
  PROVE  /\ Shrinks(m, [TradeExit(m) EXCEPT !.target = 0])
         /\ [TradeExit(m) EXCEPT !.target = 0].target = 0
<1> DEFINE x == TradeExit(m)
           n == [x EXCEPT !.target = 0]
<1>1. Shrinks(m, x)
  BY ManagedShrinks DEF Managed
<1> HIDE DEF x
<1>2. n \in Strategies
  BY <1>1, Values, FieldSet, Zenon DEF Shrinks
<1>3. n.target = 0 /\ n.trade = x.trade /\ n.halted = x.halted /\ n.inFlight = x.inFlight
      /\ n.timedOut = x.timedOut /\ n.flat = x.flat /\ n.sending = x.sending
  BY <1>1 DEF Shrinks, Strategies
<1> HIDE DEF n
<1>4. Shrinks(m, n)
  BY <1>1, <1>2, <1>3 DEF Shrinks
<1>5. QED BY <1>3, <1>4 DEF n, x

-----------------------------------------------------------------------------
(* The end of a handler *)

\* Whoever settles keeps everything the orders depend on.
LEMMA SettledStrategy ==
  ASSUME NEW m \in Strategies
  PROVE  /\ Settled(m) \in Strategies
         /\ Settled(m).target = m.target /\ Settled(m).trade = m.trade
         /\ Settled(m).halted = m.halted /\ Settled(m).inFlight = m.inFlight
         /\ Settled(m).timedOut = m.timedOut /\ Settled(m).flat = m.flat
         /\ Settled(m).sending = m.sending
<1> DEFINE a == [m EXCEPT !.dir = 0]
           b == [a EXCEPT !.hits = 0]
           c == [b EXCEPT !.exitCancels = 0]
<1>1. a \in Strategies
  BY Values, FieldSet, Zenon
<1>2. b \in Strategies
  BY <1>1, Values, FieldSet, Zenon
<1>3. c \in Strategies
  BY <1>2, Values, FieldSet, Zenon
<1>4. Settled(m) = IF m.halted THEN c ELSE m
  BY DEF Settled
<1>5. c.target = m.target /\ c.trade = m.trade /\ c.halted = m.halted
      /\ c.inFlight = m.inFlight /\ c.timedOut = m.timedOut /\ c.flat = m.flat
      /\ c.sending = m.sending
  BY DEF Strategies
<1> HIDE DEF c
<1>6. QED BY <1>3, <1>4, <1>5

\* An opening order is only sent in the trade's own time.
OpensInTime(e) ==
  st'.sending # NoOrder /\ ~st'.sending.reduce =>
    ~squared' /\ ~st'.halted /\ ~stopping /\ e < st'.trade

\* A handler that compared the new position with the target leaves a strategy that
\* fits, when the state m it compared for did; e is the last trade entered before.
LEMMA HandlerEnds ==
  ASSUME NEW m \in Strategies, m.sending = NoOrder, NEW e \in 0..MaxTrades, NEW n,
         Fits(m, e)', stopping' = stopping, Reconciles(m, pos', where', n),
         st' = Settled(n),
         entered' = IF n.sending # NoOrder /\ ~n.sending.reduce THEN n.trade ELSE e
  PROVE  /\ st' \in Strategies /\ entered' \in 0..MaxTrades
         /\ Fits(st, entered)' /\ SendingSound' /\ OpensInTime(e)
<1>1. n \in Strategies
  BY DEF Reconciles
<1>2. /\ st' \in Strategies
      /\ st'.target = n.target /\ st'.trade = n.trade /\ st'.halted = n.halted
      /\ st'.inFlight = n.inFlight /\ st'.timedOut = n.timedOut /\ st'.flat = n.flat
      /\ st'.sending = n.sending
  BY <1>1, SettledStrategy
<1>3. entered' \in 0..MaxTrades
  BY <1>1 DEF Strategies
<1>4. OpenIsRemembered(m)' /\ FlatIsClosed(m)' /\ OneInFlight(m)'
      /\ SquaredWantsNone(m)' /\ EnteredHolds(m, e)'
  BY DEF Fits
<1>5. OpenIsRemembered(st)'
  BY <1>2, <1>4 DEF OpenIsRemembered, Reconciles, Open
<1>6. FlatIsClosed(st)'
  <2>1. n.flat => m.flat \/ (pos' = 0 /\ st'.timedOut = {} /\ st'.inFlight = None)
    BY <1>2 DEF Reconciles
  <2>2. QED BY <1>2, <1>4, <1>5, <2>1, Values DEF FlatIsClosed, OpenIsRemembered
<1>7. OneInFlight(st)'
  BY <1>2, <1>4 DEF OneInFlight, Reconciles
<1>8. SquaredWantsNone(st)'
  BY <1>2, <1>4 DEF SquaredWantsNone, Reconciles
<1>9. n.sending # NoOrder /\ ~st'.halted => \A s \in Slots : ~Open(s)'
  BY <1>2, <1>5, <1>7, Values DEF Reconciles, OneInFlight, OpenIsRemembered
<1>10. SendingSound'
  BY <1>2, <1>9 DEF SendingSound, Reconciles
<1>11. OpensInTime(e)
  <2>1. SUFFICES ASSUME n.sending # NoOrder, ~n.sending.reduce
                 PROVE  ~squared' /\ ~st'.halted /\ ~stopping /\ e < st'.trade
    BY <1>2 DEF OpensInTime
  <2>2. ~m.halted /\ ~stopping /\ m.target # 0 /\ Sign(m.target) # Sign(pos')
        /\ n.halted = m.halted /\ n.trade = m.trade
    BY <2>1 DEF Reconciles
  <2>3. ~squared'
    BY <1>4, <2>2 DEF SquaredWantsNone
  <2>4. ~Holds(m, pos')
    BY <2>2 DEF Holds
  <2>5. \A s \in Slots : ~Open(s)'
    BY <1>2, <1>9, <2>1, <2>2
  <2>6. e <= m.trade /\ e # m.trade
    BY <1>4, <2>2, <2>4, <2>5 DEF EnteredHolds
  <2>7. QED BY <1>2, <2>2, <2>3, <2>6 DEF Strategies
<1>12. ASSUME NEW p, Holds(m, p) PROVE Holds(st', p)
  BY <1>2, <1>12 DEF Holds, Reconciles
<1>13. EnteredHolds(st, entered)'
  <2>1. entered' <= st'.trade
    BY <1>1, <1>2, <1>4 DEF EnteredHolds, Reconciles, Strategies
  <2>2. SUFFICES ASSUME ~st'.halted, ~stopping', entered' = st'.trade
                 PROVE  /\ st'.sending # NoOrder
                             => Holds(st', st'.sending.seen + st'.sending.lots)
                        /\ \A s \in Slots : Open(s)'
                             => Holds(st', orders'[s].seen + orders'[s].lots)
                        /\ st'.sending = NoOrder /\ (\A s \in Slots : ~Open(s)')
                             => Holds(st', pos')
    BY <2>1 DEF EnteredHolds
  <2>3. ~m.halted /\ ~stopping /\ n.trade = m.trade
    BY <1>2, <2>2 DEF Reconciles
  <2>4. st'.sending # NoOrder
          => Holds(st', st'.sending.seen + st'.sending.lots) /\ \A s \in Slots : ~Open(s)'
    <3>1. n.sending # NoOrder => n.sending.seen + n.sending.lots = n.target
      BY <2>3 DEF Reconciles
    <3>2. n.target \in Int
      BY <1>1 DEF Strategies
    <3>3. Holds(st', n.target)
      BY <1>2, <3>2 DEF Holds, Abs, Sign
    <3>4. QED BY <1>2, <1>9, <2>2, <3>1, <3>3
  <2>5. n.sending = NoOrder
          => /\ \A s \in Slots : Open(s)' => Holds(st', orders'[s].seen + orders'[s].lots)
             /\ (\A s \in Slots : ~Open(s)') => Holds(st', pos')
    BY <1>2, <1>4, <1>12, <2>2, <2>3 DEF EnteredHolds
  <2>6. QED BY <1>2, <2>4, <2>5
<1>14. QED
  BY <1>2, <1>3, <1>5, <1>6, <1>7, <1>8, <1>10, <1>11, <1>13 DEF Fits

\* A handler that only settles.
LEMMA ReconcilesItself ==
  ASSUME NEW m \in Strategies, m.sending = NoOrder, NEW p, NEW w
  PROVE  Reconciles(m, p, w, m)
BY DEF Reconciles

\* A halted strategy fits as well.
LEMMA HaltedFits ==
  ASSUME NEW m \in Strategies, NEW e \in 0..MaxTrades, Fits(m, e)
  PROVE  Fits(Halted(m), e)
BY HaltedStrategy
   DEF Fits, OpenIsRemembered, FlatIsClosed, OneInFlight, SquaredWantsNone, EnteredHolds

\* The orders fit as long as nothing about them changes.
LEMMA OrdersStay ==
  ASSUME OrdersFit, UNCHANGED <<pos, orderVars>>
  PROVE  OrdersFit'
<1>1. UNCHANGED <<pos, orders, unshown, untraded, where, events, net, client>>
  BY DEF orderVars
<1>2. OrdersSound' /\ OneUnresolved' /\ QuietOrders'
  BY <1>1 DEF OrdersFit, OrdersSound, OneUnresolved, QuietOrders, Open, Unresolved
<1>3. FutureEndsAsKite'
  BY <1>1 DEF OrdersFit, FutureEndsAsKite, IsFuture, EndsAsKite, Cache, Shown
<1>4. QED BY <1>2, <1>3 DEF OrdersFit

\* A handler that is not about an event: it turned the strategy into m, compared,
\* and ends in n.
LEMMA QuietHandler ==
  ASSUME IInv, NEW m \in Strategies, m.sending = NoOrder, NEW e, e = entered,
         NEW n, Fits(m, e)', UNCHANGED <<pos, orderVars, controlVars>>,
         squared' \in BOOLEAN, Reconciles(m, pos, where, n), Becomes(n)
  PROVE  IInv' /\ OpensInTime(entered)
<1>1. UNCHANGED <<pos, orders, unshown, untraded, where, events, net, client, stopping, watcher>>
  BY DEF orderVars, controlVars
<1>2. e \in 0..MaxTrades
  BY DEF IInv, TypeOK
<1>3. st' = Settled(n)
      /\ entered' = IF n.sending # NoOrder /\ ~n.sending.reduce THEN n.trade ELSE e
  BY DEF Becomes
<1>4. Reconciles(m, pos', where', n)
  BY <1>1
<1>5. /\ st' \in Strategies /\ entered' \in 0..MaxTrades
      /\ Fits(st, entered)' /\ SendingSound' /\ OpensInTime(e)
  BY <1>1, <1>2, <1>3, <1>4, HandlerEnds
<1>6. TypeOK'
  BY <1>1, <1>5 DEF IInv, TypeOK
<1>7. OrdersFit'
  BY OrdersStay DEF IInv
<1>8. QED BY <1>5, <1>6, <1>7 DEF IInv

\* A state that fits goes on doing so while the orders and the flags stay.
LEMMA FitsStays ==
  ASSUME NEW m, NEW e, Fits(m, e), UNCHANGED <<pos, orderVars, stopping>>,
         squared' => squared \/ m.target = 0
  PROVE  Fits(m, e)'
<1>1. UNCHANGED <<pos, orders, unshown, where, stopping>>
  BY DEF orderVars
<1>2. OpenIsRemembered(m)' /\ FlatIsClosed(m)' /\ OneInFlight(m)'
  BY <1>1 DEF Fits, OpenIsRemembered, FlatIsClosed, OneInFlight, Open
<1>3. SquaredWantsNone(m)'
  BY DEF Fits, SquaredWantsNone
<1>4. EnteredHolds(m, e)'
  BY <1>1 DEF Fits, EnteredHolds, Open
<1>5. QED BY <1>2, <1>3, <1>4 DEF Fits

\* A bar keeps the invariant and opens in time only.
LEMMA BarStep ==
  ASSUME IInv, NEW squareOff \in BOOLEAN, Bar(squareOff)
  PROVE  IInv' /\ OpensInTime(entered)
<1>1. /\ st \in Strategies /\ st.sending = NoOrder /\ Fits(st, entered)
      /\ entered \in 0..MaxTrades /\ squared \in BOOLEAN /\ stopping \in BOOLEAN
      /\ pos \in (-Lots)..Lots /\ orders \in [Slots -> OrderSpecs]
  BY DEF IInv, TypeOK, Bar, Ready
<1>2. PICK e \in 0..MaxTrades : e = entered
  BY <1>1
<1>3. PICK m \in {st} \cup (IF st.dir # 0 THEN Managed(st) ELSE {}) :
        \E n \in {m} \cup Entries(m) :
        \E late \in Lateness(where), rested \in Restedness :
          LET end == IF squareOff THEN [TradeExit(n) EXCEPT !.target = 0] ELSE n
          IN  Becomes(Reconciled(end, pos, where, late, rested))
  BY DEF Bar
<1>4. m \in Strategies /\ m.sending = NoOrder /\ Fits(m, e)
  <2>1. CASE m = st
    BY <1>1, <1>2, <2>1
  <2>2. CASE m \in Managed(st)
    <3>1. Shrinks(st, m)
      BY <1>1, <2>2, ManagedShrinks
    <3>2. Fits(m, e)
      BY <1>1, <1>2, <3>1, ShrunkFits
    <3>3. QED BY <1>1, <3>1, <3>2 DEF Shrinks
  <2>3. QED BY <1>3, <2>1, <2>2
<1>5. PICK n \in {m} \cup Entries(m) :
        \E late \in Lateness(where), rested \in Restedness :
          LET end == IF squareOff THEN [TradeExit(n) EXCEPT !.target = 0] ELSE n
          IN  Becomes(Reconciled(end, pos, where, late, rested))
  BY <1>3
<1>6. n \in Strategies /\ n.sending = NoOrder /\ Fits(n, e)
  <2>1. CASE n = m
    BY <1>4, <2>1
  <2>2. CASE n \in Entries(m)
    BY <1>4, <2>2, EntryFits
  <2>3. QED BY <1>5, <2>1, <2>2
<1>7. PICK end : end = IF squareOff THEN [TradeExit(n) EXCEPT !.target = 0] ELSE n
  OBVIOUS
<1>8. PICK late \in Lateness(where), rested \in Restedness :
        Becomes(Reconciled(end, pos, where, late, rested))
  BY <1>5, <1>7
<1>9. late \in BOOLEAN /\ rested \in BOOLEAN
  BY DEF Lateness, Restedness
<1>10. end \in Strategies /\ end.sending = NoOrder /\ Fits(end, e)
       /\ (squareOff => end.target = 0)
  <2>1. CASE squareOff
    <3>1. Shrinks(n, end) /\ end.target = 0
      BY <1>6, <1>7, <2>1, SquareOffShrinks
    <3>2. Fits(end, e)
      BY <1>1, <1>6, <3>1, ShrunkFits
    <3>3. QED BY <1>6, <3>1, <3>2 DEF Shrinks
  <2>2. CASE ~squareOff
    BY <1>6, <1>7, <2>2
  <2>3. QED BY <2>1, <2>2
<1>11. /\ UNCHANGED <<pos, orderVars, controlVars>>
       /\ squared' = (squared \/ squareOff)
  BY DEF Bar
<1>12. Fits(end, e)'
  BY <1>10, <1>11, FitsStays DEF controlVars
<1>13. squared' \in BOOLEAN
  BY <1>11
<1>14. PICK r : r = Reconciled(end, pos, where, late, rested)
  OBVIOUS
<1>15. Reconciles(end, pos, where, r)
  BY <1>1, <1>9, <1>10, <1>14, ReconciledReconciles
<1>16. Becomes(r)
  BY <1>8, <1>14
<1>17. QED
  BY <1>2, <1>10, <1>11, <1>12, <1>13, <1>15, <1>16, QuietHandler

\* So does a quote.
LEMMA QuoteStep ==
  ASSUME IInv, Quote
  PROVE  IInv' /\ OpensInTime(entered)
<1>1. /\ st \in Strategies /\ st.sending = NoOrder /\ Fits(st, entered)
      /\ entered \in 0..MaxTrades /\ squared \in BOOLEAN /\ stopping \in BOOLEAN
      /\ pos \in (-Lots)..Lots /\ orders \in [Slots -> OrderSpecs]
  BY DEF IInv, TypeOK, Quote, Ready
<1>2. PICK e \in 0..MaxTrades : e = entered
  BY <1>1
<1>3. PICK m \in Managed(st) : \E late \in Lateness(where) :
        Becomes(Reconciled(m, pos, where, late, FALSE))
  BY DEF Quote
<1>4. Shrinks(st, m)
  BY <1>1, <1>3, ManagedShrinks
<1>5. m \in Strategies /\ m.sending = NoOrder /\ Fits(m, e)
  BY <1>1, <1>2, <1>4, ShrunkFits DEF Shrinks
<1>6. PICK late \in Lateness(where) : Becomes(Reconciled(m, pos, where, late, FALSE))
  BY <1>3
<1>7. late \in BOOLEAN
  BY DEF Lateness
<1>8. UNCHANGED <<pos, orderVars, controlVars>> /\ squared' = squared
  BY DEF Quote
<1>9. Fits(m, e)'
  BY <1>5, <1>8, FitsStays DEF controlVars
<1>10. PICK r : r = Reconciled(m, pos, where, late, FALSE)
  OBVIOUS
<1>11. Reconciles(m, pos, where, r)
  BY <1>1, <1>5, <1>7, <1>10, Values, ReconciledReconciles
<1>12. Becomes(r)
  BY <1>6, <1>10
<1>13. QED
  BY <1>1, <1>2, <1>5, <1>8, <1>9, <1>11, <1>12, QuietHandler

\* The timer sets flat once more when nothing is in flight.
LEMMA TickStep ==
  ASSUME IInv, NEW late \in BOOLEAN, NEW rested \in BOOLEAN, Tick(late, rested)
  PROVE  IInv' /\ OpensInTime(entered)
<1>1. /\ st \in Strategies /\ st.sending = NoOrder /\ Fits(st, entered)
      /\ entered \in 0..MaxTrades /\ squared \in BOOLEAN /\ stopping \in BOOLEAN
      /\ pos \in (-Lots)..Lots
  BY DEF IInv, TypeOK, Tick, Ready
<1>2. PICK e \in 0..MaxTrades : e = entered
  BY <1>1
<1>3. PICK m : m = IF stopping /\ ~st.halted THEN Halted(st) ELSE st
  OBVIOUS
<1>4. m \in Strategies /\ m.sending = NoOrder /\ Fits(m, e)
  BY <1>1, <1>2, <1>3, HaltedFits, HaltedStrategy
<1>5. PICK n : n = Reconciled(m, pos, where, late, rested)
  OBVIOUS
<1>6. Reconciles(m, pos, where, n)
  BY <1>1, <1>4, <1>5, ReconciledReconciles
<1> DEFINE f == ReportsFlat(n, pos)
           k == [n EXCEPT !.flat = f]
<1>7. PICK r : r = IF n.inFlight = None /\ n.sending = NoOrder THEN k ELSE n
  OBVIOUS
<1>8. Reconciles(m, pos, where, r)
  <2>1. n \in Strategies
    BY <1>6 DEF Reconciles
  <2>2. k \in Strategies
    BY <2>1, FieldSet, f \in BOOLEAN, Zenon DEF ReportsFlat
  <2>3. k.flat = f /\ k.sending = n.sending /\ k.inFlight = n.inFlight /\ k.timedOut = n.timedOut
        /\ k.target = n.target /\ k.trade = n.trade /\ k.halted = n.halted
    BY <2>1 DEF Strategies
  <2>4. f => pos = 0 /\ n.timedOut = {}
    BY DEF ReportsFlat
  <2> HIDE DEF k, f
  <2>5. QED BY <1>6, <1>7, <2>2, <2>3, <2>4 DEF Reconciles
<1>9. r = Ticked(late, rested)
  BY <1>3, <1>5, <1>7 DEF Ticked
<1>10. UNCHANGED <<pos, orderVars, controlVars>> /\ squared' = squared
  BY DEF Tick
<1>11. Fits(m, e)'
  BY <1>4, <1>10, FitsStays DEF controlVars
<1>12. Becomes(r)
  BY <1>9 DEF Tick
<1>13. QED
  BY <1>1, <1>2, <1>4, <1>8, <1>10, <1>11, <1>12, QuietHandler

-----------------------------------------------------------------------------
(* An order is sent *)

\* What the future of the strategy holds, element by element.
LEMMA FutureElements ==
  ASSUME TypeOK, QuietOrders, NEW c \in [0..Len(events) -> Cache], IsFuture(c)
  PROVE  /\ Len(events) \in Nat
         /\ \A i \in 0..Len(events) :
              /\ c[i] \in Cache /\ c[i].pos \in (-Lots)..Lots
              /\ c[i].unshown \in [Slots -> 0..(2 * Lots)]
              /\ \A s \in Slots : c[i].unshown[s] \in 0..(2 * Lots)
                                  /\ c[i].unshown[s] <= unshown[s]
         /\ \A i \in 1..Len(events) :
              /\ i - 1 \in 0..Len(events) /\ i \in 0..Len(events)
              /\ events[i] \in Events /\ events[i][1] \in Slots
              /\ where[events[i][1]] \in {"working", "over"}
<1>1. events \in Seq(Events) /\ Len(events) \in Nat
  BY DEF TypeOK, Events
<1>2. \A i \in 1..Len(events) : events[i] \in Events
  BY <1>1
<1>3. \A i \in 1..Len(events) : events[i][1] \in Slots
  BY <1>2 DEF Events
<1>4. \A i \in 0..Len(events) :
        /\ c[i] \in Cache /\ c[i].pos \in (-Lots)..Lots
        /\ c[i].unshown \in [Slots -> 0..(2 * Lots)]
        /\ \A s \in Slots : c[i].unshown[s] \in 0..(2 * Lots)
  BY DEF Cache
<1>5. 0 \in 0..Len(events) /\ \A i \in 0..Len(events) : 0 <= i
  BY <1>1
<1>6. \A i \in 0..Len(events) : \A s \in Slots : c[i].unshown[s] <= unshown[s]
  BY <1>5 DEF IsFuture
<1>7. \A i \in 1..Len(events) : i - 1 \in 0..Len(events) /\ i \in 0..Len(events)
  BY <1>1
<1>8. QED BY <1>1, <1>2, <1>3, <1>4, <1>6, <1>7 DEF QuietOrders

\* An order that is sent fits its slot and the others keep theirs.
LEMMA SendOrders ==
  ASSUME IInv, NEW s \in Slots, Send(s)
  PROVE  OrdersFit'
<1> DEFINE o == st.sending
<1> PICK L : L = Abs(o.lots)
  OBVIOUS
<1>1. /\ where[s] = "closed" /\ Sound(o)
      /\ orders' = [orders EXCEPT ![s] = o]
      /\ unshown' = [unshown EXCEPT ![s] = L]
      /\ untraded' = [untraded EXCEPT ![s] = L]
      /\ where' = [where EXCEPT ![s] = "queued"]
      /\ pos' = pos /\ events' = events /\ net' = net /\ client' = client
  BY DEF Send, FreeSlots, IInv, SendingSound
<1>2. /\ orders \in [Slots -> OrderSpecs] /\ unshown \in [Slots -> 0..(2 * Lots)]
      /\ untraded \in [Slots -> 0..(2 * Lots)] /\ where \in [Slots -> Places]
      /\ pos \in (-Lots)..Lots
  BY DEF IInv, TypeOK
<1>3. OrdersSound /\ OneUnresolved /\ FutureEndsAsKite /\ QuietOrders
  BY DEF IInv, OrdersFit
<1>4. L \in 1..(2 * Lots)
  BY <1>1 DEF Sound, OrderSpecs, Abs
<1>5. /\ unshown[s] = 0 /\ orders'[s] = o /\ unshown'[s] = L /\ untraded'[s] = L
      /\ where'[s] = "queued"
      /\ \A r \in Slots : r # s => /\ orders'[r] = orders[r] /\ unshown'[r] = unshown[r]
                                   /\ untraded'[r] = untraded[r] /\ where'[r] = where[r]
  BY <1>1, <1>2, <1>3 DEF OrdersSound, Open
<1> HIDE DEF o
<1>6. OrdersSound'
  <2> SUFFICES ASSUME NEW r \in Slots
               PROVE  (/\ Open(r) => Sound(orders[r]) /\ unshown[r] \in 1..Abs(orders[r].lots)
                       /\ ~Open(r) => unshown[r] = 0
                       /\ untraded[r] <= unshown[r]
                       /\ where[r] \in {"over", "closed"} => untraded[r] = 0
                       /\ where[r] \in {"queued", "lost", "dead"} =>
                            unshown[r] = Abs(orders[r].lots) /\ untraded[r] = unshown[r]
                       /\ where[r] = "working" => untraded[r] >= 1)'
    BY DEF OrdersSound
  <2>1. CASE r = s
    BY <1>1, <1>4, <1>5, <2>1 DEF Open
  <2>2. CASE r # s
    BY <1>3, <1>5, <2>2 DEF OrdersSound, Open
  <2>3. QED BY <2>1, <2>2
<1>7. OneUnresolved'
  BY <1>1, <1>3, <1>5 DEF OneUnresolved, Unresolved
<1>8. FutureEndsAsKite'
  <2>1. PICK c \in [0..Len(events) -> Cache] : IsFuture(c) /\ EndsAsKite(c[Len(events)])
    BY <1>3 DEF FutureEndsAsKite
  <2>2. /\ Len(events) \in Nat
        /\ \A i \in 0..Len(events) :
             /\ c[i] \in Cache /\ c[i].pos \in (-Lots)..Lots
             /\ c[i].unshown \in [Slots -> 0..(2 * Lots)]
             /\ \A r \in Slots : c[i].unshown[r] \in 0..(2 * Lots)
                                 /\ c[i].unshown[r] <= unshown[r]
        /\ \A i \in 1..Len(events) :
             /\ i - 1 \in 0..Len(events) /\ i \in 0..Len(events)
             /\ events[i] \in Events /\ events[i][1] \in Slots
             /\ where[events[i][1]] \in {"working", "over"}
    BY <1>3, <2>1, FutureElements DEF IInv
  <2> DEFINE D == [i \in 0..Len(events) |->
                     [pos |-> c[i].pos, unshown |-> [c[i].unshown EXCEPT ![s] = L]]]
  <2>. PICK d : d = D
    OBVIOUS
  <2>3. \A i \in 0..Len(events) :
          /\ d[i] = [pos |-> c[i].pos, unshown |-> [c[i].unshown EXCEPT ![s] = L]]
          /\ d[i] \in Cache
    BY <1>4, <2>2 DEF Cache
  <2>4. d \in [0..Len(events') -> Cache]
    BY <1>1, <2>3
  <2>12. \A i \in 0..Len(events) :
          /\ d[i].unshown = [c[i].unshown EXCEPT ![s] = L]
          /\ d[i] = [pos |-> d[i].pos, unshown |-> d[i].unshown]
    <3>1. SUFFICES ASSUME NEW i \in 0..Len(events)
                   PROVE  /\ d[i].unshown = [c[i].unshown EXCEPT ![s] = L]
                          /\ d[i] = [pos |-> d[i].pos, unshown |-> d[i].unshown]
      OBVIOUS
    <3>2. PICK p, u : p = c[i].pos /\ u = [c[i].unshown EXCEPT ![s] = L]
      OBVIOUS
    <3>3. d[i] = [pos |-> p, unshown |-> u]
      BY <2>3, <3>2
    <3>4. QED BY <3>2, <3>3
  <2>5. \A i \in 0..Len(events) :
          /\ d[i].pos = c[i].pos /\ d[i].unshown[s] = L
          /\ \A r \in Slots : r # s => d[i].unshown[r] = c[i].unshown[r]
    BY <2>2, <2>3
  <2> HIDE DEF D
  <2>6. d[0] = [pos |-> pos', unshown |-> unshown']
    <3>1. c[0].pos = pos /\ c[0].unshown = unshown /\ 0 \in 0..Len(events)
      BY <2>1, <2>2 DEF IsFuture
    <3>2. QED BY <1>1, <2>3, <3>1
  <2>7. ASSUME NEW i \in 1..Len(events')
        PROVE  d[i - 1].unshown[events'[i][1]] > 0 /\ d[i] = Shown(d[i - 1], events[i])'
    <3>1. i \in 1..Len(events) /\ events'[i] = events[i]
      BY <1>1
    <3>2. PICK e, r : e = events[i] /\ r = e[1]
      OBVIOUS
    <3>3. r # s /\ r \in Slots /\ i - 1 \in 0..Len(events) /\ i \in 0..Len(events)
      BY <1>1, <2>2, <3>1, <3>2
    <3>4. c[i - 1].unshown[r] > 0 /\ c[i] = Shown(c[i - 1], e)
      BY <2>1, <3>1, <3>2 DEF IsFuture
    <3>5. orders'[r] = orders[r]
      BY <1>5, <3>3
    <3>6. d[i - 1].unshown[r] > 0
      BY <2>5, <3>3, <3>4
    <3>7. d[i].pos = IF e[2] = "Filled" THEN d[i - 1].pos + Sign(orders'[r].lots)
                     ELSE d[i - 1].pos
      <4>1. d[i].pos = c[i].pos /\ d[i - 1].pos = c[i - 1].pos
        BY <2>5, <3>3
      <4>2. c[i].pos = IF e[2] = "Filled" THEN c[i - 1].pos + Sign(orders[r].lots)
                       ELSE c[i - 1].pos
        BY <3>2, <3>4 DEF Shown
      <4>3. QED BY <3>5, <4>1, <4>2
    <3>8. d[i].unshown = [d[i - 1].unshown EXCEPT ![r] = IF e[2] = "Filled" THEN @ - 1 ELSE 0]
      <4>1. d[i].unshown = [c[i].unshown EXCEPT ![s] = L]
            /\ d[i - 1].unshown = [c[i - 1].unshown EXCEPT ![s] = L]
        BY <2>12, <3>3
      <4>2. c[i].unshown = [c[i - 1].unshown EXCEPT ![r] = IF e[2] = "Filled" THEN @ - 1 ELSE 0]
        BY <3>2, <3>4 DEF Shown
      <4>3. c[i - 1].unshown \in [Slots -> 0..(2 * Lots)]
        BY <2>2, <3>3
      <4>4. QED BY <3>3, <4>1, <4>2, <4>3
    <3>9. d[i] = [pos |-> d[i].pos, unshown |-> d[i].unshown]
      BY <2>12, <3>3
    <3>10. d[i] = Shown(d[i - 1], events[i])'
      BY <3>1, <3>2, <3>7, <3>8, <3>9 DEF Shown
    <3>11. QED BY <3>1, <3>2, <3>6, <3>10
  <2>8. \A i, j \in 0..Len(events) : i <= j =>
          \A r \in Slots : d[j].unshown[r] <= d[i].unshown[r]
    BY <1>4, <2>1, <2>5 DEF IsFuture
  <2>9. IsFuture(d)'
    <3>1. Len(events') = Len(events)
      BY <1>1
    <3>2. QED BY <2>6, <2>7, <2>8, <3>1 DEF IsFuture
  <2>10. EndsAsKite(d[Len(events)])'
    <3>1. Len(events) \in Nat
      BY <2>2
    <3>2. Len(events) \in 0..Len(events)
      BY <3>1
    <3>3. EndsAsKite(c[Len(events)])
      BY <2>1
    <3>4. PICK last, next : last = c[Len(events)] /\ next = d[Len(events)]
      OBVIOUS
    <3>5. /\ next.pos = last.pos /\ next.unshown[s] = L
          /\ \A r \in Slots : r # s => next.unshown[r] = last.unshown[r]
      BY <2>5, <3>2, <3>4
    <3>6. client = "up" =>
            last.pos = net /\ \A r \in Slots : last.unshown[r] = untraded[r]
      BY <3>3, <3>4 DEF EndsAsKite
    <3>7. \A r \in Slots : untraded[r] <= last.unshown[r]
      BY <3>3, <3>4 DEF EndsAsKite
    <3>8. client' = "up" =>
            next.pos = net' /\ \A r \in Slots : next.unshown[r] = untraded'[r]
      BY <1>1, <1>5, <3>5, <3>6
    <3>9. \A r \in Slots : untraded'[r] <= next.unshown[r]
      BY <1>4, <1>5, <3>5, <3>7
    <3>10. ~(\A r \in Slots : next.unshown[r] = 0)
      BY <1>4, <3>5
    <3>11. EndsAsKite(next)'
      BY <3>8, <3>9, <3>10 DEF EndsAsKite
    <3>12. QED BY <1>1, <3>4, <3>11
  <2>11. QED BY <1>1, <2>4, <2>9, <2>10 DEF FutureEndsAsKite
<1>9. QuietOrders'
  <2>1. \A i \in 1..Len(events) : events[i][1] \in Slots
    <3>1. events \in Seq(Events)
      BY DEF IInv, TypeOK, Events
    <3>2. \A i \in 1..Len(events) : events[i] \in Events
      BY <3>1
    <3>3. QED BY <3>2 DEF Events
  <2>2. QED BY <1>1, <1>3, <1>5, <2>1 DEF QuietOrders
<1>10. QED BY <1>6, <1>7, <1>8, <1>9 DEF OrdersFit

\* Sending keeps the invariant.
LEMMA SendStep ==
  ASSUME IInv, NEW s \in Slots, Send(s)
  PROVE  IInv'
<1> DEFINE o == st.sending
<1>1. /\ st \in Strategies /\ o # NoOrder /\ Sound(o) /\ st.inFlight = None /\ o.seen = pos
      /\ ~st.halted => \A r \in Slots : ~Open(r)
  BY DEF IInv, TypeOK, SendingSound, Send
<1> DEFINE a == [st EXCEPT !.inFlight = s]
           b == [a EXCEPT !.flat = FALSE]
           d == [b EXCEPT !.sending = NoOrder]
<1>2. a \in Strategies
  BY <1>1, FieldSet, Zenon
<1>3. b \in Strategies
  BY <1>2, Values, FieldSet, Zenon
<1>4. d \in Strategies
  BY <1>3, Values, FieldSet, Zenon
<1>5. st' = d
  BY DEF Send
<1>6. d.target = st.target /\ d.trade = st.trade /\ d.halted = st.halted /\ d.inFlight = s
      /\ d.timedOut = st.timedOut /\ ~d.flat /\ d.sending = NoOrder
  BY <1>1 DEF Strategies
<1> HIDE DEF d
<1>7. /\ orders' = [orders EXCEPT ![s] = o]
      /\ unshown' = [unshown EXCEPT ![s] = Abs(o.lots)]
      /\ untraded' = [untraded EXCEPT ![s] = Abs(o.lots)]
      /\ where' = [where EXCEPT ![s] = "queued"]
      /\ UNCHANGED <<squared, pos, entered, events, net, client, stopping, watcher>>
  BY DEF Send, controlVars
<1>8. /\ orders \in [Slots -> OrderSpecs] /\ unshown \in [Slots -> 0..(2 * Lots)]
      /\ untraded \in [Slots -> 0..(2 * Lots)] /\ where \in [Slots -> Places]
      /\ entered \in 0..MaxTrades /\ stopping \in BOOLEAN /\ pos \in (-Lots)..Lots
  BY DEF IInv, TypeOK
<1>9. Abs(o.lots) \in 0..(2 * Lots) /\ o \in OrderSpecs
  BY <1>1 DEF Sound, OrderSpecs, Abs
<1>10. TypeOK'
  <2>1. where' \in [Slots -> Places] /\ orders' \in [Slots -> OrderSpecs]
    BY <1>7, <1>8, <1>9 DEF Places
  <2>2. unshown' \in [Slots -> 0..(2 * Lots)] /\ untraded' \in [Slots -> 0..(2 * Lots)]
    BY <1>7, <1>8, <1>9
  <2>3. QED BY <1>4, <1>5, <1>7, <2>1, <2>2 DEF IInv, TypeOK
<1>11. /\ orders'[s] = o /\ unshown'[s] = Abs(o.lots) /\ where'[s] = "queued"
       /\ \A r \in Slots : r # s => /\ orders'[r] = orders[r] /\ unshown'[r] = unshown[r]
                                    /\ where'[r] = where[r]
  BY <1>7, <1>8
<1> HIDE DEF o
<1>12. Fits(st, entered)
  BY DEF IInv
<1>13. OpenIsRemembered(st)' /\ FlatIsClosed(st)'
  BY <1>1, <1>5, <1>6, <1>11, <1>12, Values
     DEF Fits, OpenIsRemembered, FlatIsClosed, Open
<1>14. OneInFlight(st)'
  <2>1. o.seen + o.lots - Sign(o.lots) * Abs(o.lots) = o.seen
    BY <1>9 DEF OrderSpecs, Sign, Abs
  <2>2. QED
    BY <1>1, <1>5, <1>6, <1>7, <1>11, <1>12, <2>1 DEF Fits, OneInFlight, Open
<1>15. SquaredWantsNone(st)'
  BY <1>5, <1>6, <1>7, <1>12 DEF Fits, SquaredWantsNone
<1>16. EnteredHolds(st, entered)'
  <2>1. ASSUME NEW p, Holds(st, p) PROVE Holds(d, p)
    BY <1>6, <2>1 DEF Holds
  <2>2. \A r \in Slots : Open(r)' /\ ~st.halted => r = s
    BY <1>1, <1>11 DEF Open
  <2>3. Open(s)'
    BY <1>11 DEF Open
  <2>4. QED
    BY <1>1, <1>5, <1>6, <1>7, <1>11, <1>12, <2>1, <2>2, <2>3
       DEF Fits, EnteredHolds, o
<1>17. SendingSound'
  BY <1>5, <1>6 DEF SendingSound
<1>18. QED
  BY <1>10, <1>13, <1>14, <1>15, <1>16, <1>17, SendOrders DEF IInv, Fits

-----------------------------------------------------------------------------
(* An event is delivered *)

\* What the cache makes of the event.
Delivered(s, kind) ==
  /\ events # <<>> /\ Head(events) = <<s, kind>> /\ events' = Tail(events)
  /\ UNCHANGED <<untraded, net, client>>
  /\ pos' = IF kind = "Filled" THEN pos + Sign(orders[s].lots) ELSE pos
  /\ unshown' = [unshown EXCEPT ![s] = IF kind = "Filled" THEN @ - 1 ELSE 0]
  /\ unshown'[s] = 0 => /\ where' = [where EXCEPT ![s] = "closed"]
                        /\ orders' = [orders EXCEPT ![s] = NoOrder]
  /\ unshown'[s] # 0 => UNCHANGED <<where, orders>>

\* An event that is delivered was the first.
LEMMA DeliveryEvents ==
  ASSUME IInv, NEW s \in Slots, NEW kind, Delivered(s, kind)
  PROVE  /\ Len(events) \in Nat /\ Len(events) >= 1 /\ Len(events') = Len(events) - 1
         /\ events' \in Seq(Events) /\ events[1] = <<s, kind>>
         /\ \A i \in 1..Len(events') : i + 1 \in 1..Len(events) /\ events'[i] = events[i + 1]
         /\ \A i \in 1..Len(events) : events[i][1] \in Slots
         /\ where[s] \in {"working", "over"}
<1>1. events \in Seq(Events) /\ events # <<>> /\ events' = Tail(events)
      /\ Head(events) = <<s, kind>> /\ QuietOrders
  BY DEF IInv, TypeOK, OrdersFit, Delivered, Events
<1>2. Len(events) \in Nat /\ Len(events) >= 1
  BY <1>1
<1>3. Len(events') = Len(events) - 1 /\ events' \in Seq(Events)
  BY <1>1
<1>4. \A i \in 1..Len(events') : i + 1 \in 1..Len(events) /\ events'[i] = events[i + 1]
  BY <1>1, <1>2, <1>3
<1>5. events[1] = <<s, kind>> /\ 1 \in 1..Len(events)
  BY <1>1, <1>2
<1>6. \A i \in 1..Len(events) : events[i] \in Events
  BY <1>1
<1>7. \A i \in 1..Len(events) : events[i][1] \in Slots
  BY <1>6 DEF Events
<1>8. where[s] \in {"working", "over"}
  BY <1>1, <1>5 DEF QuietOrders
<1>9. QED BY <1>2, <1>3, <1>4, <1>5, <1>7, <1>8

\* A delivery settles its own slot alone.
LEMMA DeliveryOrders ==
  ASSUME IInv, NEW s \in Slots, NEW kind, Delivered(s, kind)
  PROVE  /\ OrdersFit' /\ pos' \in (-Lots)..Lots
         /\ unshown' \in [Slots -> 0..(2 * Lots)] /\ unshown[s] > 0
         /\ where' \in [Slots -> Places] /\ orders' \in [Slots -> OrderSpecs]
         /\ unshown'[s] = IF kind = "Filled" THEN unshown[s] - 1 ELSE 0
         /\ where'[s] = (IF unshown'[s] = 0 THEN "closed" ELSE where[s])
         /\ unshown'[s] # 0 => orders'[s] = orders[s]
         /\ \A r \in Slots : r # s => /\ where'[r] = where[r] /\ orders'[r] = orders[r]
                                      /\ unshown'[r] = unshown[r]
<1> DEFINE k == Len(events)
<1>1. /\ k \in Nat /\ k >= 1 /\ Len(events') = k - 1
      /\ events' \in Seq(Events) /\ events[1] = <<s, kind>>
      /\ \A i \in 1..(k - 1) : i + 1 \in 1..k /\ events'[i] = events[i + 1]
      /\ \A i \in 1..k : events[i][1] \in Slots
      /\ where[s] \in {"working", "over"}
  BY DeliveryEvents
<1>2. OrdersSound /\ OneUnresolved /\ FutureEndsAsKite /\ QuietOrders /\ TypeOK
  BY DEF IInv, OrdersFit
<1>3. /\ orders \in [Slots -> OrderSpecs] /\ unshown \in [Slots -> 0..(2 * Lots)]
      /\ untraded \in [Slots -> 0..(2 * Lots)] /\ where \in [Slots -> Places]
      /\ pos \in (-Lots)..Lots
  BY <1>2 DEF TypeOK
<1>4. PICK c \in [0..k -> Cache] : IsFuture(c) /\ EndsAsKite(c[k])
  BY <1>2 DEF FutureEndsAsKite
<1>5. /\ c[0] = [pos |-> pos, unshown |-> unshown]
      /\ \A i \in 1..k : c[i - 1].unshown[events[i][1]] > 0 /\ c[i] = Shown(c[i - 1], events[i])
      /\ \A i, j \in 0..k : i <= j => \A r \in Slots : c[j].unshown[r] <= c[i].unshown[r]
  BY <1>4 DEF IsFuture
<1>6. c[0].unshown = unshown /\ c[0].pos = pos /\ c[0].unshown[s] > 0 /\ c[1] = Shown(c[0], events[1])
  <2>1. c[0].unshown = unshown /\ c[0].pos = pos
    BY <1>5
  <2>2. 1 \in 1..k /\ 1 - 1 = 0
    BY <1>1
  <2>3. c[0].unshown[events[1][1]] > 0 /\ c[1] = Shown(c[0], events[1])
    BY <1>5, <2>2
  <2>4. QED BY <1>1, <2>1, <2>3
<1>7. c[1] = [pos |-> pos', unshown |-> unshown']
  BY <1>1, <1>6 DEF Shown, Delivered
<1>8. c[1] \in Cache /\ c[1].pos = pos' /\ c[1].unshown = unshown'
  <2>1. 1 \in 0..k
    BY <1>1
  <2>2. c[1] \in Cache
    BY <1>4, <2>1
  <2>3. QED BY <1>7, <2>2
<1>9. pos' \in (-Lots)..Lots /\ unshown' \in [Slots -> 0..(2 * Lots)]
  BY <1>8 DEF Cache
<1>10. /\ unshown[s] > 0 /\ unshown'[s] = IF kind = "Filled" THEN unshown[s] - 1 ELSE 0
       /\ \A r \in Slots : r # s => unshown'[r] = unshown[r]
  BY <1>3, <1>6 DEF Delivered
<1>11. /\ where' \in [Slots -> Places] /\ orders' \in [Slots -> OrderSpecs]
       /\ where'[s] = (IF unshown'[s] = 0 THEN "closed" ELSE where[s])
       /\ unshown'[s] # 0 => orders'[s] = orders[s]
       /\ \A r \in Slots : r # s => where'[r] = where[r] /\ orders'[r] = orders[r]
  <2>1. CASE unshown'[s] = 0
    <3>1. where' = [where EXCEPT ![s] = "closed"] /\ orders' = [orders EXCEPT ![s] = NoOrder]
      BY <2>1 DEF Delivered
    <3>2. "closed" \in Places /\ NoOrder \in OrderSpecs
      BY Values DEF Places
    <3>3. where' \in [Slots -> Places] /\ orders' \in [Slots -> OrderSpecs]
      BY <1>3, <3>1, <3>2
    <3>4. QED BY <1>3, <2>1, <3>1, <3>3
  <2>2. CASE unshown'[s] # 0
    BY <1>3, <2>2 DEF Delivered
  <2>3. QED BY <2>1, <2>2
<1>12. untraded' = untraded /\ net' = net /\ client' = client
  BY DEF Delivered
<1>13. \A r \in Slots : untraded[r] <= unshown'[r]
  <2>1. SUFFICES ASSUME NEW r \in Slots PROVE untraded[r] <= unshown'[r]
    OBVIOUS
  <2>2. 1 \in 0..k /\ k \in 0..k /\ 1 <= k
    BY <1>1
  <2>3. c[k].unshown[r] <= c[1].unshown[r]
    BY <1>5, <2>2
  <2>4. untraded[r] <= c[k].unshown[r]
    BY <1>4 DEF EndsAsKite
  <2>5. c[k] \in Cache
    BY <1>4, <2>2
  <2>6. c[k].unshown[r] \in Nat
    BY <2>5 DEF Cache
  <2>7. QED BY <1>3, <1>8, <1>9, <2>3, <2>4, <2>6
\* No event of a closed order follows.
<1>14. ASSUME NEW i \in 1..(k - 1), unshown'[s] = 0
       PROVE  events[i + 1][1] # s
  <2>1. 1 \in 0..k /\ i \in 0..k /\ 1 <= i /\ i + 1 \in 1..k /\ (i + 1) - 1 = i
    BY <1>1
  <2>2. c[i].unshown[s] <= c[1].unshown[s]
    BY <1>5, <2>1
  <2>3. c[i].unshown[events[i + 1][1]] > 0
    BY <1>5, <2>1
  <2>4. c[i] \in Cache
    BY <1>4, <2>1
  <2>5. c[i].unshown[s] \in Nat
    BY <2>4 DEF Cache
  <2>6. QED BY <1>8, <1>14, <2>2, <2>3, <2>5
<1>15. OrdersSound'
  <2> SUFFICES ASSUME NEW r \in Slots
               PROVE  (/\ Open(r) => Sound(orders[r]) /\ unshown[r] \in 1..Abs(orders[r].lots)
                       /\ ~Open(r) => unshown[r] = 0
                       /\ untraded[r] <= unshown[r]
                       /\ where[r] \in {"over", "closed"} => untraded[r] = 0
                       /\ where[r] \in {"queued", "lost", "dead"} =>
                            unshown[r] = Abs(orders[r].lots) /\ untraded[r] = unshown[r]
                       /\ where[r] = "working" => untraded[r] >= 1)'
    BY DEF OrdersSound
  <2>1. CASE r # s
    BY <1>2, <1>10, <1>11, <1>12, <2>1 DEF OrdersSound, Open
  <2>2. CASE r = s /\ unshown'[s] = 0
    BY <1>3, <1>11, <1>12, <1>13, <2>2 DEF Open
  <2>3. CASE r = s /\ unshown'[s] # 0
    <3>1. Open(s) /\ where'[s] = where[s] /\ orders'[s] = orders[s]
      BY <1>1, <1>11, <2>3 DEF Open
    <3>2. unshown'[s] \in 1..Abs(orders[s].lots)
      <4>1. unshown[s] \in 1..Abs(orders[s].lots)
        BY <1>2, <3>1 DEF OrdersSound
      <4>2. Abs(orders[s].lots) \in Int
        BY <1>3 DEF OrderSpecs, Abs
      <4>3. QED BY <1>10, <2>3, <4>1, <4>2
    <3>3. QED BY <1>1, <1>2, <1>12, <1>13, <2>3, <3>1, <3>2 DEF OrdersSound, Open
  <2>4. QED BY <2>1, <2>2, <2>3
<1>16. OneUnresolved'
  <2>1. \A r \in Slots : Unresolved(r)' => Unresolved(r) /\ orders'[r] = orders[r]
    BY <1>11 DEF Unresolved
  <2>2. QED BY <1>2, <1>12, <2>1 DEF OneUnresolved
<1>17. FutureEndsAsKite'
  <2>1. PICK d : d = [i \in 0..(k - 1) |-> c[i + 1]]
    OBVIOUS
  <2>2. \A i \in 0..(k - 1) : i + 1 \in 0..k /\ d[i] = c[i + 1]
    BY <1>1, <2>1
  <2>3. d \in [0..Len(events') -> Cache]
    BY <1>1, <1>4, <2>1, <2>2
  <2>4. d[0] = [pos |-> pos', unshown |-> unshown']
    <3>1. 0 \in 0..(k - 1) /\ 0 + 1 = 1
      BY <1>1
    <3>2. QED BY <1>7, <2>2, <3>1
  <2>5. ASSUME NEW i \in 1..Len(events')
        PROVE  d[i - 1].unshown[events'[i][1]] > 0 /\ d[i] = Shown(d[i - 1], events[i])'
    <3>1. /\ i \in 1..(k - 1) /\ i - 1 \in 0..(k - 1) /\ i \in 0..(k - 1)
          /\ (i - 1) + 1 = i /\ i + 1 \in 1..k /\ (i + 1) - 1 = i
          /\ events'[i] = events[i + 1]
      BY <1>1
    <3>2. d[i - 1] = c[i] /\ d[i] = c[i + 1]
      BY <2>2, <3>1
    <3>3. c[i].unshown[events[i + 1][1]] > 0 /\ c[i + 1] = Shown(c[i], events[i + 1])
      BY <1>5, <3>1
    <3>4. PICK e, a, b : e = events[i + 1] /\ a = c[i] /\ b = c[i + 1]
      OBVIOUS
    <3>5. e[1] \in Slots /\ orders'[e[1]] = orders[e[1]]
      BY <1>1, <1>11, <1>14, <3>1, <3>4
    <3>6. b = Shown(a, e)
      BY <3>3, <3>4
    <3>7. b = Shown(a, e)'
      BY <3>5, <3>6 DEF Shown
    <3>8. QED BY <3>1, <3>2, <3>3, <3>4, <3>7
  <2>6. \A i, j \in 0..Len(events') : i <= j =>
          \A r \in Slots : d[j].unshown[r] <= d[i].unshown[r]
    <3>1. SUFFICES ASSUME NEW i \in 0..(k - 1), NEW j \in 0..(k - 1), i <= j, NEW r \in Slots
                   PROVE  d[j].unshown[r] <= d[i].unshown[r]
      BY <1>1
    <3>2. i + 1 \in 0..k /\ j + 1 \in 0..k /\ i + 1 <= j + 1
      BY <1>1, <3>1
    <3>3. QED BY <1>5, <2>2, <3>2
  <2>7. IsFuture(d)'
    BY <2>4, <2>5, <2>6 DEF IsFuture
  <2>8. EndsAsKite(d[Len(events)])'
    <3>1. d[Len(events')] = c[k]
      <4>1. k - 1 \in 0..(k - 1) /\ (k - 1) + 1 = k
        BY <1>1
      <4>2. QED BY <1>1, <2>2, <4>1
    <3>2. QED BY <1>4, <1>12, <3>1 DEF EndsAsKite
  <2>9. QED BY <2>3, <2>7, <2>8 DEF FutureEndsAsKite
<1>18. QuietOrders'
  <2>1. SUFFICES ASSUME NEW i \in 1..Len(events')
                 PROVE  where'[events'[i][1]] \in {"working", "over"}
    BY DEF QuietOrders
  <2>2. i \in 1..(k - 1) /\ i + 1 \in 1..k /\ events'[i] = events[i + 1]
    BY <1>1
  <2>3. where[events[i + 1][1]] \in {"working", "over"} /\ events[i + 1][1] \in Slots
    BY <1>1, <1>2, <2>2 DEF QuietOrders
  <2>4. QED BY <1>11, <1>14, <2>2, <2>3
<1>19. QED
  BY <1>9, <1>10, <1>11, <1>15, <1>16, <1>17, <1>18 DEF OrdersFit

\* What the handler makes of the strategy before it compares: an order that ended
\* is forgotten; the target stays, or nothing is wanted any more.
Answers(s, kind, m) ==
  /\ m \in Strategies /\ m.sending = NoOrder /\ m.trade = st.trade
  /\ m.flat = st.flat /\ m.timedOut = st.timedOut
  /\ m.inFlight = st.inFlight \/ (st.inFlight = s /\ kind # "Filled")
  /\ st.halted => m.halted
  /\ m.target = 0 \/ (m.target = st.target /\ (kind = "Filled" \/ orders[s].reduce))

\* What a reducing order left undone is not less than what is wanted.
LEMMA CancelledExitHolds ==
  ASSUME NEW m \in Strategies, NEW o, Sound(o), o.reduce, NEW u \in 1..Abs(o.lots),
         NEW p, p = o.seen + o.lots - Sign(o.lots) * u, Holds(m, o.seen + o.lots)
  PROVE  Holds(m, p)
<1>1. /\ o.lots \in Int /\ o.seen \in Int /\ m.target \in Int /\ o.lots # 0
      /\ Sign(o.seen + o.lots) \in {0, Sign(o.seen)}
      /\ Abs(o.seen + o.lots) <= Abs(o.seen)
  BY DEF Sound, OrderSpecs, Strategies
<1>2. CASE m.target = 0
  BY <1>2 DEF Holds
<1>3. CASE o.seen + o.lots > 0
  BY <1>1, <1>3 DEF Holds, Sign, Abs
<1>4. CASE o.seen + o.lots < 0
  BY <1>1, <1>4 DEF Holds, Sign, Abs
<1>5. CASE o.seen + o.lots = 0 /\ m.target # 0
  BY <1>1, <1>5 DEF Holds, Sign
<1>6. QED BY <1>1, <1>2, <1>3, <1>4, <1>5

\* A strategy that answers an event fits the slots as the event leaves them.
LEMMA EventFits ==
  ASSUME IInv, NEW s \in Slots, NEW kind, Delivered(s, kind),
         squared' = squared, stopping' = stopping,
         NEW m, Answers(s, kind, m), NEW e, e = entered
  PROVE  Fits(m, e)'
<1>1. /\ OrdersFit' /\ unshown[s] > 0
      /\ unshown'[s] = IF kind = "Filled" THEN unshown[s] - 1 ELSE 0
      /\ where'[s] = (IF unshown'[s] = 0 THEN "closed" ELSE where[s])
      /\ unshown'[s] # 0 => orders'[s] = orders[s]
      /\ \A r \in Slots : r # s => /\ where'[r] = where[r] /\ orders'[r] = orders[r]
                                   /\ unshown'[r] = unshown[r]
  BY DeliveryOrders
<1>2. /\ OrdersSound /\ OpenIsRemembered(st) /\ FlatIsClosed(st) /\ OneInFlight(st)
      /\ SquaredWantsNone(st) /\ EnteredHolds(st, e) /\ st \in Strategies
      /\ orders \in [Slots -> OrderSpecs] /\ unshown \in [Slots -> 0..(2 * Lots)]
      /\ pos \in (-Lots)..Lots
  BY DEF IInv, OrdersFit, Fits, TypeOK
<1>3. /\ pos' = IF kind = "Filled" THEN pos + Sign(orders[s].lots) ELSE pos
  BY DEF Delivered
<1>4. Open(s) /\ Sound(orders[s]) /\ unshown[s] \in 1..Abs(orders[s].lots)
  BY <1>1, <1>2 DEF OrdersSound
<1>5. \A r \in Slots : Open(r)' => Open(r) /\ orders'[r] = orders[r]
  BY <1>1 DEF Open
<1>6. kind # "Filled" => ~Open(s)'
  BY <1>1 DEF Open
<1>7. OpenIsRemembered(m)'
  BY <1>2, <1>5, <1>6 DEF OpenIsRemembered, Answers
<1>8. FlatIsClosed(m)'
  BY <1>2, <1>4 DEF FlatIsClosed, Answers
\* Until it halts there was one order, and no other is open now.
<1>9. ASSUME ~m.halted, NEW r \in Slots, Open(r)
      PROVE  r = s
  BY <1>2, <1>4, <1>9 DEF OneInFlight, OpenIsRemembered, Answers
<1>10. ~m.halted => pos = orders[s].seen + orders[s].lots - Sign(orders[s].lots) * unshown[s]
  BY <1>2, <1>4 DEF OneInFlight, Answers
<1>11. ~m.halted /\ kind = "Filled" =>
         pos' = orders[s].seen + orders[s].lots - Sign(orders[s].lots) * unshown'[s]
  <2>1. orders[s].seen \in Int /\ orders[s].lots \in Int /\ unshown[s] \in Int
    BY <1>2 DEF OrderSpecs
  <2>2. QED BY <1>1, <1>3, <1>10, <2>1 DEF Sign
<1>12. OneInFlight(m)'
  <2>1. SUFFICES ASSUME ~m.halted
                 PROVE  /\ m.timedOut = {}
                        /\ \A r \in Slots : Open(r)' =>
                             pos' = orders'[r].seen + orders'[r].lots
                                      - Sign(orders'[r].lots) * unshown'[r]
    BY DEF OneInFlight
  <2>2. m.timedOut = {}
    BY <1>2, <2>1 DEF OneInFlight, Answers
  <2>3. \A r \in Slots : Open(r)' => r = s /\ kind = "Filled" /\ orders'[r] = orders[r]
    BY <1>5, <1>6, <1>9, <2>1
  <2>4. QED BY <1>11, <2>1, <2>2, <2>3
<1>13. SquaredWantsNone(m)'
  BY <1>2 DEF SquaredWantsNone, Answers
<1>14. EnteredHolds(m, e)'
  <2>1. e <= m.trade /\ m.sending = NoOrder /\ m \in Strategies
    BY <1>2 DEF EnteredHolds, Answers
  <2>2. SUFFICES ASSUME ~m.halted, ~stopping, e = m.trade
                 PROVE  /\ \A r \in Slots : Open(r)' => Holds(m, orders'[r].seen + orders'[r].lots)
                        /\ (\A r \in Slots : ~Open(r)') => Holds(m, pos')
    BY <2>1 DEF EnteredHolds
  <2>3. CASE m.target = 0
    BY <2>3 DEF Holds
  <2>4. CASE m.target # 0
    <3>1. m.target = st.target /\ ~st.halted /\ e = st.trade
          /\ (kind = "Filled" \/ orders[s].reduce)
      BY <2>2, <2>4 DEF Answers
    <3>2. Holds(st, orders[s].seen + orders[s].lots)
      BY <1>2, <1>4, <2>2, <3>1 DEF EnteredHolds
    <3>3. Holds(m, orders[s].seen + orders[s].lots)
      BY <3>1, <3>2 DEF Holds
    <3>4. \A r \in Slots : Open(r)' => Holds(m, orders'[r].seen + orders'[r].lots)
      BY <1>5, <1>9, <2>2, <3>3
    <3>5. CASE kind = "Filled"
      <4>1. ~Open(s)' => unshown'[s] = 0
        BY <1>1, <1>4, <3>5 DEF Open
      <4>2. unshown'[s] = 0 => pos' = orders[s].seen + orders[s].lots
        <5>1. orders[s].seen \in Int /\ orders[s].lots \in Int
          BY <1>2 DEF OrderSpecs
        <5>2. QED BY <1>11, <2>2, <3>5, <5>1 DEF Sign
      <4>3. QED BY <3>3, <3>4, <4>1, <4>2
    <3>6. CASE kind # "Filled"
      <4>1. orders[s].reduce /\ pos' = pos
        BY <1>3, <3>1, <3>6
      <4>2. Holds(m, pos)
        BY <1>4, <1>10, <2>1, <2>2, <3>3, <4>1, CancelledExitHolds
      <4>3. QED BY <3>4, <4>1, <4>2
    <3>7. QED BY <3>5, <3>6
  <2>5. QED BY <2>3, <2>4
<1>15. QED BY <1>7, <1>8, <1>12, <1>13, <1>14 DEF Fits

\* The end of a handler of an event.
LEMMA EventHandler ==
  ASSUME IInv, NEW s \in Slots, NEW kind, Delivered(s, kind),
         squared' = squared, UNCHANGED controlVars, NEW m, Answers(s, kind, m),
         NEW n, Reconciles(m, pos', where', n), st' = Settled(n),
         entered' = IF n.sending # NoOrder /\ ~n.sending.reduce THEN n.trade ELSE entered
  PROVE  IInv' /\ OpensInTime(entered)
<1>1. stopping' = stopping /\ watcher' = watcher
  BY DEF controlVars
<1>2. PICK e : e = entered
  OBVIOUS
<1>3. e \in 0..MaxTrades /\ m \in Strategies /\ m.sending = NoOrder
  BY <1>2 DEF IInv, TypeOK, Answers
<1>4. Fits(m, e)'
  BY <1>1, <1>2, EventFits
<1>5. /\ st' \in Strategies /\ entered' \in 0..MaxTrades
      /\ Fits(st, entered)' /\ SendingSound' /\ OpensInTime(e)
  BY <1>1, <1>2, <1>3, <1>4, HandlerEnds
<1>6. /\ OrdersFit' /\ pos' \in (-Lots)..Lots
      /\ unshown' \in [Slots -> 0..(2 * Lots)]
      /\ where' \in [Slots -> Places] /\ orders' \in [Slots -> OrderSpecs]
  BY DeliveryOrders
<1>7. events' \in Seq(Events)
  BY DeliveryEvents
<1>8. UNCHANGED <<untraded, net, client>>
  BY DEF Delivered
<1>9. TypeOK'
  BY <1>1, <1>5, <1>6, <1>7, <1>8 DEF IInv, TypeOK, Events
<1>10. QED BY <1>2, <1>5, <1>6, <1>9 DEF IInv

\* A fill keeps the invariant and opens in time only.
LEMMA OnFilledStep ==
  ASSUME IInv, NEW s \in Slots, OnFilled(s)
  PROVE  IInv' /\ OpensInTime(entered)
<1>1. /\ st \in Strategies /\ st.sending = NoOrder /\ stopping \in BOOLEAN
      /\ unshown \in [Slots -> 0..(2 * Lots)]
  BY DEF IInv, TypeOK, OnFilled, Delivers, Ready
<1>2. /\ events # <<>> /\ Head(events) = <<s, "Filled">> /\ events' = Tail(events)
      /\ UNCHANGED <<untraded, net, client>> /\ squared' = squared
      /\ UNCHANGED controlVars /\ pos' = pos + Sign(orders[s].lots)
  BY DEF OnFilled, Delivers
<1>3. Delivered(s, "Filled")
  <2>1. CASE unshown[s] = 1
    BY <1>1, <1>2, <2>1 DEF OnFilled, Closes, Delivered
  <2>2. CASE unshown[s] # 1
    <3>1. unshown' = [unshown EXCEPT ![s] = @ - 1] /\ UNCHANGED <<where, orders>>
      BY <2>2 DEF OnFilled
    <3>2. unshown'[s] # 0
      BY <1>1, <2>2, <3>1
    <3>3. QED BY <1>2, <3>1, <3>2 DEF Delivered
  <2>3. QED BY <2>1, <2>2
<1>4. PICK m : m = [st EXCEPT !.exitCancels = 0]
  OBVIOUS
<1>5. m \in Strategies
  BY <1>1, <1>4, Values, FieldSet, Zenon
<1>6. m.sending = NoOrder /\ m.trade = st.trade /\ m.flat = st.flat /\ m.timedOut = st.timedOut
      /\ m.inFlight = st.inFlight /\ m.halted = st.halted /\ m.target = st.target
  BY <1>1, <1>4 DEF Strategies
<1>7. Answers(s, "Filled", m)
  BY <1>5, <1>6 DEF Answers
<1>8. PICK late \in Lateness(where'), rested \in Restedness :
        Becomes(Reconciled(m, pos', where', late, rested))
  BY <1>4 DEF OnFilled
<1>9. late \in BOOLEAN /\ rested \in BOOLEAN
  BY DEF Lateness, Restedness
<1>10. PICK n : n = Reconciled(m, pos', where', late, rested)
  OBVIOUS
<1>11. pos' \in (-Lots)..Lots
  BY <1>3, DeliveryOrders
<1>12. Reconciles(m, pos', where', n)
  BY <1>1, <1>5, <1>6, <1>9, <1>10, <1>11, ReconciledReconciles
<1>13. st' = Settled(n)
       /\ entered' = IF n.sending # NoOrder /\ ~n.sending.reduce THEN n.trade ELSE entered
  BY <1>8, <1>10 DEF Becomes
<1>14. QED BY <1>2, <1>3, <1>7, <1>12, <1>13, EventHandler

\* The broker's answers that close an order.
LEMMA ForgottenStrategy ==
  ASSUME NEW m \in Strategies, NEW s
  PROVE  /\ Forgotten(m, s) \in Strategies
         /\ Forgotten(m, s).inFlight = IF m.inFlight = s THEN None ELSE m.inFlight
         /\ Forgotten(m, s).target = m.target /\ Forgotten(m, s).trade = m.trade
         /\ Forgotten(m, s).halted = m.halted /\ Forgotten(m, s).timedOut = m.timedOut
         /\ Forgotten(m, s).flat = m.flat /\ Forgotten(m, s).sending = m.sending
<1> DEFINE l == [m EXCEPT !.inFlight = None]
<1>1. l \in Strategies
  BY FieldSet, Values, Zenon
<1>2. l.inFlight = None /\ l.timedOut = m.timedOut /\ l.flat = m.flat /\ l.target = m.target
      /\ l.trade = m.trade /\ l.halted = m.halted /\ l.sending = m.sending
  BY DEF Strategies
<1>3. Forgotten(m, s) = IF m.inFlight = s THEN l ELSE m
  BY DEF Forgotten, Landed
<1> HIDE DEF l
<1>4. QED BY <1>1, <1>2, <1>3

\* A strategy that is told of an end without a fill answers it.
LEMMA ClosedAnswers ==
  ASSUME NEW s \in Slots, NEW kind, kind # "Filled", st \in Strategies, st.sending = NoOrder,
         orders \in [Slots -> OrderSpecs]
  PROVE  /\ Answers(s, kind, ClosedByBroker(st, s))
         /\ Answers(s, kind, Halted(Forgotten(st, s)))
<1>1. PICK n : n = Forgotten(st, s)
  OBVIOUS
<1>2. /\ n \in Strategies
      /\ n.inFlight = IF st.inFlight = s THEN None ELSE st.inFlight
      /\ n.target = st.target /\ n.trade = st.trade /\ n.halted = st.halted
      /\ n.timedOut = st.timedOut /\ n.flat = st.flat /\ n.sending = NoOrder
  BY <1>1, ForgottenStrategy
<1>3. Answers(s, kind, Halted(n))
  BY <1>2, HaltedStrategy DEF Answers
<1>4. orders[s].reduce \in BOOLEAN
  BY DEF OrderSpecs
<1>5. Answers(s, kind, ClosedByBroker(st, s))
  <2>1. CASE orders[s].reduce /\ n.exitCancels < MaxExitCancels
    <3> DEFINE k == [n EXCEPT !.exitCancels = n.exitCancels + 1]
    <3>1. ClosedByBroker(st, s) = k
      BY <1>1, <1>2, <2>1 DEF ClosedByBroker, Strategies
    <3>2. n.exitCancels + 1 \in 0..MaxExitCancels
      BY <1>2, <2>1 DEF Strategies
    <3>3. k \in Strategies
      BY <1>2, <3>2, FieldSet, Zenon
    <3>4. k.inFlight = n.inFlight /\ k.target = n.target /\ k.trade = n.trade
          /\ k.halted = n.halted /\ k.timedOut = n.timedOut /\ k.flat = n.flat
          /\ k.sending = n.sending
      BY <1>2 DEF Strategies
    <3> HIDE DEF k
    <3>5. QED BY <1>2, <2>1, <3>1, <3>3, <3>4 DEF Answers
  <2>2. CASE orders[s].reduce /\ n.exitCancels >= MaxExitCancels
    <3>1. ~(n.exitCancels < MaxExitCancels)
      BY <1>2, <2>2 DEF Strategies
    <3>2. ClosedByBroker(st, s) = Halted(n)
      BY <1>1, <2>2, <3>1 DEF ClosedByBroker
    <3>3. QED BY <1>3, <3>2
  <2>3. CASE ~orders[s].reduce
    <3> DEFINE a == [n EXCEPT !.target = 0]
               k == [a EXCEPT !.ours = FALSE]
    <3>1. ClosedByBroker(st, s) = k
      BY <1>1, <2>3 DEF ClosedByBroker
    <3>2. a \in Strategies
      BY <1>2, Values, FieldSet, Zenon
    <3>3. k \in Strategies
      BY <3>2, Values, FieldSet, Zenon
    <3>4. k.inFlight = n.inFlight /\ k.target = 0 /\ k.trade = n.trade
          /\ k.halted = n.halted /\ k.timedOut = n.timedOut /\ k.flat = n.flat
          /\ k.sending = n.sending
      BY <1>2 DEF Strategies
    <3> HIDE DEF k
    <3>5. QED BY <1>2, <3>1, <3>3, <3>4 DEF Answers
  <2>4. n.exitCancels < MaxExitCancels \/ n.exitCancels >= MaxExitCancels
    BY <1>2 DEF Strategies
  <2>5. QED BY <1>4, <2>1, <2>2, <2>3, <2>4
<1>6. QED BY <1>1, <1>3, <1>5

\* An answer that closes its order, and the strategy it leaves.
LEMMA ClosingStep ==
  ASSUME IInv, NEW s \in Slots, NEW kind, kind # "Filled", Delivers(s, kind), Closes(s),
         NEW m, Answers(s, kind, m), Becomes(m), pos' = pos
  PROVE  IInv' /\ OpensInTime(entered)
<1>1. /\ events # <<>> /\ Head(events) = <<s, kind>> /\ events' = Tail(events)
      /\ UNCHANGED <<untraded, net, client>> /\ squared' = squared
      /\ UNCHANGED controlVars
  BY DEF Delivers
<1>2. unshown \in [Slots -> 0..(2 * Lots)]
  BY DEF IInv, TypeOK
<1>3. Delivered(s, kind)
  BY <1>1, <1>2 DEF Closes, Delivered
<1>4. m \in Strategies /\ m.sending = NoOrder
  BY DEF Answers
<1>5. Reconciles(m, pos', where', m)
  BY <1>4, ReconcilesItself
<1>6. st' = Settled(m)
      /\ entered' = IF m.sending # NoOrder /\ ~m.sending.reduce THEN m.trade ELSE entered
  BY DEF Becomes
<1>7. QED BY <1>1, <1>3, <1>5, <1>6, EventHandler

\* So does the end of an order without a fill.
LEMMA OnClosedStep ==
  ASSUME IInv, NEW s \in Slots, OnCanceled(s) \/ OnRefused(s)
  PROVE  IInv' /\ OpensInTime(entered)
<1>1. /\ st \in Strategies /\ st.sending = NoOrder /\ orders \in [Slots -> OrderSpecs]
  BY DEF IInv, TypeOK, OnCanceled, OnRefused, Delivers, Ready
<1>2. CASE OnCanceled(s)
  <2>1. PICK m : m = ClosedByBroker(st, s)
    OBVIOUS
  <2>2. Delivers(s, "Canceled") /\ Closes(s) /\ Becomes(m) /\ pos' = pos
    BY <1>2, <2>1 DEF OnCanceled
  <2>3. Answers(s, "Canceled", m)
    BY <1>1, <2>1, ClosedAnswers
  <2>4. QED BY <2>2, <2>3, ClosingStep
<1>3. CASE OnRefused(s)
  <2>1. PICK m : m = Halted(Forgotten(st, s))
    OBVIOUS
  <2>2. PICK kind \in {"Rejected", "Denied"} : Delivers(s, kind)
    BY <1>3 DEF OnRefused
  <2>3. Closes(s) /\ Becomes(m) /\ pos' = pos
    BY <1>3, <2>1 DEF OnRefused
  <2>4. Answers(s, kind, m)
    BY <1>1, <2>1, ClosedAnswers
  <2>5. QED BY <2>2, <2>3, <2>4, ClosingStep
<1>4. QED BY <1>2, <1>3

-----------------------------------------------------------------------------
(* The client and Kite *)

\* The strategy still fits when no order opens or closes.
LEMMA StrategyStays ==
  ASSUME IInv, UNCHANGED <<st, squared, pos, entered, orders, unshown>>,
         stopping' = stopping \/ stopping' = TRUE,
         \A s \in Slots : Open(s)' <=> Open(s)
  PROVE  Fits(st, entered)' /\ SendingSound'
<1>1. OpenIsRemembered(st)' /\ FlatIsClosed(st)' /\ OneInFlight(st)' /\ SquaredWantsNone(st)'
  BY DEF IInv, Fits, OpenIsRemembered, FlatIsClosed, OneInFlight, SquaredWantsNone
<1>2. EnteredHolds(st, entered)'
  BY DEF IInv, Fits, EnteredHolds, Holds
<1>3. SendingSound'
  BY DEF IInv, SendingSound
<1>4. QED BY <1>1, <1>2, <1>3 DEF Fits

\* The future stays, and so does its end unless the client goes down.
LEMMA FutureStays ==
  ASSUME FutureEndsAsKite, UNCHANGED <<pos, orders, unshown, untraded, events, net>>,
         client' = "up" => client = "up"
  PROVE  FutureEndsAsKite'
<1>1. PICK c \in [0..Len(events) -> Cache] : IsFuture(c) /\ EndsAsKite(c[Len(events)])
  BY DEF FutureEndsAsKite
<1>2. IsFuture(c)'
  BY <1>1 DEF IsFuture, Shown
<1>3. EndsAsKite(c[Len(events)])'
  BY <1>1 DEF EndsAsKite
<1>4. QED BY <1>1, <1>2, <1>3 DEF FutureEndsAsKite

\* A future that ends with the given cache.
FutureEnds(last) ==
  \E c \in [0..Len(events) -> Cache] : IsFuture(c) /\ c[Len(events)] = last

\* One more event prolongs the future.
LEMMA FutureAppended ==
  ASSUME TypeOK, NEW before, FutureEnds(before),
         NEW s \in Slots, NEW kind \in {"Filled", "Canceled", "Rejected", "Denied"},
         events' = Append(events, <<s, kind>>), UNCHANGED <<pos, unshown, orders>>,
         before.unshown[s] > 0,
         NEW last \in Cache, last = Shown(before, <<s, kind>>)
  PROVE  FutureEnds(last)'
<1> DEFINE k == Len(events)
<1>0. PICK c \in [0..k -> Cache] : IsFuture(c) /\ c[k] = before
  BY DEF FutureEnds
<1>1. PICK e : e = <<s, kind>> /\ last = Shown(c[k], e)
  BY <1>0
<1>2. /\ k \in Nat /\ Len(events') = k + 1 /\ events'[k + 1] = e
      /\ \A i \in 1..k : events'[i] = events[i]
  <2>1. events \in Seq(Events) /\ e \in Events
    BY <1>1 DEF TypeOK, Events
  <2>2. QED BY <1>1, <2>1
<1>3. PICK d : d = [i \in 0..(k + 1) |-> IF i = k + 1 THEN last ELSE c[i]]
  OBVIOUS
<1>4. /\ d[k + 1] = last
      /\ \A i \in 0..k : i \in 0..(k + 1) /\ d[i] = c[i]
  BY <1>2, <1>3
<1>5. d \in [0..Len(events') -> Cache]
  <2>1. \A i \in 0..(k + 1) : i = k + 1 \/ i \in 0..k
    BY <1>2
  <2>2. \A i \in 0..(k + 1) : d[i] \in Cache
    BY <1>4, <2>1
  <2>3. QED BY <1>2, <1>3, <2>2
<1>6. c[k] \in Cache /\ 0 \in 0..k /\ k \in 0..k
  BY <1>2
<1>7. d[0] = [pos |-> pos', unshown |-> unshown']
  BY <1>0, <1>4, <1>6 DEF IsFuture
<1>8. ASSUME NEW i \in 1..Len(events')
      PROVE  d[i - 1].unshown[events'[i][1]] > 0 /\ d[i] = Shown(d[i - 1], events[i])'
  <2>1. CASE i = k + 1
    <3>1. d[i - 1] = c[k] /\ d[i] = last /\ events'[i] = e
      BY <1>2, <1>4, <1>6, <2>1
    <3>2. c[k].unshown[e[1]] > 0
      BY <1>0, <1>1
    <3>3. PICK a : a = c[k]
      OBVIOUS
    <3>4. last = Shown(a, e)'
      BY <1>1, <3>3 DEF Shown
    <3>5. QED BY <3>1, <3>2, <3>3, <3>4
  <2>2. CASE i # k + 1
    <3>1. i \in 1..k /\ i - 1 \in 0..k /\ i \in 0..k
      BY <1>2, <2>2
    <3>2. d[i - 1] = c[i - 1] /\ d[i] = c[i] /\ events'[i] = events[i]
      BY <1>2, <1>4, <3>1
    <3>3. c[i - 1].unshown[events[i][1]] > 0 /\ c[i] = Shown(c[i - 1], events[i])
      BY <1>0, <3>1 DEF IsFuture
    <3>4. PICK a, f : a = c[i - 1] /\ f = events[i]
      OBVIOUS
    <3>5. c[i] = Shown(a, f)'
      BY <3>3, <3>4 DEF Shown
    <3>6. QED BY <3>2, <3>3, <3>4, <3>5
  <2>3. QED BY <2>1, <2>2
<1>9. ASSUME NEW i \in 0..Len(events'), NEW j \in 0..Len(events'), i <= j, NEW r \in Slots
      PROVE  d[j].unshown[r] <= d[i].unshown[r]
  <2>1. \A x, y \in 0..k : x <= y => c[y].unshown[r] <= c[x].unshown[r]
    BY <1>0 DEF IsFuture
  <2>2. c[k].unshown \in [Slots -> 0..(2 * Lots)] /\ c[k].unshown[r] \in Nat
    BY <1>6 DEF Cache
  <2>3. last.unshown[r] <= c[k].unshown[r] /\ last.unshown[r] \in Nat
    <3>1. last.unshown = [c[k].unshown EXCEPT ![s] = IF kind = "Filled" THEN @ - 1 ELSE 0]
      BY <1>1 DEF Shown
    <3>2. last.unshown[r] = IF r = s THEN (IF kind = "Filled" THEN c[k].unshown[r] - 1 ELSE 0)
                            ELSE c[k].unshown[r]
      BY <2>2, <3>1
    <3>3. r = s => c[k].unshown[r] > 0
      BY <1>0
    <3>4. QED BY <2>2, <3>2, <3>3
  <2>4. CASE j = k + 1 /\ i = k + 1
    BY <1>4, <2>3, <2>4
  <2>5. CASE j = k + 1 /\ i # k + 1
    <3>1. i \in 0..k /\ i <= k
      BY <1>2, <2>5
    <3>2. c[i] \in Cache
      BY <3>1
    <3>3. c[i].unshown[r] \in Nat
      BY <3>2 DEF Cache
    <3>4. c[k].unshown[r] <= c[i].unshown[r]
      BY <1>6, <2>1, <3>1
    <3>5. QED BY <1>4, <2>2, <2>3, <2>5, <3>1, <3>3, <3>4
  <2>6. CASE j # k + 1
    <3>1. i \in 0..k /\ j \in 0..k
      BY <1>2, <1>9, <2>6
    <3>2. QED BY <1>4, <1>9, <2>1, <3>1
  <2>7. QED BY <2>4, <2>5, <2>6
<1>10. IsFuture(d)'
  BY <1>7, <1>8, <1>9 DEF IsFuture
<1>11. d[Len(events')] = last
  BY <1>2, <1>4
<1>12. QED BY <1>5, <1>10, <1>11 DEF FutureEnds

\* Only the state of one order changes, which had no event on its way.
LEMMA WhereMoves ==
  ASSUME IInv, NEW s \in Slots, NEW p \in {"working", "lost", "dead"},
         where[s] = "queued", where' = [where EXCEPT ![s] = p],
         UNCHANGED <<st, squared, pos, entered>>,
         UNCHANGED <<orders, unshown, untraded, events, net, stopping, watcher>>,
         client' = client \/ client' = "error",
         p # "dead" => Admissible(s)
  PROVE  IInv'
<1>1. /\ orders \in [Slots -> OrderSpecs] /\ unshown \in [Slots -> 0..(2 * Lots)]
      /\ untraded \in [Slots -> 0..(2 * Lots)] /\ where \in [Slots -> Places]
  BY DEF IInv, TypeOK
<1>2. where'[s] = p /\ \A r \in Slots : r # s => where'[r] = where[r]
  BY <1>1
<1>3. OrdersSound /\ OneUnresolved /\ FutureEndsAsKite /\ QuietOrders
  BY DEF IInv, OrdersFit
<1>4. \A r \in Slots : Open(r)' <=> Open(r)
  BY <1>2 DEF Open
<1>5. TypeOK'
  <2>1. where' \in [Slots -> Places]
    BY <1>1 DEF Places
  <2>2. client' \in {"up", "mismatch", "error", "stopped"}
    BY DEF IInv, TypeOK
  <2>3. QED BY <2>1, <2>2 DEF IInv, TypeOK
<1>6. OrdersSound'
  <2> SUFFICES ASSUME NEW r \in Slots
               PROVE  (/\ Open(r) => Sound(orders[r]) /\ unshown[r] \in 1..Abs(orders[r].lots)
                       /\ ~Open(r) => unshown[r] = 0
                       /\ untraded[r] <= unshown[r]
                       /\ where[r] \in {"over", "closed"} => untraded[r] = 0
                       /\ where[r] \in {"queued", "lost", "dead"} =>
                            unshown[r] = Abs(orders[r].lots) /\ untraded[r] = unshown[r]
                       /\ where[r] = "working" => untraded[r] >= 1)'
    BY DEF OrdersSound
  <2>1. CASE r = s
    <3>1. Open(s) /\ unshown[s] = Abs(orders[s].lots) /\ untraded[s] = unshown[s]
      BY <1>3 DEF OrdersSound, Open
    <3>2. Sound(orders[s]) /\ unshown[s] \in 1..Abs(orders[s].lots)
      BY <1>3, <3>1 DEF OrdersSound
    <3>3. unshown[s] >= 1
      BY <1>1, <3>2
    <3>4. QED BY <1>2, <1>3, <1>4, <2>1, <3>1, <3>2, <3>3
  <2>2. CASE r # s
    BY <1>2, <1>3, <2>2 DEF OrdersSound, Open
  <2>3. QED BY <2>1, <2>2
<1>7. OneUnresolved'
  <2>1. CASE p = "dead"
    BY <1>2, <1>3, <2>1 DEF OneUnresolved, Unresolved
  <2>2. CASE p # "dead"
    <3>1. \A r \in Slots : Unresolved(r)' => r = s
      BY <1>2, <2>2 DEF Unresolved, Admissible
    <3>2. untraded[s] = Abs(orders[s].lots) /\ net = orders[s].seen
          /\ orders[s].seen \in Int /\ orders[s].lots \in Int
      BY <1>1, <1>3, <2>2 DEF OrdersSound, Admissible, OrderSpecs
    <3>3. net = orders[s].seen + orders[s].lots - Sign(orders[s].lots) * untraded[s]
      BY <3>2 DEF Sign, Abs
    <3>4. QED BY <3>1, <3>3 DEF OneUnresolved
  <2>3. QED BY <2>1, <2>2
<1>8. FutureEndsAsKite'
  BY <1>3, FutureStays
<1>9. QuietOrders'
  BY <1>1, <1>3 DEF QuietOrders
<1>10. Fits(st, entered)' /\ SendingSound'
  BY <1>4, StrategyStays
<1>11. QED BY <1>5, <1>6, <1>7, <1>8, <1>9, <1>10 DEF IInv, OrdersFit

\* Nothing about the orders changes, at most the client goes down.
LEMMA ControlMoves ==
  ASSUME IInv, UNCHANGED <<st, squared, pos, entered>>,
         UNCHANGED <<orders, unshown, untraded, where, events, net>>,
         client' = client \/ client' \in {"mismatch", "error", "stopped"},
         stopping' = stopping \/ stopping' = TRUE, stopping' \in BOOLEAN,
         watcher' \in {"watching", "waiting", "sawFlat", "gaveUp"}
  PROVE  IInv'
<1>1. TypeOK'
  BY DEF IInv, TypeOK
<1>2. OrdersSound' /\ OneUnresolved' /\ QuietOrders'
  BY DEF IInv, OrdersFit, OrdersSound, OneUnresolved, QuietOrders, Open, Unresolved
<1>3. FutureEndsAsKite'
  BY FutureStays DEF IInv, OrdersFit
<1>4. \A s \in Slots : Open(s)' <=> Open(s)
  BY DEF Open
<1>5. Fits(st, entered)' /\ SendingSound'
  BY <1>4, StrategyStays
<1>6. QED BY <1>1, <1>2, <1>3, <1>5 DEF IInv, OrdersFit

\* An event about an order that works, or is just about to, is added while the
\* client is up.
LEMMA QuietAppended ==
  ASSUME IInv, NEW s \in Slots, NEW kind,
         events' = events \/ events' = Append(events, <<s, kind>>),
         where'[s] \in {"working", "over"},
         \A r \in Slots : r # s => where'[r] = where[r]
  PROVE  QuietOrders'
<1>1. events \in Seq(Events) /\ QuietOrders
  BY DEF IInv, TypeOK, OrdersFit, Events
<1>2. \A i \in 1..Len(events) : events[i] \in Events
  BY <1>1
<1>3. \A i \in 1..Len(events) : events[i][1] \in Slots
  BY <1>2 DEF Events
<1>4. \A i \in 1..Len(events) : where'[events[i][1]] \in {"working", "over"}
  BY <1>1, <1>3 DEF QuietOrders
<1>5. CASE events' = events
  BY <1>4, <1>5 DEF QuietOrders
<1>6. CASE events' = Append(events, <<s, kind>>)
  <2>1. ASSUME NEW i \in 1..Len(events')
        PROVE  where'[events'[i][1]] \in {"working", "over"}
    <3>1. Len(events) \in Nat /\ Len(events') = Len(events) + 1
          /\ events'[Len(events) + 1] = <<s, kind>>
          /\ \A j \in 1..Len(events) : events'[j] = events[j]
      BY <1>1, <1>6
    <3>2. CASE i = Len(events) + 1
      BY <3>1, <3>2
    <3>3. CASE i # Len(events) + 1
      <4>1. i \in 1..Len(events)
        BY <3>1, <3>3
      <4>2. QED BY <1>4, <3>1, <4>1
    <3>4. QED BY <3>2, <3>3
  <2>2. QED BY <2>1 DEF QuietOrders
<1>7. QED BY <1>5, <1>6

\* Kite or the client ends an order that may still have lots to trade.
LEMMA EndMoves ==
  ASSUME IInv, NEW s \in Slots, NEW kind \in {"Canceled", "Rejected", "Denied"},
         where[s] = "working" \/ (where[s] = "queued" /\ client = "up"),
         where' = [where EXCEPT ![s] = "over"],
         untraded' = [untraded EXCEPT ![s] = 0],
         events' = IF client = "up" THEN Append(events, <<s, kind>>) ELSE events,
         UNCHANGED <<st, squared, pos, entered>>,
         UNCHANGED <<orders, unshown, net, client, stopping, watcher>>
  PROVE  IInv'
<1>1. /\ orders \in [Slots -> OrderSpecs] /\ unshown \in [Slots -> 0..(2 * Lots)]
      /\ untraded \in [Slots -> 0..(2 * Lots)] /\ where \in [Slots -> Places]
      /\ events \in Seq(Events)
  BY DEF IInv, TypeOK, Events
<1>2. /\ where'[s] = "over" /\ untraded'[s] = 0
      /\ \A r \in Slots : r # s => where'[r] = where[r] /\ untraded'[r] = untraded[r]
  BY <1>1
<1>3. OrdersSound /\ OneUnresolved /\ FutureEndsAsKite /\ QuietOrders /\ TypeOK
  BY DEF IInv, OrdersFit
<1>4. \A r \in Slots : Open(r)' <=> Open(r)
  BY <1>2 DEF Open
<1>5. TypeOK'
  <2>1. where' \in [Slots -> Places] /\ untraded' \in [Slots -> 0..(2 * Lots)]
    BY <1>1 DEF Places
  <2>2. events' \in Seq(Events)
    BY <1>1 DEF Events
  <2>3. QED BY <1>3, <2>1, <2>2 DEF TypeOK, Events
<1>6. untraded[s] >= 1 /\ untraded[s] \in Nat /\ Open(s)
  <2>1. CASE where[s] = "working"
    BY <1>1, <1>3, <2>1 DEF OrdersSound, Open
  <2>2. CASE where[s] = "queued"
    <3>1. untraded[s] = unshown[s] /\ unshown[s] \in 1..Abs(orders[s].lots)
      BY <1>3, <2>2 DEF OrdersSound, Open
    <3>2. QED BY <1>1, <2>2, <3>1 DEF Open
  <2>3. QED BY <2>1, <2>2
<1>7. OrdersSound'
  <2> SUFFICES ASSUME NEW r \in Slots
               PROVE  (/\ Open(r) => Sound(orders[r]) /\ unshown[r] \in 1..Abs(orders[r].lots)
                       /\ ~Open(r) => unshown[r] = 0
                       /\ untraded[r] <= unshown[r]
                       /\ where[r] \in {"over", "closed"} => untraded[r] = 0
                       /\ where[r] \in {"queued", "lost", "dead"} =>
                            unshown[r] = Abs(orders[r].lots) /\ untraded[r] = unshown[r]
                       /\ where[r] = "working" => untraded[r] >= 1)'
    BY DEF OrdersSound
  <2>1. CASE r = s
    BY <1>1, <1>2, <1>3, <1>4, <1>6, <2>1 DEF OrdersSound
  <2>2. CASE r # s
    BY <1>2, <1>3, <2>2 DEF OrdersSound, Open
  <2>3. QED BY <2>1, <2>2
<1>8. OneUnresolved'
  BY <1>2, <1>3 DEF OneUnresolved, Unresolved
<1>9. FutureEndsAsKite'
  <2>1. PICK c \in [0..Len(events) -> Cache] : IsFuture(c) /\ EndsAsKite(c[Len(events)])
    BY <1>3 DEF FutureEndsAsKite
  <2>2. PICK last : last = c[Len(events)]
    OBVIOUS
  <2>3. last \in Cache /\ last.unshown \in [Slots -> 0..(2 * Lots)]
    <3>1. Len(events) \in Nat
      BY <1>1
    <3>2. Len(events) \in 0..Len(events)
      BY <3>1
    <3>3. QED BY <2>2, <3>2 DEF Cache
  <2>4. last.unshown[s] > 0
    BY <1>6, <2>1, <2>2, <2>3 DEF EndsAsKite
  <2>5. CASE client # "up"
    <3>1. IsFuture(c)'
      BY <2>1, <2>5 DEF IsFuture, Shown
    <3>2. EndsAsKite(last)'
      BY <1>2, <2>1, <2>2, <2>3, <2>4, <2>5 DEF EndsAsKite
    <3>3. QED BY <2>1, <2>2, <2>5, <3>1, <3>2 DEF FutureEndsAsKite
  <2>6. CASE client = "up"
    <3>1. PICK next : next = Shown(last, <<s, kind>>)
      OBVIOUS
    <3>2. next = [pos |-> last.pos, unshown |-> [last.unshown EXCEPT ![s] = 0]]
      BY <3>1 DEF Shown
    <3>3. next \in Cache
      BY <2>3, <3>2 DEF Cache
    <3>4. FutureEnds(next)'
      <4>1. FutureEnds(last)
        BY <2>1, <2>2 DEF FutureEnds
      <4>2. events' = Append(events, <<s, kind>>) /\ UNCHANGED <<pos, unshown, orders>>
        BY <2>6
      <4>3. kind \in {"Filled", "Canceled", "Rejected", "Denied"}
        OBVIOUS
      <4>4. QED BY <1>3, <2>4, <3>1, <3>3, <4>1, <4>2, <4>3, FutureAppended
    <3>5. last.pos = net /\ \A r \in Slots : last.unshown[r] = untraded[r]
      BY <2>1, <2>2, <2>6 DEF EndsAsKite
    <3>6. next.pos = net' /\ \A r \in Slots : next.unshown[r] = untraded'[r]
      BY <1>2, <2>3, <3>2, <3>5
    <3>7. \A r \in Slots : untraded'[r] \in Int
      BY <1>5 DEF TypeOK
    <3>8. EndsAsKite(next)'
      BY <3>6, <3>7 DEF EndsAsKite
    <3>9. QED BY <3>4, <3>8 DEF FutureEnds, FutureEndsAsKite
  <2>7. QED BY <2>5, <2>6
<1>10. QuietOrders'
  BY <1>2, QuietAppended
<1>11. Fits(st, entered)' /\ SendingSound'
  BY <1>4, StrategyStays
<1>12. QED BY <1>5, <1>7, <1>8, <1>9, <1>10, <1>11 DEF IInv, OrdersFit

\* A lot that trades brings the position one lot nearer to where the order leads.
LEMMA FillArithmetic ==
  ASSUME NEW seen \in (-Lots)..Lots, NEW lots \in Int, lots # 0,
         seen + lots \in (-Lots)..Lots, NEW u \in Nat, u >= 1, u <= Abs(lots),
         NEW n, n = seen + lots - Sign(lots) * u
  PROVE  /\ n + Sign(lots) \in (-Lots)..Lots
         /\ n + Sign(lots) = seen + lots - Sign(lots) * (u - 1)
<1>1. CASE lots > 0
  <2>1. Sign(lots) = 1 /\ Abs(lots) = lots
    BY <1>1 DEF Sign, Abs
  <2>2. n = seen + lots - u
    BY <2>1
  <2>3. QED BY <2>1, <2>2
<1>2. CASE lots < 0
  <2>1. Sign(lots) = -1 /\ Abs(lots) = -lots
    BY <1>2 DEF Sign, Abs
  <2>2. n = seen + lots + u
    BY <2>1
  <2>3. QED BY <2>1, <2>2
<1>3. QED BY <1>1, <1>2

\* One lot trades.
LEMMA FillsStep ==
  ASSUME IInv, NEW s \in Slots, Fills(s)
  PROVE  IInv'
<1>1. /\ orders \in [Slots -> OrderSpecs] /\ unshown \in [Slots -> 0..(2 * Lots)]
      /\ untraded \in [Slots -> 0..(2 * Lots)] /\ where \in [Slots -> Places]
      /\ events \in Seq(Events) /\ net \in (-Lots)..Lots
  BY DEF IInv, TypeOK, Events
<1>2. /\ where[s] = "working" /\ untraded' = [untraded EXCEPT ![s] = @ - 1]
      /\ net' = net + Sign(orders[s].lots)
      /\ where' = IF untraded[s] = 1 THEN [where EXCEPT ![s] = "over"] ELSE where
      /\ events' = IF client = "up" THEN Append(events, <<s, "Filled">>) ELSE events
      /\ UNCHANGED <<st, squared, pos, entered, orders, unshown, client, stopping, watcher>>
  BY DEF Fills, strategyVars, controlVars
<1>3. /\ where'[s] = (IF untraded[s] = 1 THEN "over" ELSE "working")
      /\ untraded'[s] = untraded[s] - 1
      /\ \A r \in Slots : r # s => where'[r] = where[r] /\ untraded'[r] = untraded[r]
  BY <1>1, <1>2
<1>4. OrdersSound /\ OneUnresolved /\ FutureEndsAsKite /\ QuietOrders /\ TypeOK
  BY DEF IInv, OrdersFit
<1>5. Open(s) /\ \A r \in Slots : Open(r)' <=> Open(r)
  BY <1>2, <1>3 DEF Open
<1>6. /\ untraded[s] >= 1 /\ untraded[s] \in Nat /\ untraded[s] <= unshown[s]
      /\ Sound(orders[s]) /\ unshown[s] \in 1..Abs(orders[s].lots)
  BY <1>1, <1>2, <1>4, <1>5 DEF OrdersSound
<1>7. /\ orders[s].lots \in Int /\ orders[s].seen \in (-Lots)..Lots /\ orders[s].lots # 0
      /\ orders[s].seen + orders[s].lots \in (-Lots)..Lots
      /\ untraded[s] <= Abs(orders[s].lots)
      /\ net = orders[s].seen + orders[s].lots - Sign(orders[s].lots) * untraded[s]
  <2>1. orders[s].lots \in Int /\ Abs(orders[s].lots) \in Int
    BY <1>1 DEF OrderSpecs, Abs
  <2>2. Unresolved(s)
    BY <1>2 DEF Unresolved
  <2>3. untraded[s] <= Abs(orders[s].lots)
    BY <1>6, <2>1
  <2>4. net = orders[s].seen + orders[s].lots - Sign(orders[s].lots) * untraded[s]
    BY <1>4, <2>2 DEF OneUnresolved
  <2>5. QED BY <1>6, <2>1, <2>3, <2>4 DEF Sound, OrderSpecs
<1>8. /\ net' \in (-Lots)..Lots
      /\ net' = orders[s].seen + orders[s].lots - Sign(orders[s].lots) * (untraded[s] - 1)
  <2>1. PICK o, u : o = orders[s] /\ u = untraded[s]
    OBVIOUS
  <2>2. net + Sign(o.lots) \in (-Lots)..Lots
        /\ net + Sign(o.lots) = o.seen + o.lots - Sign(o.lots) * (u - 1)
    BY <1>6, <1>7, <2>1, FillArithmetic
  <2>3. QED BY <1>2, <2>1, <2>2
<1>9. TypeOK'
  <2>1. where' \in [Slots -> Places] /\ untraded' \in [Slots -> 0..(2 * Lots)]
    BY <1>1, <1>2, <1>6 DEF Places
  <2>2. events' \in Seq(Events)
    BY <1>1, <1>2 DEF Events
  <2>3. QED BY <1>2, <1>4, <1>8, <2>1, <2>2 DEF TypeOK, Events
<1>10. OrdersSound'
  <2> SUFFICES ASSUME NEW r \in Slots
               PROVE  (/\ Open(r) => Sound(orders[r]) /\ unshown[r] \in 1..Abs(orders[r].lots)
                       /\ ~Open(r) => unshown[r] = 0
                       /\ untraded[r] <= unshown[r]
                       /\ where[r] \in {"over", "closed"} => untraded[r] = 0
                       /\ where[r] \in {"queued", "lost", "dead"} =>
                            unshown[r] = Abs(orders[r].lots) /\ untraded[r] = unshown[r]
                       /\ where[r] = "working" => untraded[r] >= 1)'
    BY DEF OrdersSound
  <2>1. CASE r = s
    <3>1. unshown[s] \in Int
      BY <1>1
    <3>2. QED BY <1>2, <1>3, <1>5, <1>6, <2>1, <3>1
  <2>2. CASE r # s
    BY <1>2, <1>3, <1>4, <2>2 DEF OrdersSound, Open
  <2>3. QED BY <2>1, <2>2
<1>11. OneUnresolved'
  <2>1. \A r \in Slots : Unresolved(r)' => Unresolved(r)
    BY <1>2, <1>3 DEF Unresolved
  <2>2. Unresolved(s)
    BY <1>2 DEF Unresolved
  <2>3. \A r \in Slots : Unresolved(r)' => r = s
    BY <1>4, <2>1, <2>2 DEF OneUnresolved
  <2>4. QED BY <1>2, <1>3, <1>8, <2>3 DEF OneUnresolved
<1>12. FutureEndsAsKite'
  <2>1. PICK c \in [0..Len(events) -> Cache] : IsFuture(c) /\ EndsAsKite(c[Len(events)])
    BY <1>4 DEF FutureEndsAsKite
  <2>2. PICK last : last = c[Len(events)]
    OBVIOUS
  <2>3. last \in Cache /\ last.unshown \in [Slots -> 0..(2 * Lots)]
    <3>1. Len(events) \in Nat
      BY <1>1
    <3>2. Len(events) \in 0..Len(events)
      BY <3>1
    <3>3. QED BY <2>2, <3>2 DEF Cache
  <2>4. last.unshown[s] > 0 /\ untraded'[s] <= last.unshown[s]
    BY <1>3, <1>6, <2>1, <2>2, <2>3 DEF EndsAsKite
  <2>5. CASE client # "up"
    <3>1. IsFuture(c)'
      BY <1>2, <2>1, <2>5 DEF IsFuture, Shown
    <3>2. EndsAsKite(last)'
      BY <1>2, <1>3, <2>1, <2>2, <2>3, <2>4, <2>5 DEF EndsAsKite
    <3>3. QED BY <1>2, <2>1, <2>2, <2>5, <3>1, <3>2 DEF FutureEndsAsKite
  <2>6. CASE client = "up"
    <3>1. PICK next : next = Shown(last, <<s, "Filled">>)
      OBVIOUS
    <3>2. next = [pos |-> last.pos + Sign(orders[s].lots),
                  unshown |-> [last.unshown EXCEPT ![s] = @ - 1]]
      BY <3>1 DEF Shown
    <3>3. last.pos = net /\ \A r \in Slots : last.unshown[r] = untraded[r]
      BY <2>1, <2>2, <2>6 DEF EndsAsKite
    <3>4. [last.unshown EXCEPT ![s] = @ - 1] \in [Slots -> 0..(2 * Lots)]
      BY <2>3, <2>4
    <3>5. next \in Cache
      BY <1>2, <1>8, <3>2, <3>3, <3>4 DEF Cache
    <3>6. FutureEnds(next)'
      <4>1. FutureEnds(last)
        BY <2>1, <2>2 DEF FutureEnds
      <4>2. events' = Append(events, <<s, "Filled">>) /\ UNCHANGED <<pos, unshown, orders>>
        BY <1>2, <2>6
      <4>3. QED BY <1>4, <2>4, <3>1, <3>5, <4>1, <4>2, FutureAppended
    <3>7. next.pos = net' /\ \A r \in Slots : next.unshown[r] = untraded'[r]
      BY <1>2, <1>3, <2>3, <3>2, <3>3
    <3>8. \A r \in Slots : untraded'[r] \in Int
      BY <1>9 DEF TypeOK
    <3>9. EndsAsKite(next)'
      BY <3>7, <3>8 DEF EndsAsKite
    <3>10. QED BY <3>6, <3>9 DEF FutureEnds, FutureEndsAsKite
  <2>7. QED BY <2>5, <2>6
<1>13. QuietOrders'
  BY <1>2, <1>3, QuietAppended
<1>14. Fits(st, entered)' /\ SendingSound'
  BY <1>2, <1>5, StrategyStays
<1>15. QED BY <1>9, <1>10, <1>11, <1>12, <1>13, <1>14 DEF IInv, OrdersFit

-----------------------------------------------------------------------------
(* The invariant is inductive *)

\* The invariant holds at the start.
LEMMA InitIInv == Init => IInv
<1> SUFFICES ASSUME Init PROVE IInv
  OBVIOUS
<1>1. st = [dir |-> 0, hits |-> 0, trade |-> 0, target |-> 0, ours |-> FALSE,
            halted |-> FALSE, inFlight |-> None, timedOut |-> {}, attempts |-> 0,
            exitCancels |-> 0, flat |-> TRUE, sending |-> NoOrder]
  BY DEF Init
<1>2. st \in Strategies
  <2>1. {} \in SUBSET Slots /\ 0 \in 0..MaxTrades /\ 0 \in 0..FastAttempts
    OBVIOUS
  <2>2. QED BY <1>1, <2>1, Values, Zenon DEF Strategies
<1>3. /\ pos = 0 /\ entered = 0 /\ net = 0 /\ client = "up"
      /\ squared = FALSE /\ stopping = FALSE /\ watcher = "watching"
      /\ orders = [s \in Slots |-> NoOrder] /\ unshown = [s \in Slots |-> 0]
      /\ untraded = [s \in Slots |-> 0] /\ where = [s \in Slots |-> "closed"]
      /\ events = <<>>
  BY DEF Init
<1>4. squared \in BOOLEAN /\ stopping \in BOOLEAN
  BY <1>3, Zenon
<1>5. /\ orders \in [Slots -> OrderSpecs] /\ unshown \in [Slots -> 0..(2 * Lots)]
      /\ untraded \in [Slots -> 0..(2 * Lots)] /\ where \in [Slots -> Places]
  BY <1>3, Values DEF Places
<1>6. events \in Seq(Events) /\ Len(events) = 0
  BY <1>3
<1>7. TypeOK
  BY <1>2, <1>3, <1>4, <1>5, <1>6 DEF TypeOK, Events
<1>8. \A s \in Slots : ~Open(s) /\ ~Unresolved(s) /\ where[s] = "closed"
                       /\ unshown[s] = 0 /\ untraded[s] = 0
  BY <1>3 DEF Open, Unresolved
<1>9. OrdersSound /\ OneUnresolved
  BY <1>8 DEF OrdersSound, OneUnresolved
<1>10. QuietOrders
  BY <1>6 DEF QuietOrders
<1>11. FutureEndsAsKite
  <2>1. PICK c : c = [i \in 0..0 |-> [pos |-> pos, unshown |-> unshown]]
    OBVIOUS
  <2>2. c[0] = [pos |-> pos, unshown |-> unshown]
    BY <2>1
  <2>3. c \in [0..0 -> Cache]
    BY <1>3, <1>5, <2>1, Values DEF Cache
  <2>4. c[0].pos = pos /\ c[0].unshown = unshown
    BY <2>2
  <2>5. IsFuture(c)
    BY <1>6, <1>8, <2>2, <2>4 DEF IsFuture
  <2>6. EndsAsKite(c[0])
    BY <1>3, <1>8, <2>4 DEF EndsAsKite
  <2>7. QED BY <1>6, <2>3, <2>5, <2>6 DEF FutureEndsAsKite
<1>12. Fits(st, entered) /\ SendingSound
  BY <1>1, <1>3, <1>8 DEF Fits, OpenIsRemembered, FlatIsClosed, OneInFlight,
     SquaredWantsNone, EnteredHolds, Holds, SendingSound
<1>13. QED BY <1>7, <1>9, <1>10, <1>11, <1>12 DEF IInv, OrdersFit

\* The client and Kite keep the invariant and leave the strategy alone.
LEMMA ClientStep ==
  ASSUME IInv, Client \/ Kite
  PROVE  IInv' /\ st' = st
<1>1. ASSUME NEW s \in Slots, DispatchPlaces(s) PROVE IInv' /\ st' = st
  <2>1. PICK p \in {"working", "lost"} : where' = [where EXCEPT ![s] = p]
    BY <1>1 DEF DispatchPlaces
  <2>2. /\ where[s] = "queued" /\ Admissible(s)
        /\ UNCHANGED <<st, squared, pos, entered>>
        /\ UNCHANGED <<orders, unshown, untraded, events, net, stopping, watcher>>
        /\ client' = client
    BY <1>1 DEF DispatchPlaces, strategyVars, controlVars
  <2>3. QED BY <2>1, <2>2, WhereMoves
<1>2. ASSUME NEW s \in Slots, DispatchDenies(s) PROVE IInv' /\ st' = st
  <2>1. /\ where[s] = "queued" /\ client = "up" /\ where' = [where EXCEPT ![s] = "over"]
        /\ untraded' = [untraded EXCEPT ![s] = 0]
        /\ events' = IF client = "up" THEN Append(events, <<s, "Denied">>) ELSE events
        /\ UNCHANGED <<st, squared, pos, entered>>
        /\ UNCHANGED <<orders, unshown, net, client, stopping, watcher>>
    BY <1>2 DEF DispatchDenies, strategyVars, controlVars
  <2>2. QED BY <2>1, EndMoves
<1>3. ASSUME NEW s \in Slots, DispatchFails(s) PROVE IInv' /\ st' = st
  <2>1. /\ where[s] = "queued" /\ Admissible(s) /\ where' = [where EXCEPT ![s] = "lost"]
        /\ UNCHANGED <<st, squared, pos, entered>>
        /\ UNCHANGED <<orders, unshown, untraded, events, net, stopping, watcher>>
        /\ client' = "error"
    BY <1>3 DEF DispatchFails, strategyVars, controlVars
  <2>2. QED BY <2>1, WhereMoves
<1>4. ASSUME NEW s \in Slots, DispatchDead(s) PROVE IInv' /\ st' = st
  <2>1. /\ where[s] = "queued" /\ where' = [where EXCEPT ![s] = "dead"]
        /\ UNCHANGED <<st, squared, pos, entered>>
        /\ UNCHANGED <<orders, unshown, untraded, events, net, stopping, watcher>>
        /\ client' = client
    BY <1>4 DEF DispatchDead, strategyVars, controlVars
  <2>2. QED BY <2>1, WhereMoves
<1>5. ASSUME NEW why \in Causes, ClientStops(why) PROVE IInv' /\ st' = st
  <2>1. /\ UNCHANGED <<st, squared, pos, entered>>
        /\ UNCHANGED <<orders, unshown, untraded, where, events, net>>
        /\ client' \in {"mismatch", "error", "stopped"}
        /\ stopping' = stopping /\ watcher' = watcher
    BY <1>5 DEF ClientStops, strategyVars, controlVars
  <2>2. stopping' \in BOOLEAN /\ watcher' \in {"watching", "waiting", "sawFlat", "gaveUp"}
    BY <2>1 DEF IInv, TypeOK
  <2>3. QED BY <2>1, <2>2, ControlMoves
<1>6. ASSUME NEW s \in Slots, Fills(s) PROVE IInv' /\ st' = st
  BY <1>6, FillsStep DEF Fills, strategyVars
<1>7. ASSUME NEW s \in Slots, NEW kind \in {"Canceled", "Rejected"}, Ends(s, kind)
      PROVE  IInv' /\ st' = st
  <2>1. /\ where[s] = "working" /\ where' = [where EXCEPT ![s] = "over"]
        /\ untraded' = [untraded EXCEPT ![s] = 0]
        /\ events' = IF client = "up" THEN Append(events, <<s, kind>>) ELSE events
        /\ UNCHANGED <<st, squared, pos, entered>>
        /\ UNCHANGED <<orders, unshown, net, client, stopping, watcher>>
    BY <1>7 DEF Ends, strategyVars, controlVars
  <2>2. QED BY <2>1, EndMoves
<1>8. QED BY <1>1, <1>2, <1>3, <1>4, <1>5, <1>6, <1>7 DEF Client, Kite

\* So do the feed and the watcher.
LEMMA ControlStep ==
  ASSUME IInv, FeedFails \/ Watcher
  PROVE  IInv' /\ st' = st
<1>1. /\ UNCHANGED <<st, squared, pos, entered>>
      /\ UNCHANGED <<orders, unshown, untraded, where, events, net>>
  BY DEF FeedFails, Watcher, WatcherFault, WatcherSignal, WatcherSeesFlat, WatcherGivesUp,
     Disconnect, strategyVars, orderVars
<1>2. client' = client \/ client' \in {"mismatch", "error", "stopped"}
  BY DEF FeedFails, Watcher, WatcherFault, WatcherSignal, WatcherSeesFlat, WatcherGivesUp,
     Disconnect, orderVars
<1>3. stopping' = stopping \/ stopping' = TRUE
  BY DEF FeedFails, Watcher, WatcherFault, WatcherSignal, WatcherSeesFlat, WatcherGivesUp,
     Disconnect, controlVars
<1>4. stopping \in BOOLEAN /\ watcher \in {"watching", "waiting", "sawFlat", "gaveUp"}
  BY DEF IInv, TypeOK
<1>5. stopping' \in BOOLEAN
  BY <1>3, <1>4, Values, Zenon
<1>6. watcher' \in {"watching", "waiting", "sawFlat", "gaveUp"}
  BY <1>4 DEF FeedFails, Watcher, WatcherFault, WatcherSignal, WatcherSeesFlat,
     WatcherGivesUp, Disconnect, controlVars
<1>7. QED BY <1>1, <1>2, <1>3, <1>5, <1>6, ControlMoves

\* Every step keeps the invariant; where it begins with nothing to send, an opening
\* order is sent in its time.
LEMMA Step ==
  ASSUME IInv, [Next]_vars
  PROVE  IInv' /\ (st.sending = NoOrder => OpensInTime(entered))
<1>1. CASE Strategy
  <2>1. ASSUME NEW squareOff \in BOOLEAN, Bar(squareOff)
        PROVE  IInv' /\ OpensInTime(entered)
    BY <2>1, BarStep
  <2>2. CASE Quote
    BY <2>2, QuoteStep
  <2>3. ASSUME NEW late \in BOOLEAN, NEW rested \in BOOLEAN, Tick(late, rested)
        PROVE  IInv' /\ OpensInTime(entered)
    BY <2>3, TickStep
  <2>4. ASSUME NEW s \in Slots, Send(s) PROVE IInv' /\ st.sending # NoOrder
    BY <2>4, SendStep DEF Send
  <2>5. ASSUME NEW s \in Slots, OnFilled(s) PROVE IInv' /\ OpensInTime(entered)
    BY <2>5, OnFilledStep
  <2>6. ASSUME NEW s \in Slots, OnCanceled(s) \/ OnRefused(s)
        PROVE  IInv' /\ OpensInTime(entered)
    BY <2>6, OnClosedStep
  <2>7. QED BY <1>1, <2>1, <2>2, <2>3, <2>4, <2>5, <2>6 DEF Strategy
<1>2. st' = st => (st.sending = NoOrder => OpensInTime(entered))
  BY DEF OpensInTime
<1>3. CASE Client \/ Kite
  BY <1>2, <1>3, ClientStep
<1>4. CASE FeedFails \/ Watcher
  BY <1>2, <1>4, ControlStep
<1>5. CASE UNCHANGED vars
  <2>1. /\ UNCHANGED <<st, squared, pos, entered>>
        /\ UNCHANGED <<orders, unshown, untraded, where, events, net>>
        /\ client' = client /\ stopping' = stopping /\ watcher' = watcher
    BY <1>5 DEF vars
  <2>2. stopping' \in BOOLEAN /\ watcher' \in {"watching", "waiting", "sawFlat", "gaveUp"}
    BY <2>1 DEF IInv, TypeOK
  <2>3. IInv'
    BY <2>1, <2>2, ControlMoves
  <2>4. QED BY <1>2, <2>1, <2>3
<1>6. QED BY <1>1, <1>3, <1>4, <1>5 DEF Next

\* The invariant holds in every state a run of the strategy reaches.
THEOREM Invariance == Spec => []IInv
<1>1. IInv /\ [Next]_vars => IInv'
  BY Step
<1>2. QED BY InitIInv, <1>1, PTL DEF Spec

-----------------------------------------------------------------------------
(* What follows from it *)

\* Every variable keeps its type.
THEOREM TypeCorrect == Spec => []TypeOK
<1>1. IInv => TypeOK
  BY DEF IInv
<1>2. QED BY <1>1, Invariance, PTL

\* The future of a strategy that has no event to come is its present.
LEMMA NoEventsAgree ==
  ASSUME IInv, events = <<>>
  PROVE  /\ client = "up" => pos = net
         /\ (\A s \in Slots : unshown[s] = 0) => pos = net
<1>1. PICK c \in [0..Len(events) -> Cache] : IsFuture(c) /\ EndsAsKite(c[Len(events)])
  BY DEF IInv, OrdersFit, FutureEndsAsKite
<1>2. Len(events) = 0
  OBVIOUS
<1>3. c[0].pos = pos /\ c[0].unshown = unshown
  BY <1>1 DEF IsFuture
<1>4. QED BY <1>1, <1>2, <1>3 DEF EndsAsKite

\* An event on its way finds its order open.
LEMMA EventsFindOpen ==
  ASSUME IInv, events # <<>>
  PROVE  \E s \in Slots : where[s] \in {"working", "over"}
<1>1. events \in Seq(Events) /\ QuietOrders
  BY DEF IInv, TypeOK, OrdersFit, Events
<1>2. 1 \in 1..Len(events) /\ events[1] \in Events
  BY <1>1
<1>3. events[1][1] \in Slots
  BY <1>2 DEF Events
<1>4. QED BY <1>1, <1>2, <1>3 DEF QuietOrders

\* Flat is only reported when the account is flat and no order can trade any more
\* (set_flat, timed_out in model_strategy.rs).
THEOREM FlatIsTrueHolds == Spec => []FlatIsTrue
<1>1. IInv => FlatIsTrue
  <2>1. SUFFICES ASSUME IInv, st.flat
                 PROVE  net = 0 /\ \A s \in Slots : where[s] \notin {"queued", "working", "lost"}
    BY DEF FlatIsTrue
  <2>2. pos = 0 /\ \A s \in Slots : where[s] = "closed"
    BY <2>1 DEF IInv, Fits, FlatIsClosed, Open
  <2>3. \A s \in Slots : unshown[s] = 0
    BY <2>1, <2>2 DEF IInv, OrdersFit, OrdersSound, Open
  <2>4. events = <<>>
    BY <2>1, <2>2, EventsFindOpen
  <2>5. QED BY <2>1, <2>2, <2>3, <2>4, NoEventsAgree
<1>2. QED BY <1>1, Invariance, PTL

\* What the strategy sends before it halts finds no unresolved order and the
\* position it was computed from (reconcile, against the dispatcher's admission).
THEOREM AlwaysAdmissibleHolds == Spec => []AlwaysAdmissible
<1>1. IInv => AlwaysAdmissible
  <2>1. SUFFICES ASSUME IInv, NEW s \in Slots, client = "up", where[s] = "queued", ~st.halted
                 PROVE  Admissible(s)
    BY DEF AlwaysAdmissible
  <2>2. /\ OrdersSound /\ OpenIsRemembered(st) /\ OneInFlight(st)
        /\ orders \in [Slots -> OrderSpecs]
    BY <2>1 DEF IInv, OrdersFit, Fits, TypeOK
  <2>3. Open(s)
    BY <2>1 DEF Open
  <2>4. \A r \in Slots : Open(r) => r = s
    BY <2>1, <2>2, <2>3 DEF OneInFlight, OpenIsRemembered
  <2>5. events = <<>>
    BY <2>1, <2>4, EventsFindOpen DEF Open
  <2>6. pos = net
    BY <2>1, <2>5, NoEventsAgree
  <2>7. pos = orders[s].seen + orders[s].lots - Sign(orders[s].lots) * Abs(orders[s].lots)
    BY <2>1, <2>2, <2>3 DEF OneInFlight, OrdersSound
  <2>8. orders[s].seen \in Int /\ orders[s].lots \in Int
    BY <2>2 DEF OrderSpecs
  <2>9. orders[s].seen = net
    BY <2>6, <2>7, <2>8 DEF Sign, Abs
  <2>10. \A r \in Slots : ~Unresolved(r)
    BY <2>1, <2>4 DEF Open, Unresolved
  <2>11. QED BY <2>9, <2>10 DEF Admissible
<1>2. QED BY <1>1, Invariance, PTL

\* An entry or flip is sent once per trade of the model (closed_by_broker).
THEOREM EntryNeverResentHolds == Spec => EntryNeverResent
<1>1. IInv /\ [Next]_vars
        => [st.sending = NoOrder /\ st'.sending # NoOrder /\ ~st'.sending.reduce
              => entered < st'.trade]_vars
  BY Step DEF OpensInTime
<1>2. QED BY <1>1, Invariance, PTL DEF Spec, EntryNeverResent

\* What a handler is about to open was decided while the day was open.
OpeningInTime == Opens(st) => ~squared /\ ~st.halted

\* A handler that sends is not interrupted by another, and nothing but a handler squares
\* the day off or halts.
LEMMA SendsUndisturbed ==
  ASSUME [Next]_vars, st \in Strategies, st.sending # NoOrder
  PROVE  (st' = st /\ squared' = squared) \/ st'.sending = NoOrder
<1>1. CASE Strategy
  <2>1. \E s \in Slots : Send(s)
    BY <1>1 DEF Strategy, Bar, Quote, Tick, OnFilled, OnCanceled, OnRefused, Delivers, Ready
  <2>2. PICK s \in Slots : st' = [st EXCEPT !.inFlight = s, !.flat = FALSE, !.sending = NoOrder]
    BY <2>1 DEF Send
  <2>3. QED BY <2>2 DEF Strategies
<1>2. CASE ~Strategy
  <2>1. UNCHANGED strategyVars
    BY <1>2 DEF Next, Client, Kite, Watcher, FeedFails, WatcherFault, WatcherSignal,
      WatcherSeesFlat, WatcherGivesUp, Disconnect, DispatchPlaces, DispatchDenies, DispatchFails,
      DispatchDead, ClientStops, Fills, Ends, vars, strategyVars
  <2>2. QED BY <2>1 DEF strategyVars
<1>3. QED BY <1>1, <1>2

\* Whatever is decided later, too.
LEMMA OpeningStep ==
  ASSUME IInv, OpeningInTime, [Next]_vars
  PROVE  OpeningInTime' /\ (stopping /\ ~Opens(st) => ~Opens(st'))
<1>1. CASE st.sending = NoOrder
  <2>1. OpensInTime(entered)
    BY <1>1, Step
  <2>2. Opens(st') => ~squared' /\ ~st'.halted /\ ~stopping
    BY <1>1, <2>1 DEF OpensInTime, Opens
  <2>3. QED BY <2>2 DEF OpeningInTime, Opens
<1>2. CASE st.sending # NoOrder
  <2>1. st \in Strategies
    BY DEF IInv, TypeOK
  <2>2. (st' = st /\ squared' = squared) \/ st'.sending = NoOrder
    BY <1>2, <2>1, SendsUndisturbed
  <2>3. QED BY <2>2 DEF OpeningInTime, Opens
<1>3. QED BY <1>1, <1>2

\* After the square-off or a halt nothing is opened any more, and after a stop request no
\* more than what a handler had decided before it (entries_ok, reconcile).
THEOREM EntriesOnlyWhileTradingHolds == Spec => EntriesOnlyWhileTrading
<1>1. Init => OpeningInTime
  BY DEF Init, OpeningInTime, Opens
<1>2. IInv /\ OpeningInTime /\ [Next]_vars => OpeningInTime'
  BY OpeningStep
<1>3. IInv /\ OpeningInTime /\ [Next]_vars
        => [/\ \A s \in Slots : Send(s) /\ Opens(st) => ~squared /\ ~st.halted
            /\ stopping /\ ~Opens(st) => ~Opens(st')]_vars
  BY OpeningStep DEF OpeningInTime
<1>4. QED BY <1>1, <1>2, <1>3, Invariance, PTL DEF Spec, EntriesOnlyWhileTrading

=============================================================================
