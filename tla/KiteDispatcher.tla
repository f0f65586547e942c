--------------------------- MODULE KiteDispatcher ---------------------------
(***************************************************************************)
(* The order dispatcher of the Kite execution client                       *)
(* (native_client/dispatch.rs) together with the broker it talks to.       *)
(*                                                                         *)
(* "Place the order, reconcile, done": an order is admitted from the       *)
(* dispatcher's own memory, sent with one call, and from then on only what *)
(* Kite's order book and trade book show turns into events.  The answer to *)
(* the call may be lost, late or an error, the two books are two separate  *)
(* reads that trail the exchange and each other, and positions trail both. *)
(*                                                                         *)
(* Every operation runs under one mutex.  The only await at which the      *)
(* dispatcher's state is half changed is the broker call of a place or a   *)
(* cancel, so those are two steps each, with the broker free to move in    *)
(* between; a refresh reads first and changes state afterwards without     *)
(* another await, so it is one step at the moment its last read returns.   *)
(*                                                                         *)
(* Simplifications:                                                        *)
(*  - one trade fills one lot, so a trade book is a number of lots;        *)
(*  - the record store of production keeps nothing (ledger.rs), so saving  *)
(*    a record is not a step; the receiving end of tx outlives the client; *)
(*  - identity, contract, price and timestamp checks of broker_events.rs   *)
(*    hold of a broker that keeps its own books straight; a failed one is  *)
(*    an error of the read, after which the caller faults the dispatcher   *)
(*    (Fault), exactly as after a failed HTTP read;                        *)
(*  - the protective stop modification (modify_stop) is not in this module;*)
(*  - the periodic audit changes nothing here but by its Fault (its grace   *)
(*    is in OrderStream).                                                   *)
(***************************************************************************)
EXTENDS Integers, Sequences, FiniteSets

CONSTANTS
  Orders,    \* client order ids, each submitted by the strategy at most once
  MaxLots    \* contract cap per position (broker settings max_lots)

ASSUME MaxLotsAssumption == MaxLots \in Nat \ {0}

VARIABLES
  \* the dispatcher: one record per attempted order, and its own flags
  order,       \* side, lots and reduce-only flag of each submitted order
  status,      \* order status that the record's events add up to
  filled,      \* lots in the record's Filled events
  known,       \* the record holds Kite's order id
  management,  \* outcome of the one cancel command a record may have
  poisoned,    \* no further dispatch in this run
  position,    \* net position of the owned fills
  call,        \* broker call in progress: <<>>, <<"place", o>>, <<"cancel", o>>
  tx,          \* execution events sent to the trading engine, in order
  mode,        \* trading, finishing, then the verdict clean or failed
  \* Kite and the exchange
  phase,       \* what really happened to each order
  exFilled,    \* lots really traded
  net,         \* real net position of the account in this contract
  bookPhase,   \* order book as a read would return it now
  bookFilled,
  tradeBook,   \* trade book as a read would return it now
  posted       \* net position as a read would return it now

dispatcherVars == <<order, status, filled, known, management, poisoned,
                    position, call, tx, mode>>
kiteVars == <<phase, exFilled, net, bookPhase, bookFilled, tradeBook, posted>>
vars == <<order, status, filled, known, management, poisoned, position, call, tx, mode, phase, exFilled, net, bookPhase,
          bookFilled, tradeBook, posted>>

-----------------------------------------------------------------------------
Sides == {"BUY", "SELL"}
OrderSpecs == [side : Sides, qty : 1..(2 * MaxLots), reduce : BOOLEAN]
NoOrder == [side |-> "BUY", qty |-> 1, reduce |-> FALSE]

\* "None" and "Denied" orders have no record; the other states are those of
\* the order that the record's events rebuild.
Statuses == {"None", "Denied", "Submitted", "Accepted", "PartiallyFilled",
             "Filled", "Canceled", "Rejected"}
UnresolvedStatuses == {"Submitted", "Accepted", "PartiallyFilled"}
ClosedStatuses == {"Filled", "Canceled", "Rejected"}

\* The life of an order at Kite.  "sent" is the request on the wire, which may
\* still arrive after the dispatcher stopped waiting for it.
Phases == {"none", "sent", "refused", "lost", "pending", "open", "complete",
           "cancelled", "rejected"}
LivePhases == {"sent", "pending", "open"}
BookPhases == {"none", "pending", "open", "complete", "cancelled", "rejected"}

Signed(side, n) == IF side = "BUY" THEN n ELSE -n
InCap(n) == -MaxLots <= n /\ n <= MaxLots

Unresolved(o) == status[o] \in UnresolvedStatuses
HasUnresolved == \E o \in Orders : Unresolved(o)

Idle == call = <<>>
Event(o, type) == [id |-> o, type |-> type]
Events == [id : Orders, type : Statuses \cup {"CancelRejected"}]

-----------------------------------------------------------------------------
Init ==
  /\ order = [o \in Orders |-> NoOrder]
  /\ status = [o \in Orders |-> "None"]
  /\ filled = [o \in Orders |-> 0]
  /\ known = [o \in Orders |-> FALSE]
  /\ management = [o \in Orders |-> "None"]
  /\ poisoned = FALSE
  /\ position = 0
  /\ call = <<>>
  /\ tx = <<>>
  /\ mode = "trading"
  /\ phase = [o \in Orders |-> "none"]
  /\ exFilled = [o \in Orders |-> 0]
  /\ net = 0
  /\ bookPhase = [o \in Orders |-> "none"]
  /\ bookFilled = [o \in Orders |-> 0]
  /\ tradeBook = [o \in Orders |-> 0]
  /\ posted = 0

-----------------------------------------------------------------------------
(* Admission: local and in memory, no Kite read. *)

Opposing(s, pos) ==
  \/ s.side = "BUY" /\ pos < 0
  \/ s.side = "SELL" /\ pos > 0

Held(pos) == IF pos < 0 THEN -pos ELSE pos

\* Mutant: a reduce-only order is not held to the size of the position.
ExposureRuleAnySize(s, pos) ==
  IF s.reduce THEN Opposing(s, pos) ELSE pos = 0 \/ Opposing(s, pos)

\* A reducing exit, an entry from flat, or one flip that crosses zero.
ExposureRule(s, pos) ==
  IF s.reduce
    THEN Opposing(s, pos) /\ s.qty <= Held(pos)
    ELSE pos = 0 \/ (Opposing(s, pos) /\ s.qty > Held(pos))

\* Mutants: no check for an unresolved order; a stale position is accepted.
AdmittedBesideUnresolved(s, seen, ready) ==
  /\ s.reduce \/ ready
  /\ seen = position
  /\ InCap(seen) /\ InCap(seen + Signed(s.side, s.qty))
  /\ ExposureRule(s, seen)
AdmittedOnStalePosition(s, seen, ready) ==
  /\ s.reduce \/ ready
  /\ ~HasUnresolved
  /\ InCap(seen) /\ InCap(seen + Signed(s.side, s.qty))
  /\ ExposureRule(s, seen)

\* `seen` is the position the strategy's cache held when it gave the command,
\* `ready` the order-stream flag read now.
Admitted(s, seen, ready) ==
  /\ s.reduce \/ ready
  /\ ~HasUnresolved
  /\ seen = position
  /\ InCap(seen) /\ InCap(seen + Signed(s.side, s.qty))
  /\ ExposureRule(s, seen)

\* A submit command gets the lock and is not refused with an error.
Takes(o) ==
  /\ mode = "trading" /\ Idle /\ ~poisoned
  /\ status[o] = "None"

\* Refused before anything is sent: admission, or the order-rate budget, which
\* never blocks a reduce-only order.
Deny(o, s, seen, ready, budget) ==
  /\ Takes(o)
  /\ ~Admitted(s, seen, ready) \/ (~budget /\ ~s.reduce)
  /\ status' = [status EXCEPT ![o] = "Denied"]
  /\ tx' = Append(tx, Event(o, "Denied"))
  /\ UNCHANGED <<order, filled, known, management, poisoned, position,
                 call, mode, kiteVars>>

\* The record exists, the dispatcher is poisoned and Submitted is emitted
\* before the request leaves.
Place(o, s, seen, ready, budget) ==
  /\ Takes(o)
  /\ Admitted(s, seen, ready)
  /\ budget \/ s.reduce
  /\ order' = [order EXCEPT ![o] = s]
  /\ status' = [status EXCEPT ![o] = "Submitted"]
  /\ poisoned' = TRUE
  /\ call' = <<"place", o>>
  /\ tx' = Append(tx, Event(o, "Submitted"))
  /\ phase' = [phase EXCEPT ![o] = "sent"]
  /\ UNCHANGED <<filled, known, management, position, mode,
                 exFilled, net, bookPhase, bookFilled, tradeBook, posted>>

-----------------------------------------------------------------------------
(* The answer to a place call. *)

PlaceAcknowledged(o) ==
  /\ call = <<"place", o>>
  /\ phase[o] \notin {"sent", "refused", "lost"}
  /\ known' = [known EXCEPT ![o] = TRUE]
  /\ poisoned' = FALSE
  /\ call' = <<>>
  /\ UNCHANGED <<order, status, filled, management, position, tx,
                 mode, kiteVars>>

PlaceRejected(o) ==
  /\ call = <<"place", o>>
  /\ phase[o] = "refused"
  /\ status' = [status EXCEPT ![o] = "Rejected"]
  /\ tx' = Append(tx, Event(o, "Rejected"))
  /\ poisoned' = FALSE
  /\ call' = <<>>
  /\ UNCHANGED <<order, filled, known, management, position, mode,
                 kiteVars>>

\* Rate limit or expired session: nothing was placed, the record stays
\* unresolved and the dispatcher stays stopped.
PlaceStopped(o) ==
  /\ call = <<"place", o>>
  /\ phase[o] = "refused"
  /\ poisoned' = TRUE
  /\ call' = <<>>
  /\ UNCHANGED <<order, status, filled, known, management, position,
                 tx, mode, kiteVars>>

\* Mutant: an answer that never came is taken for a refusal.
PlaceUnknownMeansRejected(o) ==
  /\ call = <<"place", o>>
  /\ status' = [status EXCEPT ![o] = "Rejected"]
  /\ tx' = Append(tx, Event(o, "Rejected"))
  /\ poisoned' = FALSE
  /\ call' = <<>>
  /\ UNCHANGED <<order, filled, known, management, position, mode, kiteVars>>

\* Six seconds passed, or the answer was lost, unreadable or a server error.
PlaceUnknown(o) ==
  /\ call = <<"place", o>>
  /\ poisoned' = FALSE
  /\ call' = <<>>
  /\ UNCHANGED <<order, status, filled, known, management, position,
                 tx, mode, kiteVars>>

-----------------------------------------------------------------------------
(* Cancelling: never blocked by the budget, once per record. *)

Cancel(o) ==
  /\ mode = "trading" /\ Idle /\ ~poisoned
  /\ Unresolved(o)
  /\ management[o] = "None"
  /\ known[o]
  /\ management' = [management EXCEPT ![o] = "Dispatching"]
  /\ poisoned' = TRUE
  /\ call' = <<"cancel", o>>
  /\ UNCHANGED <<order, status, filled, known, position, tx, mode,
                 kiteVars>>

CancelAnswered(o, outcome) ==
  /\ call = <<"cancel", o>>
  /\ management' = [management EXCEPT ![o] = outcome]
  /\ tx' = IF outcome = "Rejected" THEN Append(tx, Event(o, "CancelRejected"))
                                   ELSE tx
  /\ poisoned' = FALSE
  /\ call' = <<>>
  /\ UNCHANGED <<order, status, filled, known, position, mode,
                 kiteVars>>

CancelStopped(o) ==
  /\ call = <<"cancel", o>>
  /\ management' = [management EXCEPT ![o] = "Unknown"]
  /\ poisoned' = TRUE
  /\ call' = <<>>
  /\ UNCHANGED <<order, status, filled, known, position, tx, mode,
                 kiteVars>>

\* The task that awaits the broker's answer is dropped (shutdown's drain aborts
\* what is overdue): the dispatcher stays poisoned.
Abort ==
  /\ ~Idle
  /\ call' = <<>>
  /\ UNCHANGED <<order, status, filled, known, management, poisoned, position, tx, mode, kiteVars>>

\* A caller reports an error: a failed read or audit, a command
\* refused with an error.
Fault ==
  /\ mode = "trading" /\ Idle /\ ~poisoned
  /\ poisoned' = TRUE
  /\ UNCHANGED <<order, status, filled, known, management, position,
                 call, tx, mode, kiteVars>>

-----------------------------------------------------------------------------
(* Reconciliation: the order book and the trade book turned into events. *)

HasRecord(o) == status[o] \notin {"None", "Denied"}
Visible(o) == HasRecord(o) /\ bookPhase[o] # "none"

\* Mutant: the order book is believed without its trades.
NeverLagging(o) == FALSE

\* Orders and trades disagree (ObservationLag): nothing is applied, the read is
\* repeated and then left to the next pass.
Lagging(o) == Visible(o) /\ tradeBook[o] # bookFilled[o]

\* Kite shows trades less than the record already has, or a pending order that
\* was accepted before: an error of the read.
Regressed(o) ==
  /\ Visible(o)
  /\ \/ tradeBook[o] < filled[o]
     \/ bookPhase[o] = "pending" /\ (tradeBook[o] # 0 \/ status[o] # "Submitted")

\* Mutant: Kite's own status word is kept.
RawStatus(o) == IF bookPhase[o] = "open" THEN "open" ELSE status[o]

ObservedStatus(o) ==
  CASE bookPhase[o] = "complete"  -> "Filled"
    [] bookPhase[o] = "cancelled" -> "Canceled"
    [] bookPhase[o] = "rejected"  -> "Rejected"
    [] bookPhase[o] = "open"      -> IF tradeBook[o] = 0 THEN "Accepted"
                                     ELSE "PartiallyFilled"
    [] OTHER                      -> status[o]

\* A COMPLETE order must be wholly traded, an open one not.
Consistent(o) ==
  /\ bookPhase[o] = "complete" => tradeBook[o] = order[o].qty
  /\ bookPhase[o] = "open" => tradeBook[o] < order[o].qty
  /\ bookPhase[o] = "rejected" => tradeBook[o] = 0

\* Mutant: Accepted is repeated for an order that was accepted before.
AcceptedAgain(o) ==
  IF bookPhase[o] \in {"open", "complete", "cancelled"}
    THEN <<Event(o, "Accepted")>> ELSE <<>>

AcceptedEvents(o) ==
  IF status[o] = "Submitted" /\ bookPhase[o] \in {"open", "complete", "cancelled"}
    THEN <<Event(o, "Accepted")>> ELSE <<>>
FillEvents(o) == [i \in 1..(tradeBook[o] - filled[o]) |-> Event(o, "Filled")]
TerminalEvents(o) ==
  IF ObservedStatus(o) # status[o] /\ ObservedStatus(o) \in {"Canceled", "Rejected"}
    THEN <<Event(o, ObservedStatus(o))>> ELSE <<>>
NewEvents(o) == AcceptedEvents(o) \o FillEvents(o) \o TerminalEvents(o)

News(o) ==
  /\ Visible(o)
  /\ \/ ~known[o]
     \/ ObservedStatus(o) # status[o]
     \/ tradeBook[o] # filled[o]

\* Mutant: the fills a record already has are counted again.
OwnedAfterRecount(o) == position + Signed(order[o].side, tradeBook[o])

OwnedAfter(o) == position + Signed(order[o].side, tradeBook[o] - filled[o])

\* A pass that applies something.  The code walks every record and sums every
\* owned fill; at most one record is unresolved (OneUnresolved), so at most one
\* has news, and adding its new lots to `position` is that sum (OwnedPosition).
\* A pass without news changes nothing and is not a step.
Refresh(o) ==
  /\ mode \in {"trading", "finishing"} /\ Idle /\ ~poisoned
  /\ \A p \in Orders : ~Lagging(p) /\ ~Regressed(p)
  /\ News(o)
  /\ Consistent(o)
  /\ InCap(OwnedAfter(o))
  /\ status' = [status EXCEPT ![o] = ObservedStatus(o)]
  /\ filled' = [filled EXCEPT ![o] = tradeBook[o]]
  /\ known' = [known EXCEPT ![o] = TRUE]
  /\ position' = OwnedAfter(o)
  /\ tx' = tx \o NewEvents(o)
  /\ UNCHANGED <<order, management, poisoned, call, mode, kiteVars>>

-----------------------------------------------------------------------------
(* Shutdown: the book until nothing is unresolved, then Kite's position must *)
(* equal the owned fills and be flat.  The five passes of each loop are a    *)
(* choice of when to give up.                                                *)

FinishStarts(failed) ==
  /\ mode = "trading" /\ Idle
  /\ IF poisoned \/ failed
       THEN mode' = "failed" /\ poisoned' = TRUE
       ELSE mode' = "finishing" /\ UNCHANGED poisoned
  /\ UNCHANGED <<order, status, filled, known, management, position,
                 call, tx, kiteVars>>

\* Mutant: the order whose answer never came is forgotten at the end.
FinishSettlesUnresolved ==
  /\ mode = "finishing"
  /\ posted = position
  /\ IF position = 0
       THEN mode' = "clean" /\ UNCHANGED poisoned
       ELSE mode' = "failed" /\ poisoned' = TRUE
  /\ UNCHANGED <<order, status, filled, known, management, position, call, tx,
                 kiteVars>>

FinishSettles ==
  /\ mode = "finishing"
  /\ ~HasUnresolved
  /\ posted = position
  /\ IF position = 0
       THEN mode' = "clean" /\ UNCHANGED poisoned
       ELSE mode' = "failed" /\ poisoned' = TRUE
  /\ UNCHANGED <<order, status, filled, known, management, position,
                 call, tx, kiteVars>>

FinishGivesUp ==
  /\ mode = "finishing"
  /\ mode' = "failed"
  /\ poisoned' = TRUE
  /\ UNCHANGED <<order, status, filled, known, management, position,
                 call, tx, kiteVars>>

-----------------------------------------------------------------------------
(* Kite and the exchange (external). *)

KiteMoves(o, p) ==
  /\ phase' = [phase EXCEPT ![o] = p]
  /\ UNCHANGED <<exFilled, net, bookPhase, bookFilled, tradeBook, posted,
                 dispatcherVars>>

\* The request arrives and is taken or refused, or never arrives.
KiteReceives(o) ==
  /\ phase[o] = "sent"
  /\ \E p \in {"pending", "refused", "lost"} : KiteMoves(o, p)

KiteOpens(o) == phase[o] = "pending" /\ KiteMoves(o, "open")
KiteRejects(o) == phase[o] = "pending" /\ KiteMoves(o, "rejected")
\* On request, by the exchange or at the end of the day.
KiteCancels(o) == phase[o] = "open" /\ KiteMoves(o, "cancelled")

KiteFills(o) ==
  /\ phase[o] = "open"
  /\ exFilled' = [exFilled EXCEPT ![o] = @ + 1]
  /\ net' = net + Signed(order[o].side, 1)
  /\ phase' = [phase EXCEPT ![o] = IF exFilled[o] + 1 = order[o].qty
                                     THEN "complete" ELSE "open"]
  /\ UNCHANGED <<bookPhase, bookFilled, tradeBook, posted, dispatcherVars>>

\* What reads return catches up with the truth, each view in its own time, for
\* as long as the dispatcher may read it again.
StillRead == mode \in {"trading", "finishing"} /\ (poisoned => ~Idle)

OrderBookCatchesUp(o) ==
  /\ StillRead
  /\ phase[o] \in BookPhases
  /\ <<bookPhase[o], bookFilled[o]>> # <<phase[o], exFilled[o]>>
  /\ bookPhase' = [bookPhase EXCEPT ![o] = phase[o]]
  /\ bookFilled' = [bookFilled EXCEPT ![o] = exFilled[o]]
  /\ UNCHANGED <<phase, exFilled, net, tradeBook, posted, dispatcherVars>>

TradeBookCatchesUp(o) ==
  /\ StillRead
  /\ tradeBook[o] # exFilled[o]
  /\ tradeBook' = [tradeBook EXCEPT ![o] = exFilled[o]]
  /\ UNCHANGED <<phase, exFilled, net, bookPhase, bookFilled, posted,
                 dispatcherVars>>

PositionsCatchUp ==
  /\ StillRead
  /\ posted # net
  /\ posted' = net
  /\ UNCHANGED <<phase, exFilled, net, bookPhase, bookFilled, tradeBook,
                 dispatcherVars>>

Kite ==
  \/ \E o \in Orders :
       \/ KiteReceives(o)
       \/ KiteOpens(o)
       \/ KiteRejects(o)
       \/ KiteCancels(o)
       \/ KiteFills(o)
       \/ OrderBookCatchesUp(o)
       \/ TradeBookCatchesUp(o)
  \/ PositionsCatchUp

-----------------------------------------------------------------------------
Answer(o) ==
  \/ PlaceAcknowledged(o)
  \/ PlaceRejected(o)
  \/ PlaceStopped(o)
  \/ PlaceUnknown(o)
  \/ \E outcome \in {"Acknowledged", "Rejected", "Unknown"} :
       CancelAnswered(o, outcome)
  \/ CancelStopped(o)

Submit(o) ==
  Takes(o) /\ \E s \in OrderSpecs, seen \in -MaxLots..MaxLots, ready, budget \in BOOLEAN :
    \/ Deny(o, s, seen, ready, budget)
    \/ Place(o, s, seen, ready, budget)

Next ==
  \/ \E o \in Orders : Submit(o) \/ Answer(o) \/ Cancel(o) \/ Refresh(o)
  \/ Abort
  \/ Fault
  \/ \E failed \in BOOLEAN : FinishStarts(failed)
  \/ FinishSettles
  \/ FinishGivesUp
  \/ Kite

Spec == Init /\ [][Next]_vars

-----------------------------------------------------------------------------
(* Properties *)

\* Every variable stays in its type.
TypeOK ==
  /\ order \in [Orders -> OrderSpecs]
  /\ status \in [Orders -> Statuses]
  /\ filled \in [Orders -> Nat]
  /\ known \in [Orders -> BOOLEAN]
  /\ management \in
       [Orders -> {"None", "Dispatching", "Acknowledged", "Rejected", "Unknown"}]
  /\ poisoned \in BOOLEAN
  /\ position \in Int
  /\ call \in {<<>>} \cup ({"place", "cancel"} \X Orders)
  /\ tx \in Seq(Events)
  /\ mode \in {"trading", "finishing", "clean", "failed"}
  /\ phase \in [Orders -> Phases]
  /\ exFilled \in [Orders -> Nat]
  /\ net \in Int
  /\ bookPhase \in [Orders -> BookPhases]
  /\ bookFilled \in [Orders -> Nat]
  /\ tradeBook \in [Orders -> Nat]
  /\ posted \in Int

LiveAtKite(o) == phase[o] \in LivePhases
Remaining(o) == order[o].qty - exFilled[o]

\* However late, lost or wrong the answers and the reads are, Kite never works
\* two orders of this run at once ("a resting protective stop and an exit, or
\* two entries, could otherwise both fill", dispatch.rs admit).
OneLiveOrder ==
  \A o, p \in Orders : LiveAtKite(o) /\ LiveAtKite(p) => o = p

\* The account's real position stays in the cap, and would stay in it if all
\* that is still working at the exchange traded in full (dispatch.rs: "the cap
\* applies to the position before and after the order").
ExposureWithinCap ==
  /\ InCap(net)
  /\ \A o \in Orders :
       LiveAtKite(o) => InCap(net + Signed(order[o].side, Remaining(o)))

\* Kite knows no reduce-only flag: a trade of a reduce-only order must bring the
\* real position closer to zero and never through it.
ReduceOnlyReduces ==
  [][\A o \in Orders :
       exFilled'[o] # exFilled[o] /\ order[o].reduce
         => (0 <= net' /\ net' < net) \/ (net < net' /\ net' <= 0)]_vars

\* The dispatcher only knows what happened: it never has more fills than were
\* traded, and an order it holds closed is over at Kite with all its fills
\* counted (an unanswered order is never resolved by guessing).
RecordsTellTheTruth ==
  \A o \in Orders :
    /\ filled[o] <= exFilled[o]
    /\ status[o] \in ClosedStatuses \cup {"Denied"} =>
         ~LiveAtKite(o) /\ filled[o] = exFilled[o]

\* With nothing unresolved, the position the dispatcher admits orders against
\* is the account's real one.
PositionSettled == ~HasUnresolved => position = net

\* Where the history t tells of order o, and where of something of that type.
Told(t, o) == {i \in DOMAIN t : t[i].id = o}
ToldAs(t, o, type) == {i \in Told(t, o) : t[i].type = type}

\* The history t as it may be of an order with that status and so many fills.
Lawful(t, o, is, fills) ==
  /\ is = "None" <=> Told(t, o) = {}
  /\ is = "Denied" => \A i, j \in Told(t, o) : i = j /\ t[i].type = "Denied"
  /\ Cardinality(ToldAs(t, o, "Filled")) = fills
  /\ \A i, j \in ToldAs(t, o, "Accepted") : i = j
  /\ \A i \in Told(t, o) :
       /\ t[i].type = "Submitted" <=> is # "Denied" /\ \A j \in Told(t, o) : i <= j
       /\ t[i].type = "Filled" => \E j \in ToldAs(t, o, "Accepted") : j < i
       /\ t[i].type \in {"Canceled", "Rejected"} =>
            \A j \in Told(t, o) : j > i => t[j].type = "CancelRejected"

\* The engine is told a lawful story of every order: Submitted first, Accepted
\* once before any fill, as many fills as the record has, at most one ending,
\* nothing after it but the late answer to a cancel; a denied order is told
\* nothing else.
EventsLawful == \A o \in Orders : Lawful(tx, o, status[o], filled[o])

\* A run that ends "clean" left nothing behind: no position, and no order that
\* could still trade (dispatch.rs finish, "must equal the owned fills and be
\* flat").
CleanStopIsFlat ==
  mode = "clean" => net = 0 /\ \A o \in Orders : ~LiveAtKite(o)

-----------------------------------------------------------------------------
(* The inductive invariant behind the state properties. *)

\* What is at Kite, what the views show of it and what the record has taken
\* from the views, in that order.
Trailing(o) ==
  /\ filled[o] <= tradeBook[o] /\ tradeBook[o] <= exFilled[o]
  /\ exFilled[o] <= order[o].qty
  /\ phase[o] = "open" => exFilled[o] < order[o].qty
  /\ phase[o] \notin {"open", "complete", "cancelled"} => exFilled[o] = 0
  /\ bookPhase[o] \in {"complete", "cancelled", "rejected"} =>
       bookPhase[o] = phase[o] /\ bookFilled[o] = exFilled[o]

\* A closed record holds the end that the order book shows, for good.
Ended(o) ==
  /\ status[o] = "Filled" => bookPhase[o] = "complete"
  /\ status[o] = "Canceled" => bookPhase[o] = "cancelled"
  /\ status[o] = "Rejected" =>
       \/ bookPhase[o] = "rejected"
       \/ phase[o] = "refused" /\ bookPhase[o] = "none"
  /\ status[o] \in ClosedStatuses => filled[o] = exFilled[o]

Begun(o) ==
  /\ status[o] \in {"None", "Denied"} => phase[o] = "none"
  /\ LiveAtKite(o) => Unresolved(o)
  /\ bookPhase[o] # "none" => phase[o] \in BookPhases \ {"none"}
  /\ call = <<"place", o>> => status[o] = "Submitted"

\* The position from which an unresolved order was admitted.
Base(o) == position - Signed(order[o].side, filled[o])

\* Fills the dispatcher has not seen yet are all that parts its position from
\* the real one.
Unseen(o) ==
  Unresolved(o) =>
    /\ position + Signed(order[o].side, exFilled[o] - filled[o]) = net
    /\ InCap(Base(o)) /\ InCap(Base(o) + Signed(order[o].side, order[o].qty))
    /\ ExposureRule(order[o], Base(o))

OneUnresolved ==
  \A o, p \in Orders : Unresolved(o) /\ Unresolved(p) => o = p

CleanIsSettled == mode = "clean" => position = 0 /\ ~HasUnresolved

IInv ==
  /\ TypeOK
  /\ \A o \in Orders : Trailing(o) /\ Ended(o) /\ Begun(o) /\ Unseen(o)
  /\ OneUnresolved
  /\ PositionSettled
  /\ InCap(position)
  /\ CleanIsSettled

\* What an order's status says of its history, and so of what may come next.
Foretells(t, o, is) ==
  /\ is = "Submitted" => ToldAs(t, o, "Accepted") = {}
  /\ is \in {"Accepted", "PartiallyFilled"} => ToldAs(t, o, "Accepted") # {}
  /\ is \notin {"Canceled", "Rejected"} =>
       ToldAs(t, o, "Canceled") = {} /\ ToldAs(t, o, "Rejected") = {}

StoryInv ==
  /\ EventsLawful
  /\ \A o \in Orders :
       /\ Foretells(tx, o, status[o])
       /\ call = <<"cancel", o>> => HasRecord(o)

\* The dispatcher and Kite together implement the one-order account.
Working(o) == [side |-> order[o].side, qty |-> Remaining(o), reduce |-> order[o].reduce]
Account == INSTANCE OneOrderAccount
  WITH open <- {Working(o) : o \in {p \in Orders : LiveAtKite(p)}}
ImplementsAccount == Account!Spec
=============================================================================
