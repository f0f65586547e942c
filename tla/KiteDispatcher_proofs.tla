------------------------ MODULE KiteDispatcher_proofs ------------------------
(***************************************************************************)
(* Proofs about KiteDispatcher for any set of orders and any contract cap: *)
(* type correctness, the inductive invariant, the safety properties that   *)
(* follow from it, that the dispatcher implements OneOrderAccount, and     *)
(* that the engine is told a lawful story of every order.                  *)
(***************************************************************************)
EXTENDS KiteDispatcher, FiniteSetTheorems, TLAPS

USE MaxLotsAssumption

-----------------------------------------------------------------------------
(* Type correctness *)

\* The events of one reconciliation are a sequence of events.
LEMMA NewEventsTyped ==
  ASSUME TypeOK, NEW o \in Orders, ~Lagging(o), ~Regressed(o), Visible(o)
  PROVE  NewEvents(o) \in Seq(Events)
<1>1. /\ ObservedStatus(o) \in Statuses
      /\ Event(o, "Accepted") \in Events /\ Event(o, "Filled") \in Events
  BY DEF TypeOK, ObservedStatus, Statuses, Event, Events
<1>2. Event(o, ObservedStatus(o)) \in Events
  BY <1>1 DEF Event, Events
<1>3. AcceptedEvents(o) \in Seq(Events)
  BY <1>1 DEF AcceptedEvents
<1>4. TerminalEvents(o) \in Seq(Events)
  BY <1>2 DEF TerminalEvents
<1>5. tradeBook[o] - filled[o] \in Nat
  BY DEF TypeOK, Regressed
<1>6. FillEvents(o) \in Seq(Events)
  BY <1>1, <1>5 DEF FillEvents
<1>7. QED
  BY <1>3, <1>4, <1>6 DEF NewEvents

\* Every step keeps every variable in its type.
LEMMA TypeStep == TypeOK /\ [Next]_vars => TypeOK'
<1> SUFFICES ASSUME TypeOK, [Next]_vars PROVE TypeOK'
  OBVIOUS
<1> USE DEF TypeOK
<1>1. ASSUME NEW o \in Orders, Submit(o) PROVE TypeOK'
  <2>1. PICK s \in OrderSpecs, seen \in -MaxLots..MaxLots,
             ready \in BOOLEAN, budget \in BOOLEAN :
          Deny(o, s, seen, ready, budget) \/ Place(o, s, seen, ready, budget)
    BY <1>1 DEF Submit
  <2>2. Event(o, "Denied") \in Events /\ Event(o, "Submitted") \in Events
    BY DEF Event, Events, Statuses
  <2>3. CASE Deny(o, s, seen, ready, budget)
    BY <2>2, <2>3 DEF Deny, Statuses, kiteVars
  <2>4. CASE Place(o, s, seen, ready, budget)
    BY <2>2, <2>4 DEF Place, Statuses, Phases
  <2>5. QED BY <2>1, <2>3, <2>4
<1>2. ASSUME NEW o \in Orders, Answer(o) PROVE TypeOK'
  <2>1. Event(o, "Rejected") \in Events /\ Event(o, "CancelRejected") \in Events
    BY DEF Event, Events, Statuses
  <2>2. CASE PlaceAcknowledged(o)
    BY <2>2 DEF PlaceAcknowledged, kiteVars
  <2>3. CASE PlaceRejected(o)
    <3>1. tx' \in Seq(Events)
      BY <2>1, <2>3 DEF PlaceRejected
    <3>2. status' \in [Orders -> Statuses]
      BY <2>3 DEF PlaceRejected, Statuses
    <3>3. QED BY <2>3, <3>1, <3>2 DEF PlaceRejected, kiteVars
  <2>4. CASE PlaceStopped(o)
    BY <2>4 DEF PlaceStopped, kiteVars
  <2>5. CASE PlaceUnknown(o)
    BY <2>5 DEF PlaceUnknown, kiteVars
  <2>6. ASSUME NEW outcome \in {"Acknowledged", "Rejected", "Unknown"},
               CancelAnswered(o, outcome)
        PROVE  TypeOK'
    <3>1. tx' \in Seq(Events)
      BY <2>1, <2>6 DEF CancelAnswered
    <3>2. management' \in [Orders ->
            {"None", "Dispatching", "Acknowledged", "Rejected", "Unknown"}]
      BY <2>6 DEF CancelAnswered
    <3>3. QED BY <2>6, <3>1, <3>2 DEF CancelAnswered, kiteVars
  <2>7. CASE CancelStopped(o)
    BY <2>7 DEF CancelStopped, kiteVars
  <2>8. QED BY <1>2, <2>2, <2>3, <2>4, <2>5, <2>6, <2>7 DEF Answer
<1>3. ASSUME NEW o \in Orders, Cancel(o) PROVE TypeOK'
  BY <1>3 DEF Cancel, kiteVars
<1>4. ASSUME NEW o \in Orders, Refresh(o) PROVE TypeOK'
  <2>1. Visible(o) /\ ~Lagging(o) /\ ~Regressed(o)
    BY <1>4 DEF Refresh, News
  <2>2. NewEvents(o) \in Seq(Events)
    BY <2>1, NewEventsTyped
  <2>3. ObservedStatus(o) \in Statuses
    BY DEF ObservedStatus, Statuses
  <2>4. OwnedAfter(o) \in Int
    BY DEF OwnedAfter, Signed
  <2>5. QED BY <1>4, <2>2, <2>3, <2>4 DEF Refresh, kiteVars
<1>5. CASE Abort BY <1>5 DEF Abort, kiteVars
<1>6. CASE Fault BY <1>6 DEF Fault, kiteVars
<1>7. ASSUME NEW failed \in BOOLEAN, FinishStarts(failed) PROVE TypeOK'
  BY <1>7 DEF FinishStarts, kiteVars
<1>8. CASE FinishSettles BY <1>8 DEF FinishSettles, kiteVars
<1>9. CASE FinishGivesUp BY <1>9 DEF FinishGivesUp, kiteVars
<1>10. CASE Kite
  <2>1. ASSUME NEW o \in Orders, NEW p \in Phases, KiteMoves(o, p) PROVE TypeOK'
    BY <2>1 DEF KiteMoves, dispatcherVars
  <2>2. ASSUME NEW o \in Orders,
               KiteReceives(o) \/ KiteOpens(o) \/ KiteRejects(o) \/ KiteCancels(o)
        PROVE  TypeOK'
    BY <2>1, <2>2 DEF KiteReceives, KiteOpens, KiteRejects, KiteCancels, Phases
  <2>3. ASSUME NEW o \in Orders, KiteFills(o) PROVE TypeOK'
    BY <2>3 DEF KiteFills, dispatcherVars, Signed, Phases
  <2>4. ASSUME NEW o \in Orders, OrderBookCatchesUp(o) PROVE TypeOK'
    BY <2>4 DEF OrderBookCatchesUp, dispatcherVars
  <2>5. ASSUME NEW o \in Orders, TradeBookCatchesUp(o) PROVE TypeOK'
    BY <2>5 DEF TradeBookCatchesUp, dispatcherVars
  <2>6. CASE PositionsCatchUp
    BY <2>6 DEF PositionsCatchUp, dispatcherVars
  <2>7. QED BY <1>10, <2>2, <2>3, <2>4, <2>5, <2>6 DEF Kite
<1>11. CASE UNCHANGED vars BY <1>11 DEF vars
<1>12. QED
  BY <1>1, <1>2, <1>3, <1>4, <1>5, <1>6, <1>7, <1>8, <1>9, <1>10, <1>11 DEF Next

\* The account the client connects to is well typed.
LEMMA TypeInit == Init => TypeOK
<1> SUFFICES ASSUME Init PROVE TypeOK
  OBVIOUS
<1>1. NoOrder \in OrderSpecs
  BY DEF NoOrder, OrderSpecs, Sides
<1>2. tx \in Seq(Events)
  BY DEF Init
<1>3. order \in [Orders -> OrderSpecs]
  BY <1>1 DEF Init
<1>4. /\ status \in [Orders -> Statuses] /\ phase \in [Orders -> Phases]
      /\ bookPhase \in [Orders -> BookPhases]
  BY DEF Init, Statuses, Phases, BookPhases
<1>5. /\ filled \in [Orders -> Nat] /\ exFilled \in [Orders -> Nat]
      /\ bookFilled \in [Orders -> Nat] /\ tradeBook \in [Orders -> Nat]
  BY DEF Init
<1>6. known \in [Orders -> BOOLEAN] /\ poisoned \in BOOLEAN
  BY DEF Init
<1>7. QED BY <1>2, <1>3, <1>4, <1>5, <1>6 DEF Init, TypeOK

\* Every reachable state is well typed.
THEOREM TypeCorrect == Spec => []TypeOK
BY TypeInit, TypeStep, PTL DEF Spec

-----------------------------------------------------------------------------
(* The inductive invariant *)

\* No lots change no position.
LEMMA SignedZero == ASSUME NEW side PROVE Signed(side, 0) = 0
<1>1. \A n \in Int : 0 - n = -n
  OBVIOUS
<1>2. 0 - 0 = -0
  BY <1>1, 0 \in Int, Zenon
<1>3. -0 = 0
  <2>1. 0 - 0 = 0 OBVIOUS
  <2>2. QED BY <1>2, <2>1, Zenon
<1>4. QED BY <1>3, Zenon DEF Signed

coreVars == <<order, status, filled, position, phase, exFilled, net, bookPhase,
              bookFilled, tradeBook>>

\* A step that moves nothing but flags, the call and the views of positions
\* keeps the invariant, provided it starts no place call and a verdict of
\* "clean" is justified.
LEMMA QuietStep ==
  ASSUME IInv, TypeOK', UNCHANGED coreVars,
         \A o \in Orders : call' = <<"place", o>> => call = <<"place", o>>,
         CleanIsSettled'
  PROVE  IInv'
<1>1. \A o \in Orders : Trailing(o)' /\ Ended(o)' /\ Begun(o)' /\ Unseen(o)'
  <2> SUFFICES ASSUME NEW o \in Orders
               PROVE  Trailing(o)' /\ Ended(o)' /\ Begun(o)' /\ Unseen(o)'
    OBVIOUS
  <2>1. Trailing(o) /\ Ended(o) /\ Begun(o) /\ Unseen(o)
    BY DEF IInv
  <2>2. Trailing(o)' BY <2>1 DEF Trailing, coreVars
  <2>3. Ended(o)' BY <2>1 DEF Ended, coreVars
  <2>4. Begun(o)' BY <2>1 DEF Begun, LiveAtKite, Unresolved, coreVars
  <2>5. Unseen(o)'
    BY <2>1 DEF Unseen, Unresolved, InCap, ExposureRule, Opposing, Held, Base,
                Signed, coreVars
  <2>6. QED BY <2>2, <2>3, <2>4, <2>5
<1>2. OneUnresolved' /\ PositionSettled' /\ InCap(position)'
  BY DEF IInv, OneUnresolved, PositionSettled, HasUnresolved, Unresolved, InCap,
         coreVars
<1>3. QED BY <1>1, <1>2 DEF IInv

\* Flags alone do not touch the verdict either.
LEMMA FlagStep ==
  ASSUME IInv, TypeOK', UNCHANGED coreVars, UNCHANGED mode,
         \A o \in Orders : call' = <<"place", o>> => call = <<"place", o>>
  PROVE  IInv'
<1>1. CleanIsSettled'
  BY DEF IInv, CleanIsSettled, HasUnresolved, Unresolved, coreVars
<1>2. QED BY <1>1, QuietStep

\* A refusal closes an order that was never sent.
LEMMA DenyStep ==
  ASSUME IInv, TypeOK', NEW o \in Orders,
         NEW s \in OrderSpecs, NEW seen \in -MaxLots..MaxLots,
         NEW ready \in BOOLEAN, NEW budget \in BOOLEAN,
         Deny(o, s, seen, ready, budget)
  PROVE  IInv'
<1> USE DEF Deny, Takes
<1>1. \A p \in Orders : Unresolved(p)' <=> Unresolved(p)
  BY DEF IInv, TypeOK, Unresolved, UnresolvedStatuses
<1>2. ASSUME NEW p \in Orders
      PROVE  Trailing(p)' /\ Ended(p)' /\ Begun(p)' /\ Unseen(p)'
  <2>1. Trailing(p) /\ Ended(p) /\ Begun(p) /\ Unseen(p)
    BY DEF IInv
  <2>2. Trailing(p)' BY <2>1 DEF Trailing, kiteVars
  <2>3. Ended(p)'
    BY <2>1 DEF IInv, TypeOK, Ended, ClosedStatuses, kiteVars
  <2>4. Begun(p)'
    BY <2>1, <1>1 DEF IInv, TypeOK, Begun, LiveAtKite, Idle, kiteVars
  <2>5. Unseen(p)'
    BY <2>1, <1>1 DEF Unseen, InCap, ExposureRule, Opposing, Held, Base, Signed,
                      kiteVars
  <2>6. QED BY <2>2, <2>3, <2>4, <2>5
<1>3. OneUnresolved' BY <1>1 DEF IInv, OneUnresolved
<1>4. PositionSettled' /\ InCap(position)' /\ CleanIsSettled'
  BY <1>1 DEF IInv, PositionSettled, HasUnresolved, InCap, CleanIsSettled, kiteVars
<1>5. QED BY <1>2, <1>3, <1>4 DEF IInv

\* An admitted order is the only unresolved one, and its base is the position.
LEMMA PlaceStep ==
  ASSUME IInv, TypeOK', NEW o \in Orders,
         NEW s \in OrderSpecs, NEW seen \in -MaxLots..MaxLots,
         NEW ready \in BOOLEAN, NEW budget \in BOOLEAN,
         Place(o, s, seen, ready, budget)
  PROVE  IInv'
<1> USE DEF Place, Takes, Admitted
<1>1. \A p \in Orders : ~Unresolved(p) /\ (Unresolved(p)' <=> p = o)
  BY DEF IInv, TypeOK, HasUnresolved, Unresolved, UnresolvedStatuses
<1>2. position = net /\ position' = position
  BY DEF IInv, PositionSettled
<1>3. filled[o] = 0 /\ exFilled[o] = 0 /\ phase[o] = "none" /\ bookPhase[o] = "none"
      /\ tradeBook[o] = 0
  <2>1. Trailing(o) /\ Begun(o) /\ TypeOK BY DEF IInv
  <2>2. phase[o] = "none" BY <2>1 DEF Begun
  <2>3. bookPhase[o] = "none" BY <2>1, <2>2 DEF Begun
  <2>4. exFilled[o] = 0 BY <2>1, <2>2 DEF Trailing
  <2>5. filled[o] \in Nat /\ tradeBook[o] \in Nat BY <2>1 DEF TypeOK
  <2>6. filled[o] <= tradeBook[o] /\ tradeBook[o] <= 0 BY <2>1, <2>4 DEF Trailing
  <2>7. QED BY <2>2, <2>3, <2>4, <2>5, <2>6
<1>4. ASSUME NEW p \in Orders
      PROVE  Trailing(p)' /\ Ended(p)' /\ Begun(p)' /\ Unseen(p)'
  <2>1. Trailing(p) /\ Ended(p) /\ Begun(p) /\ Unseen(p)
    BY DEF IInv
  <2>2. Trailing(p)'
    BY <2>1, <1>3 DEF IInv, TypeOK, Trailing, OrderSpecs
  <2>3. Ended(p)'
    BY <2>1 DEF IInv, TypeOK, Ended, ClosedStatuses
  <2>4. Begun(p)'
    BY <2>1, <1>1, <1>3 DEF IInv, TypeOK, Begun, LiveAtKite, LivePhases, Idle, BookPhases
  <2>5. Unseen(p)'
    <3>1. CASE p # o BY <3>1, <1>1 DEF Unseen
    <3>2. CASE p = o
      <4>1. order'[o] = s /\ filled'[o] = 0 /\ exFilled'[o] = 0 /\ net' = net
        BY <1>3 DEF IInv, TypeOK
      <4>2. Signed(s.side, 0) = 0
        BY SignedZero
      <4>3. Base(o)' = position /\ position \in Int
        BY <4>1, <4>2, <1>2 DEF Base, IInv, TypeOK
      <4>4. seen = position /\ InCap(seen) /\ InCap(seen + Signed(s.side, s.qty))
            /\ ExposureRule(s, seen)
        OBVIOUS
      <4>5. (position + Signed(order[o].side, exFilled[o] - filled[o]) = net)'
        BY <4>1, <4>2, <1>2, <4>3
      <4>6. QED BY <3>2, <4>1, <4>3, <4>4, <4>5 DEF Unseen
    <3>3. QED BY <3>1, <3>2
  <2>6. QED BY <2>2, <2>3, <2>4, <2>5
<1>5. OneUnresolved' BY <1>1 DEF OneUnresolved
<1>6. PositionSettled' /\ InCap(position)' /\ CleanIsSettled'
  BY <1>1, <1>2 DEF IInv, PositionSettled, HasUnresolved, InCap, CleanIsSettled
<1>7. QED BY <1>4, <1>5, <1>6 DEF IInv

\* A refused order had no fills, so closing it leaves the position the real one.
LEMMA PlaceRejectedStep ==
  ASSUME IInv, TypeOK', NEW o \in Orders, PlaceRejected(o)
  PROVE  IInv'
<1> USE DEF PlaceRejected
<1>1. /\ Unresolved(o) /\ \A p \in Orders : Unresolved(p) => p = o
      /\ \A p \in Orders : ~Unresolved(p)'
  BY DEF IInv, TypeOK, Begun, OneUnresolved, Unresolved, UnresolvedStatuses
<1>2. filled[o] = 0 /\ exFilled[o] = 0 /\ bookPhase[o] = "none"
  <2>1. Trailing(o) /\ Begun(o) /\ TypeOK BY DEF IInv
  <2>2. bookPhase[o] = "none" BY <2>1 DEF Begun, BookPhases
  <2>3. exFilled[o] = 0 BY <2>1 DEF Trailing
  <2>4. filled[o] \in Nat /\ tradeBook[o] \in Nat BY <2>1 DEF TypeOK
  <2>5. filled[o] <= tradeBook[o] /\ tradeBook[o] <= 0 BY <2>1, <2>3 DEF Trailing
  <2>6. QED BY <2>2, <2>3, <2>4, <2>5
<1>3. position = net
  <2>1. position + Signed(order[o].side, exFilled[o] - filled[o]) = net
    BY <1>1 DEF IInv, Unseen
  <2>2. exFilled[o] - filled[o] = 0 BY <1>2
  <2>3. QED BY <2>1, <2>2, SignedZero DEF IInv, TypeOK
<1>4. ASSUME NEW p \in Orders
      PROVE  Trailing(p)' /\ Ended(p)' /\ Begun(p)' /\ Unseen(p)'
  <2>1. Trailing(p) /\ Ended(p) /\ Begun(p) /\ Unseen(p)
    BY DEF IInv
  <2>2. Trailing(p)' BY <2>1 DEF Trailing, kiteVars
  <2>3. Ended(p)'
    BY <2>1, <1>2 DEF IInv, TypeOK, Ended, ClosedStatuses, kiteVars
  <2>4. Begun(p)'
    BY <2>1, <1>1 DEF IInv, TypeOK, Begun, LiveAtKite, LivePhases, kiteVars
  <2>5. Unseen(p)' BY <1>1 DEF Unseen
  <2>6. QED BY <2>2, <2>3, <2>4, <2>5
<1>5. OneUnresolved' BY <1>1 DEF OneUnresolved
<1>6. PositionSettled' /\ InCap(position)' /\ CleanIsSettled'
  BY <1>1, <1>3 DEF IInv, PositionSettled, HasUnresolved, InCap, CleanIsSettled, kiteVars
<1>7. QED BY <1>4, <1>5, <1>6 DEF IInv

\* A closed record has no news but Kite's order id.
LEMMA ClosedHasNoNews ==
  ASSUME IInv, NEW o \in Orders, Visible(o), ~Regressed(o),
         status[o] \in ClosedStatuses
  PROVE  tradeBook[o] = filled[o] /\ ObservedStatus(o) = status[o]
<1>1. Trailing(o) /\ Ended(o) /\ TypeOK
  BY DEF IInv
<1>2. filled[o] \in Nat /\ exFilled[o] \in Nat /\ tradeBook[o] \in Nat
  BY <1>1 DEF TypeOK
<1>3. filled[o] = exFilled[o] BY <1>1 DEF Ended
<1>4. tradeBook[o] = filled[o] BY <1>1, <1>2, <1>3 DEF Trailing
<1>5. ObservedStatus(o) = status[o]
  BY <1>1 DEF Ended, ObservedStatus, ClosedStatuses, Visible
<1>6. QED BY <1>4, <1>5

\* What an unresolved order becomes: still unresolved, or closed with every
\* trade it will ever have.
LEMMA ObservedIsTrue ==
  ASSUME IInv, NEW o \in Orders, Visible(o), ~Lagging(o), Unresolved(o)
  PROVE  \/ ObservedStatus(o) \in UnresolvedStatuses
         \/ /\ ObservedStatus(o) \in ClosedStatuses
            /\ tradeBook[o] = exFilled[o]
            /\ ~LiveAtKite(o)
            /\ ObservedStatus(o) = "Filled" => bookPhase[o] = "complete"
            /\ ObservedStatus(o) = "Canceled" => bookPhase[o] = "cancelled"
            /\ ObservedStatus(o) = "Rejected" => bookPhase[o] = "rejected"
<1>1. Trailing(o) /\ TypeOK BY DEF IInv
<1>2. tradeBook[o] = bookFilled[o] BY DEF Lagging
<1>3. CASE bookPhase[o] \in {"complete", "cancelled", "rejected"}
  BY <1>1, <1>2, <1>3 DEF Trailing, ObservedStatus, ClosedStatuses, LiveAtKite, LivePhases
<1>4. CASE bookPhase[o] \notin {"complete", "cancelled", "rejected"}
  <2>1. CASE bookPhase[o] = "open"
    BY <2>1 DEF ObservedStatus, UnresolvedStatuses
  <2>2. CASE bookPhase[o] # "open"
    <3>1. ObservedStatus(o) = status[o]
      BY <1>4, <2>2 DEF ObservedStatus
    <3>2. QED BY <3>1 DEF Unresolved
  <2>3. QED BY <2>1, <2>2
<1>5. QED BY <1>3, <1>4

\* A reconciliation moves the fills it saw from "unseen" to the position.
LEMMA RefreshStep ==
  ASSUME IInv, TypeOK', NEW o \in Orders, Refresh(o)
  PROVE  IInv'
<1> USE DEF Refresh
<1>1. /\ Visible(o) /\ ~Lagging(o) /\ ~Regressed(o) /\ TypeOK
      /\ filled[o] <= tradeBook[o]
      /\ filled[o] \in Nat /\ exFilled[o] \in Nat /\ tradeBook[o] \in Nat
      /\ position \in Int /\ net \in Int
      /\ Trailing(o) /\ Ended(o) /\ Begun(o) /\ Unseen(o)
  <2>1. TypeOK /\ Trailing(o) /\ Ended(o) /\ Begun(o) /\ Unseen(o)
    BY DEF IInv
  <2>2. Visible(o) /\ ~Lagging(o) /\ ~Regressed(o)
    BY DEF News
  <2>3. QED BY <2>1, <2>2 DEF TypeOK, Trailing
<1>2. /\ \A p \in Orders \ {o} : status'[p] = status[p] /\ filled'[p] = filled[p]
      /\ status'[o] = ObservedStatus(o) /\ filled'[o] = tradeBook[o]
  BY <1>1 DEF TypeOK
<1>3. CASE status[o] \in ClosedStatuses
  <2>1. tradeBook[o] = filled[o] /\ ObservedStatus(o) = status[o]
    BY <1>1, <1>3, ClosedHasNoNews
  <2>2. status' = status /\ filled' = filled
    BY <1>1, <1>2, <2>1 DEF TypeOK
  <2>3. position' = position
    <3>1. tradeBook[o] - filled[o] = 0 BY <1>1, <2>1
    <3>2. QED BY <1>1, <3>1, SignedZero DEF OwnedAfter
  <2>4. UNCHANGED coreVars BY <2>2, <2>3 DEF coreVars, kiteVars
  <2>5. QED BY <2>4, FlagStep
<1>4. CASE Unresolved(o)
  <2>1. \A p \in Orders \ {o} : ~Unresolved(p) /\ ~Unresolved(p)'
    BY <1>2, <1>4 DEF IInv, OneUnresolved, Unresolved
  <2>2. \/ ObservedStatus(o) \in UnresolvedStatuses
        \/ /\ ObservedStatus(o) \in ClosedStatuses
           /\ tradeBook[o] = exFilled[o]
           /\ ~LiveAtKite(o)
           /\ ObservedStatus(o) = "Filled" => bookPhase[o] = "complete"
           /\ ObservedStatus(o) = "Canceled" => bookPhase[o] = "cancelled"
           /\ ObservedStatus(o) = "Rejected" => bookPhase[o] = "rejected"
    BY <1>1, <1>4, ObservedIsTrue
  <2>3. /\ position' = position + Signed(order[o].side, tradeBook[o] - filled[o])
        /\ position' + Signed(order[o].side, exFilled[o] - tradeBook[o]) = net
        /\ position' - Signed(order[o].side, tradeBook[o]) = Base(o)
    <3>1. position' = position + Signed(order[o].side, tradeBook[o] - filled[o])
      BY DEF OwnedAfter
    <3>2. position + Signed(order[o].side, exFilled[o] - filled[o]) = net
      BY <1>1, <1>4 DEF Unseen
    <3> HIDE DEF Refresh
    <3>3. CASE order[o].side = "BUY"
      BY <1>1, <3>1, <3>2, <3>3 DEF Signed, Base
    <3>4. CASE order[o].side # "BUY"
      <4>1. position' = position - (tradeBook[o] - filled[o])
        BY <1>1, <3>1, <3>4 DEF Signed
      <4>2. net = position - (exFilled[o] - filled[o])
        BY <1>1, <3>2, <3>4 DEF Signed
      <4>3. /\ position' \in Int /\ position \in Int /\ net \in Int
            /\ filled[o] \in Int /\ tradeBook[o] \in Int /\ exFilled[o] \in Int
        <5>1. position' \in Int BY DEF TypeOK
        <5>2. QED BY <1>1, <5>1
      <4>4. /\ position' + (-(exFilled[o] - tradeBook[o])) = net
            /\ position' - (-tradeBook[o]) = position - (-filled[o])
        BY <4>1, <4>2, <4>3
      <4>5. QED BY <3>1, <3>4, <4>4 DEF Signed, Base
    <3>5. QED BY <3>3, <3>4
  <2>4. tradeBook[o] = exFilled[o] => position' = net
    <3>1. SUFFICES ASSUME tradeBook[o] = exFilled[o] PROVE position' = net
      OBVIOUS
    <3>2. exFilled[o] - tradeBook[o] = 0 BY <1>1, <3>1
    <3>3. position' \in Int BY DEF TypeOK
    <3>4. QED BY <2>3, <3>2, <3>3, SignedZero
  <2>5. ASSUME NEW p \in Orders
        PROVE  Trailing(p)' /\ Ended(p)' /\ Begun(p)' /\ Unseen(p)'
    <3>1. Trailing(p) /\ Ended(p) /\ Begun(p) /\ Unseen(p)
      BY DEF IInv
    <3>2. Trailing(p)'
      BY <3>1, <1>1, <1>2 DEF Trailing, kiteVars
    <3>3. Ended(p)'
      <4>1. CASE p # o BY <4>1, <3>1, <1>2 DEF Ended, kiteVars
      <4>2. CASE p = o
        BY <4>2, <1>2, <2>2 DEF Ended, kiteVars, ClosedStatuses, UnresolvedStatuses
      <4>3. QED BY <4>1, <4>2
    <3>4. Begun(p)'
      <4>1. CASE p # o
        BY <4>1, <3>1, <1>2 DEF Begun, LiveAtKite, Unresolved, kiteVars, Idle
      <4>2. CASE p = o
        BY <4>2, <3>1, <1>2, <2>2
           DEF Begun, LiveAtKite, Unresolved, kiteVars, Idle, ClosedStatuses,
               UnresolvedStatuses
      <4>3. QED BY <4>1, <4>2
    <3>5. Unseen(p)'
      <4>1. CASE p # o BY <4>1, <2>1 DEF Unseen
      <4>2. CASE p = o
        <5>1. Base(o)' = Base(o)
          BY <1>2, <2>3 DEF Base
        <5>2. InCap(Base(o)) /\ InCap(Base(o) + Signed(order[o].side, order[o].qty))
              /\ ExposureRule(order[o], Base(o))
          BY <1>1, <1>4 DEF Unseen
        <5>3. order' = order /\ exFilled' = exFilled /\ net' = net
          BY DEF kiteVars
        <5>4. QED BY <4>2, <5>1, <5>2, <5>3, <1>2, <2>3 DEF Unseen
      <4>3. QED BY <4>1, <4>2
    <3>6. QED BY <3>2, <3>3, <3>4, <3>5
  <2>6. OneUnresolved' BY <2>1 DEF OneUnresolved
  <2>7. PositionSettled'
    <3>1. SUFFICES ASSUME ~Unresolved(o)' PROVE position' = net'
      BY DEF PositionSettled, HasUnresolved
    <3>2. ObservedStatus(o) \in ClosedStatuses /\ tradeBook[o] = exFilled[o]
      BY <3>1, <1>2, <2>2 DEF Unresolved
    <3>3. QED BY <3>2, <2>4 DEF kiteVars
  <2>8. InCap(position)' BY DEF InCap
  <2>9. CleanIsSettled' BY DEF CleanIsSettled
  <2>10. QED BY <2>5, <2>6, <2>7, <2>8, <2>9 DEF IInv
<1>5. QED
  BY <1>1, <1>3, <1>4 DEF TypeOK, Visible, HasRecord, Unresolved, Statuses,
                         ClosedStatuses, UnresolvedStatuses

\* The moves of one order between the phases in which it trades nothing.
KitePhaseMove(o) == KiteReceives(o) \/ KiteOpens(o) \/ KiteRejects(o) \/ KiteCancels(o)

\* Kite moving an order from phase to phase tells the dispatcher nothing: the
\* invariant stays.
LEMMA KitePhaseStep ==
  ASSUME IInv, TypeOK', NEW o \in Orders, KitePhaseMove(o)
  PROVE  IInv'
<1>1. /\ UNCHANGED <<exFilled, net, bookPhase, bookFilled, tradeBook, posted>>
      /\ UNCHANGED dispatcherVars
      /\ LiveAtKite(o)
      /\ phase' = [phase EXCEPT ![o] = phase'[o]]
      /\ \/ phase[o] = "sent" /\ phase'[o] \in {"pending", "refused", "lost"}
         \/ phase[o] = "pending" /\ phase'[o] \in {"open", "rejected"}
         \/ phase[o] = "open" /\ phase'[o] = "cancelled"
  BY DEF IInv, TypeOK, KitePhaseMove, KiteReceives, KiteOpens, KiteRejects,
         KiteCancels, KiteMoves, LiveAtKite, LivePhases
<1>2. Unresolved(o) /\ TypeOK BY <1>1 DEF IInv, Begun
<1>3. \A p \in Orders \ {o} : phase'[p] = phase[p]
  BY <1>1, <1>2 DEF TypeOK
<1>4. ASSUME NEW p \in Orders
      PROVE  Trailing(p)' /\ Ended(p)' /\ Begun(p)' /\ Unseen(p)'
  <2>1. Trailing(p) /\ Ended(p) /\ Begun(p) /\ Unseen(p)
    BY DEF IInv
  <2>2. Trailing(p)'
    <3>1. CASE p # o BY <3>1, <2>1, <1>1, <1>3 DEF Trailing, dispatcherVars
    <3>2. CASE p = o
      <4>1. order[o].qty \in Nat \ {0}
        <5>1. order[o] \in OrderSpecs BY <1>2 DEF TypeOK
        <5>2. order[o].qty \in 1..(2 * MaxLots) BY <5>1 DEF OrderSpecs
        <5>3. QED BY <5>2
      <4>2. QED BY <3>2, <4>1, <2>1, <1>1 DEF Trailing, dispatcherVars
    <3>3. QED BY <3>1, <3>2
  <2>3. Ended(p)'
    BY <2>1, <1>1, <1>2, <1>3 DEF Ended, dispatcherVars, Unresolved,
                                  UnresolvedStatuses, ClosedStatuses
  <2>4. Begun(p)'
    BY <2>1, <1>1, <1>2, <1>3
       DEF Begun, dispatcherVars, LiveAtKite, LivePhases, BookPhases, Unresolved,
           UnresolvedStatuses
  <2>5. Unseen(p)'
    BY <2>1, <1>1 DEF Unseen, Unresolved, InCap, ExposureRule, Opposing, Held, Base,
                      Signed, dispatcherVars
  <2>6. QED BY <2>2, <2>3, <2>4, <2>5
<1>5. OneUnresolved' /\ PositionSettled' /\ InCap(position)' /\ CleanIsSettled'
  BY <1>1 DEF IInv, OneUnresolved, PositionSettled, HasUnresolved, Unresolved, InCap,
              CleanIsSettled, dispatcherVars
<1>6. QED BY <1>4, <1>5 DEF IInv

\* A trade is unseen at first.
LEMMA KiteFillStep ==
  ASSUME IInv, TypeOK', NEW o \in Orders, KiteFills(o)
  PROVE  IInv'
<1> USE DEF KiteFills
<1>1. /\ LiveAtKite(o) /\ Unresolved(o) /\ TypeOK
      /\ Trailing(o) /\ Unseen(o)
  BY DEF IInv, Begun, LiveAtKite, LivePhases
<1>2. /\ \A p \in Orders \ {o} : phase'[p] = phase[p] /\ exFilled'[p] = exFilled[p]
      /\ exFilled'[o] = exFilled[o] + 1
      /\ phase'[o] = IF exFilled[o] + 1 = order[o].qty THEN "complete" ELSE "open"
      /\ exFilled[o] \in Nat /\ filled[o] \in Nat /\ position \in Int /\ net \in Int
  BY <1>1 DEF TypeOK
<1>3. order[o].qty \in Nat
  <2>1. order \in [Orders -> OrderSpecs] BY <1>1 DEF TypeOK
  <2>2. order[o] \in OrderSpecs BY <2>1
  <2>3. QED BY <2>2 DEF OrderSpecs
<1>4. ASSUME NEW p \in Orders
      PROVE  Trailing(p)' /\ Ended(p)' /\ Begun(p)' /\ Unseen(p)'
  <2>1. Trailing(p) /\ Ended(p) /\ Begun(p) /\ Unseen(p)
    BY DEF IInv
  <2>2. Trailing(p)'
    <3>1. CASE p # o BY <3>1, <2>1, <1>2 DEF Trailing, dispatcherVars
    <3>2. CASE p = o
      <4>1. exFilled[o] < order[o].qty BY <1>1 DEF Trailing
      <4>2. tradeBook[o] \in Nat /\ bookPhase[o] \notin {"complete", "cancelled", "rejected"}
        BY <1>1 DEF TypeOK, Trailing
      <4>3. QED BY <3>2, <4>1, <4>2, <2>1, <1>2, <1>3 DEF Trailing, dispatcherVars
    <3>3. QED BY <3>1, <3>2
  <2>3. Ended(p)'
    BY <2>1, <1>1, <1>2 DEF Ended, dispatcherVars, Unresolved, UnresolvedStatuses,
                            ClosedStatuses
  <2>4. Begun(p)'
    BY <2>1, <1>1, <1>2
       DEF Begun, dispatcherVars, LiveAtKite, LivePhases, BookPhases, Unresolved,
           UnresolvedStatuses
  <2>5. Unseen(p)'
    <3>1. CASE p # o
      BY <3>1, <1>1 DEF IInv, OneUnresolved, Unseen, Unresolved, dispatcherVars
    <3>2. CASE p = o
      <4>1. position + Signed(order[o].side, exFilled[o] - filled[o]) = net
        BY <1>1 DEF Unseen
      <4>2. position + Signed(order[o].side, exFilled[o] + 1 - filled[o])
              = net + Signed(order[o].side, 1)
        BY <1>2, <4>1 DEF Signed
      <4>3. QED
        BY <3>2, <4>2, <1>1, <1>2 DEF Unseen, InCap, ExposureRule, Opposing, Held,
                                      Base, Signed, dispatcherVars
    <3>3. QED BY <3>1, <3>2
  <2>6. QED BY <2>2, <2>3, <2>4, <2>5
<1>5. OneUnresolved' /\ InCap(position)'
  BY DEF IInv, OneUnresolved, Unresolved, InCap, dispatcherVars
<1>6. PositionSettled' /\ CleanIsSettled'
  BY <1>1 DEF IInv, PositionSettled, CleanIsSettled, HasUnresolved, Unresolved,
              dispatcherVars
<1>7. QED BY <1>4, <1>5, <1>6 DEF IInv

\* Views only move to what is true now.
LEMMA ViewStep ==
  ASSUME IInv, TypeOK', NEW o \in Orders,
         OrderBookCatchesUp(o) \/ TradeBookCatchesUp(o)
  PROVE  IInv'
<1>1. /\ UNCHANGED <<phase, exFilled, net, posted>> /\ UNCHANGED dispatcherVars
      /\ \A p \in Orders \ {o} : /\ bookPhase'[p] = bookPhase[p]
                                 /\ bookFilled'[p] = bookFilled[p]
                                 /\ tradeBook'[p] = tradeBook[p]
      /\ \/ /\ bookPhase'[o] = bookPhase[o] /\ bookFilled'[o] = bookFilled[o]
            /\ tradeBook'[o] = exFilled[o]
         \/ /\ bookPhase'[o] = phase[o] /\ bookFilled'[o] = exFilled[o]
            /\ tradeBook'[o] = tradeBook[o] /\ phase[o] \in BookPhases
  <2>1. TypeOK BY DEF IInv
  <2>2. CASE OrderBookCatchesUp(o)
    BY <2>1, <2>2 DEF TypeOK, OrderBookCatchesUp
  <2>3. CASE TradeBookCatchesUp(o)
    BY <2>1, <2>3 DEF TypeOK, TradeBookCatchesUp
  <2>4. QED BY <2>2, <2>3
<1>2. ASSUME NEW p \in Orders
      PROVE  Trailing(p)' /\ Ended(p)' /\ Begun(p)' /\ Unseen(p)'
  <2>1. /\ Trailing(p) /\ Ended(p) /\ Begun(p) /\ Unseen(p)
        /\ filled[p] \in Nat /\ exFilled[p] \in Nat /\ tradeBook[p] \in Nat
    BY DEF IInv, TypeOK
  <2>2. Trailing(p)'
    BY <2>1, <1>1 DEF Trailing, dispatcherVars
  <2>3. Ended(p)'
    <3>1. bookPhase[p] \in {"complete", "cancelled", "rejected"} =>
            bookPhase'[p] = bookPhase[p]
      BY <2>1, <1>1 DEF Trailing
    <3>2. phase[p] = "refused" => bookPhase'[p] = bookPhase[p]
      BY <1>1 DEF BookPhases
    <3>3. QED BY <2>1, <3>1, <3>2, <1>1 DEF Ended, dispatcherVars
  <2>4. Begun(p)'
    BY <2>1, <1>1 DEF Begun, dispatcherVars, LiveAtKite, Unresolved, BookPhases
  <2>5. Unseen(p)'
    BY <2>1, <1>1 DEF Unseen, Unresolved, InCap, ExposureRule, Opposing, Held, Base,
                      Signed, dispatcherVars
  <2>6. QED BY <2>2, <2>3, <2>4, <2>5
<1>3. OneUnresolved' /\ PositionSettled' /\ InCap(position)' /\ CleanIsSettled'
  BY <1>1 DEF IInv, OneUnresolved, PositionSettled, HasUnresolved, Unresolved, InCap,
              CleanIsSettled, dispatcherVars
<1>4. QED BY <1>2, <1>3 DEF IInv

\* Every step keeps the invariant.
LEMMA InvStep == IInv /\ [Next]_vars => IInv'
<1> SUFFICES ASSUME IInv, [Next]_vars PROVE IInv'
  OBVIOUS
<1> TypeOK'
  BY TypeStep DEF IInv
<1>1. ASSUME NEW o \in Orders, Submit(o) PROVE IInv'
  BY <1>1, DenyStep, PlaceStep DEF Submit
<1>2. ASSUME NEW o \in Orders, Answer(o) PROVE IInv'
  <2>1. CASE PlaceAcknowledged(o)
    BY <2>1, FlagStep DEF PlaceAcknowledged, coreVars, kiteVars
  <2>2. CASE PlaceRejected(o)
    BY <2>2, PlaceRejectedStep
  <2>3. CASE PlaceStopped(o)
    BY <2>3, FlagStep DEF PlaceStopped, coreVars, kiteVars
  <2>4. CASE PlaceUnknown(o)
    BY <2>4, FlagStep DEF PlaceUnknown, coreVars, kiteVars
  <2>5. ASSUME NEW outcome \in {"Acknowledged", "Rejected", "Unknown"},
               CancelAnswered(o, outcome)
        PROVE  IInv'
    BY <2>5, FlagStep DEF CancelAnswered, coreVars, kiteVars
  <2>6. CASE CancelStopped(o)
    BY <2>6, FlagStep DEF CancelStopped, coreVars, kiteVars
  <2>7. QED BY <1>2, <2>1, <2>2, <2>3, <2>4, <2>5, <2>6 DEF Answer
<1>3. ASSUME NEW o \in Orders, Cancel(o) PROVE IInv'
  BY <1>3, FlagStep DEF Cancel, coreVars, kiteVars
<1>4. ASSUME NEW o \in Orders, Refresh(o) PROVE IInv'
  BY <1>4, RefreshStep
<1>5. CASE Abort
  BY <1>5, FlagStep DEF Abort, coreVars, kiteVars
<1>6. CASE Fault
  BY <1>6, FlagStep DEF Fault, coreVars, kiteVars
<1>7. ASSUME NEW failed \in BOOLEAN, FinishStarts(failed) PROVE IInv'
  <2>1. UNCHANGED coreVars /\ UNCHANGED call /\ mode' # "clean"
    BY <1>7 DEF FinishStarts, coreVars, kiteVars
  <2>2. QED BY <2>1, QuietStep DEF CleanIsSettled
<1>8. CASE FinishSettles
  <2>1. UNCHANGED coreVars /\ UNCHANGED call
    BY <1>8 DEF FinishSettles, coreVars, kiteVars
  <2>2. CleanIsSettled'
    BY <1>8 DEF FinishSettles, CleanIsSettled, HasUnresolved, Unresolved
  <2>3. QED BY <2>1, <2>2, QuietStep
<1>9. CASE FinishGivesUp
  <2>1. UNCHANGED coreVars /\ UNCHANGED call /\ mode' # "clean"
    BY <1>9 DEF FinishGivesUp, coreVars, kiteVars
  <2>2. QED BY <2>1, QuietStep DEF CleanIsSettled
<1>10. CASE Kite
  <2>1. CASE PositionsCatchUp
    BY <2>1, FlagStep DEF PositionsCatchUp, coreVars, dispatcherVars
  <2>2. QED
    BY <1>10, <2>1, KitePhaseStep, KiteFillStep, ViewStep DEF Kite, KitePhaseMove
<1>11. CASE UNCHANGED vars
  BY <1>11, FlagStep DEF vars, coreVars
<1>12. QED
  BY <1>1, <1>2, <1>3, <1>4, <1>5, <1>6, <1>7, <1>8, <1>9, <1>10, <1>11 DEF Next

\* Connecting to a flat account without orders establishes the invariant.
LEMMA InvInit == Init => IInv
<1> SUFFICES ASSUME Init PROVE IInv
  OBVIOUS
<1>1. TypeOK BY TypeInit
<1>2. \A o \in Orders : ~Unresolved(o) /\ order[o].qty = 1
  BY DEF Init, Unresolved, UnresolvedStatuses, NoOrder
<1>3. ASSUME NEW o \in Orders PROVE Trailing(o) /\ Ended(o) /\ Begun(o) /\ Unseen(o)
  BY <1>2, <1>3 DEF Init, Trailing, Ended, Begun, Unseen, LiveAtKite, LivePhases,
                    ClosedStatuses
<1>4. OneUnresolved /\ PositionSettled /\ InCap(position) /\ CleanIsSettled
  BY <1>2 DEF Init, OneUnresolved, PositionSettled, InCap, CleanIsSettled
<1>5. QED BY <1>1, <1>3, <1>4 DEF IInv

\* The invariant holds in every reachable state.
THEOREM Invariance == Spec => []IInv
BY InvInit, InvStep, PTL DEF Spec

-----------------------------------------------------------------------------
(* What follows from the invariant *)

\* A live order is the unresolved one, and there is one of those.
THEOREM OneLiveOrderHolds == Spec => []OneLiveOrder
<1>1. IInv => OneLiveOrder
  BY DEF IInv, OneLiveOrder, Begun, OneUnresolved
<1>2. QED BY <1>1, Invariance, PTL

\* The real position is the base plus what traded, so it lies between the base
\* and the order's target, which admission found both in the cap.
LEMMA Within ==
  ASSUME IInv, NEW o \in Orders, Unresolved(o)
  PROVE  /\ net = Base(o) + Signed(order[o].side, exFilled[o])
         /\ net + Signed(order[o].side, Remaining(o))
              = Base(o) + Signed(order[o].side, order[o].qty)
         /\ InCap(net)
         /\ Base(o) \in Int /\ order[o].qty \in Nat /\ exFilled[o] \in Nat
         /\ exFilled[o] <= order[o].qty
<1>1. /\ position \in Int /\ net \in Int /\ filled[o] \in Nat /\ exFilled[o] \in Nat
      /\ exFilled[o] <= order[o].qty /\ Unseen(o) /\ TypeOK
  BY DEF IInv, TypeOK, Trailing
<1>2. order[o].qty \in Nat
  <2>1. order[o] \in OrderSpecs BY <1>1 DEF TypeOK
  <2>2. order[o].qty \in 1..(2 * MaxLots) BY <2>1 DEF OrderSpecs
  <2>3. QED BY <2>2
<1>3. /\ position + Signed(order[o].side, exFilled[o] - filled[o]) = net
      /\ InCap(Base(o)) /\ InCap(Base(o) + Signed(order[o].side, order[o].qty))
  BY <1>1 DEF Unseen
<1>4. CASE order[o].side = "BUY"
  BY <1>1, <1>2, <1>3, <1>4 DEF Base, Signed, InCap, Remaining
<1>5. CASE order[o].side # "BUY"
  <2>1. net = position - (exFilled[o] - filled[o])
    BY <1>1, <1>3, <1>5 DEF Signed
  <2>2. Base(o) = position + filled[o]
    BY <1>1, <1>5 DEF Base, Signed
  <2>3. /\ -MaxLots <= Base(o) /\ Base(o) <= MaxLots
        /\ -MaxLots <= Base(o) - order[o].qty /\ Base(o) - order[o].qty <= MaxLots
    BY <1>1, <1>2, <1>3, <1>5, <2>2 DEF InCap, Signed
  <2>4. net = Base(o) - exFilled[o]
    BY <1>1, <2>1, <2>2
  <2>5. InCap(net)
    BY <1>1, <1>2, <2>2, <2>3, <2>4 DEF InCap
  <2>6. net - Remaining(o) = Base(o) - order[o].qty
    BY <1>1, <1>2, <2>2, <2>4 DEF Remaining
  <2>7. /\ net + (-exFilled[o]) = net - exFilled[o]
        /\ Base(o) + (-exFilled[o]) = Base(o) - exFilled[o]
        /\ Base(o) + (-order[o].qty) = Base(o) - order[o].qty
        /\ net + (-Remaining(o)) = net - Remaining(o)
    BY <1>1, <1>2, <2>2 DEF Remaining
  <2>8. QED BY <1>1, <1>2, <1>5, <2>2, <2>4, <2>5, <2>6, <2>7 DEF Signed
<1>6. QED BY <1>4, <1>5

\* Whatever Kite does with the admitted orders, the real position stays within
\* the exposure cap that `admit` checked.
THEOREM ExposureWithinCapHolds == Spec => []ExposureWithinCap
<1>1. IInv => ExposureWithinCap
  <2> SUFFICES ASSUME IInv PROVE ExposureWithinCap
    OBVIOUS
  <2>1. InCap(net)
    <3>1. CASE HasUnresolved BY <3>1, Within DEF HasUnresolved
    <3>2. CASE ~HasUnresolved BY <3>2 DEF IInv, PositionSettled
    <3>3. QED BY <3>1, <3>2
  <2>2. ASSUME NEW o \in Orders, LiveAtKite(o)
        PROVE  InCap(net + Signed(order[o].side, Remaining(o)))
    <3>1. Unresolved(o) /\ Unseen(o) BY <2>2 DEF IInv, Begun
    <3>2. QED BY <3>1, Within DEF Unseen
  <2>3. QED BY <2>1, <2>2 DEF ExposureWithinCap
<1>2. QED BY <1>1, Invariance, PTL

\* With every order of the run resolved, the position the dispatcher owns is the
\* one the account holds.
THEOREM PositionSettledHolds == Spec => []PositionSettled
<1>1. IInv => PositionSettled BY DEF IInv
<1>2. QED BY <1>1, Invariance, PTL

\* Never more fills than trades; a closed order is over and fully counted.
THEOREM RecordsTellTheTruthHolds == Spec => []RecordsTellTheTruth
<1>1. IInv => RecordsTellTheTruth
  <2> SUFFICES ASSUME IInv, NEW o \in Orders
               PROVE  /\ filled[o] <= exFilled[o]
                      /\ status[o] \in ClosedStatuses \cup {"Denied"} =>
                           ~LiveAtKite(o) /\ filled[o] = exFilled[o]
    BY DEF RecordsTellTheTruth
  <2>1. Trailing(o) /\ Ended(o) /\ Begun(o) BY DEF IInv
  <2>2. filled[o] \in Nat /\ tradeBook[o] \in Nat /\ exFilled[o] \in Nat
    BY DEF IInv, TypeOK
  <2>3. filled[o] <= exFilled[o] BY <2>1, <2>2 DEF Trailing
  <2>4. CASE status[o] \in ClosedStatuses
    BY <2>1, <2>3, <2>4 DEF Ended, Begun, Unresolved, ClosedStatuses, UnresolvedStatuses
  <2>5. CASE status[o] = "Denied"
    <3>1. phase[o] = "none" BY <2>1, <2>5 DEF Begun
    <3>2. exFilled[o] = 0 BY <2>1, <3>1 DEF Trailing
    <3>3. QED BY <2>2, <2>3, <3>1, <3>2 DEF LiveAtKite, LivePhases
  <2>6. QED BY <2>3, <2>4, <2>5
<1>2. QED BY <1>1, Invariance, PTL

\* A clean verdict leaves no position and no order at work.
THEOREM CleanStopIsFlatHolds == Spec => []CleanStopIsFlat
<1>1. IInv => CleanStopIsFlat
  BY DEF IInv, CleanStopIsFlat, CleanIsSettled, PositionSettled, HasUnresolved, Begun
<1>2. QED BY <1>1, Invariance, PTL

-----------------------------------------------------------------------------
(* Trades, and the account they make *)

tradeVars == <<order, phase, exFilled, net>>

\* Every step but a placement and Kite's own moves leaves the orders at Kite
\* and the real position alone.
LEMMA WhoMoves ==
  ASSUME [Next]_vars
  PROVE  \/ UNCHANGED tradeVars
         \/ \E o \in Orders, s \in OrderSpecs, seen \in -MaxLots..MaxLots,
               ready \in BOOLEAN, budget \in BOOLEAN :
              Place(o, s, seen, ready, budget)
         \/ \E o \in Orders : KitePhaseMove(o) \/ KiteFills(o)
<1> USE DEF tradeVars, kiteVars
<1>1. ASSUME NEW o \in Orders, Submit(o)
      PROVE  \/ UNCHANGED tradeVars
             \/ \E p \in Orders, s \in OrderSpecs, seen \in -MaxLots..MaxLots,
                   ready \in BOOLEAN, budget \in BOOLEAN :
                  Place(p, s, seen, ready, budget)
  <2>1. PICK s \in OrderSpecs, seen \in -MaxLots..MaxLots,
             ready \in BOOLEAN, budget \in BOOLEAN :
          Deny(o, s, seen, ready, budget) \/ Place(o, s, seen, ready, budget)
    BY <1>1 DEF Submit
  <2>2. CASE Deny(o, s, seen, ready, budget) BY <2>2 DEF Deny
  <2>3. CASE Place(o, s, seen, ready, budget) BY <2>3
  <2>4. QED BY <2>1, <2>2, <2>3
<1>2. ASSUME NEW o \in Orders, Answer(o) PROVE UNCHANGED tradeVars
  BY <1>2 DEF Answer, PlaceAcknowledged, PlaceRejected, PlaceStopped, PlaceUnknown,
              CancelAnswered, CancelStopped
<1>3. ASSUME NEW o \in Orders, Cancel(o) \/ Refresh(o) PROVE UNCHANGED tradeVars
  BY <1>3 DEF Cancel, Refresh
<1>4. ASSUME Abort \/ Fault \/ FinishSettles \/ FinishGivesUp
      PROVE  UNCHANGED tradeVars
  BY <1>4 DEF Abort, Fault, FinishSettles, FinishGivesUp
<1>5. ASSUME NEW failed \in BOOLEAN, FinishStarts(failed) PROVE UNCHANGED tradeVars
  BY <1>5 DEF FinishStarts
<1>6. CASE Kite
  BY <1>6 DEF Kite, KitePhaseMove, OrderBookCatchesUp, TradeBookCatchesUp,
              PositionsCatchUp, dispatcherVars
<1>7. CASE UNCHANGED vars BY <1>7 DEF vars
<1>8. QED BY <1>1, <1>2, <1>3, <1>4, <1>5, <1>6, <1>7 DEF Next

\* A trade of a reduce-only order brings the real position closer to zero.
LEMMA FillReduces ==
  ASSUME IInv, NEW o \in Orders, KiteFills(o), order[o].reduce
  PROVE  (0 <= net' /\ net' < net) \/ (net < net' /\ net' <= 0)
<1>1. LiveAtKite(o) /\ Unresolved(o) /\ Unseen(o) /\ Trailing(o)
  BY DEF IInv, KiteFills, LiveAtKite, LivePhases, Begun
<1>2. /\ net = Base(o) + Signed(order[o].side, exFilled[o])
      /\ Base(o) \in Int /\ order[o].qty \in Nat /\ exFilled[o] \in Nat
      /\ exFilled[o] < order[o].qty
      /\ net' = net + Signed(order[o].side, 1)
  BY <1>1, Within DEF KiteFills, Trailing
<1>3. ExposureRule(order[o], Base(o)) BY <1>1 DEF Unseen
<1>4. CASE order[o].side = "BUY"
  BY <1>2, <1>3, <1>4 DEF ExposureRule, Opposing, Held, Signed
<1>5. CASE order[o].side # "BUY"
  <2>1. net = Base(o) - exFilled[o] BY <1>2, <1>5 DEF Signed
  <2>2. net' = net - 1 BY <1>2, <1>5, <2>1 DEF Signed
  <2>3. Base(o) > 0 /\ order[o].qty <= Base(o)
    BY <1>2, <1>3, <1>5 DEF ExposureRule, Opposing, Held
  <2>4. QED BY <1>2, <2>1, <2>2, <2>3
<1>6. QED BY <1>4, <1>5

\* A trade of a reduce-only order never opens or reverses a position, because its
\* admission compared it with the real position.
THEOREM ReduceOnlyReducesHolds == Spec => ReduceOnlyReduces
<1>1. IInv /\ [Next]_vars =>
        [\A o \in Orders :
           exFilled'[o] # exFilled[o] /\ order[o].reduce
             => (0 <= net' /\ net' < net) \/ (net < net' /\ net' <= 0)]_vars
  <2> SUFFICES ASSUME IInv, [Next]_vars, NEW o \in Orders,
                      exFilled'[o] # exFilled[o], order[o].reduce
               PROVE  (0 <= net' /\ net' < net) \/ (net < net' /\ net' <= 0)
    OBVIOUS
  <2>1. PICK p \in Orders : KiteFills(p)
    BY WhoMoves DEF tradeVars, Place, KitePhaseMove, KiteReceives, KiteOpens,
                    KiteRejects, KiteCancels, KiteMoves
  <2>2. p = o
    BY <2>1 DEF KiteFills, IInv, TypeOK
  <2>3. QED BY <2>1, <2>2, FillReduces
<1>2. QED BY <1>1, Invariance, PTL DEF Spec, ReduceOnlyReduces

\* The orders that can still trade, as the account sees them.
OpenOrders == {Working(o) : o \in {p \in Orders : LiveAtKite(p)}}

\* The orders open at Kite are at most one.
LEMMA OpenAlone ==
  ASSUME IInv, NEW o \in Orders, LiveAtKite(o)
  PROVE  OpenOrders = {Working(o)}
<1>1. \A p \in Orders : LiveAtKite(p) => p = o
  BY DEF IInv, Begun, OneUnresolved
<1>2. QED BY <1>1 DEF OpenOrders

\* An admitted order opens against the real position.
LEMMA PlaceOpens ==
  ASSUME IInv, IInv', NEW o \in Orders,
         NEW s \in OrderSpecs, NEW seen \in -MaxLots..MaxLots,
         NEW ready \in BOOLEAN, NEW budget \in BOOLEAN,
         Place(o, s, seen, ready, budget)
  PROVE  Account!Next
<1> USE DEF Place, Takes, Admitted
<1>1. OpenOrders = {}
  BY DEF IInv, Begun, HasUnresolved, OpenOrders
<1>2. exFilled[o] = 0 /\ order'[o] = s /\ LiveAtKite(o)'
  BY DEF IInv, TypeOK, Begun, Trailing, LiveAtKite, LivePhases
<1>3. /\ s = [side |-> s.side, qty |-> s.qty, reduce |-> s.reduce]
      /\ s.side \in {"BUY", "SELL"} /\ s.qty \in 1..(2 * MaxLots)
      /\ s.reduce \in BOOLEAN
  BY DEF OrderSpecs, Sides
<1>4. OpenOrders' = {s}
  <2>1. OpenOrders' = {Working(o)'}
    <3>1. \A p \in Orders : LiveAtKite(p)' => p = o
      BY <1>2 DEF IInv, Begun, OneUnresolved
    <3>2. QED BY <1>2, <3>1 DEF OpenOrders
  <2>2. Remaining(o)' = s.qty
    BY <1>2, <1>3 DEF Remaining
  <2>3. Working(o)' = s
    BY <1>2, <1>3, <2>2 DEF Working
  <2>4. QED BY <2>1, <2>3
<1>5. seen = position /\ position = net /\ net \in Int /\ s.qty \in Nat
  BY <1>3 DEF IInv, PositionSettled, TypeOK
<1>6. Account!MayOpen(s)
  <2>1. InCap(net + Signed(s.side, s.qty)) /\ ExposureRule(s, net)
    BY <1>5
  <2>2. CASE s.side = "BUY"
    BY <1>3, <1>5, <2>1, <2>2
       DEF Account!MayOpen, Account!Effect, Account!Within, Account!Reduces,
           Account!Turns, ExposureRule, Opposing, Held, InCap, Signed
  <2>3. CASE s.side = "SELL"
    <3>1. Account!Effect(s) = -s.qty BY <2>3 DEF Account!Effect
    <3>2. net + Account!Effect(s) = net - s.qty BY <1>5, <3>1
    <3>3. Account!Within(net + Account!Effect(s))
      BY <2>1, <2>3, <3>1 DEF Account!Within, InCap, Signed
    <3>4. CASE s.reduce
      <4>1. 0 < net /\ s.qty <= net
        BY <1>5, <2>1, <2>3, <3>4 DEF ExposureRule, Opposing, Held
      <4>2. Account!Reduces(net, net - s.qty)
        BY <1>3, <1>5, <4>1 DEF Account!Reduces
      <4>3. QED BY <3>2, <3>3, <3>4, <4>2 DEF Account!MayOpen
    <3>5. CASE ~s.reduce
      <4>1. net = 0 \/ (0 < net /\ s.qty > net)
        BY <1>5, <2>1, <2>3, <3>5 DEF ExposureRule, Opposing, Held
      <4>2. net = 0 \/ Account!Turns(net, net - s.qty)
        BY <1>5, <4>1 DEF Account!Turns
      <4>3. QED BY <3>2, <3>3, <3>5, <4>2 DEF Account!MayOpen
    <3>6. QED BY <1>3, <3>4, <3>5
  <2>4. QED BY <1>3, <2>2, <2>3
<1>7. Account!Open(s)
  BY <1>1, <1>4, <1>6 DEF Account!Open, OpenOrders
<1>8. QED BY <1>3, <1>7 DEF Account!Next

\* Kite's moves without a trade keep the order open or close it.
LEMMA PhaseMoveCloses ==
  ASSUME IInv, IInv', NEW o \in Orders, KitePhaseMove(o)
  PROVE  Account!Next \/ UNCHANGED <<net, OpenOrders>>
<1>1. /\ LiveAtKite(o) /\ net' = net /\ order' = order /\ exFilled' = exFilled
      /\ \A p \in Orders \ {o} : phase'[p] = phase[p]
  <2>1. phase \in [Orders -> Phases] BY DEF IInv, TypeOK
  <2>2. ASSUME NEW q, KiteMoves(o, q)
        PROVE  /\ net' = net /\ order' = order /\ exFilled' = exFilled
               /\ \A p \in Orders \ {o} : phase'[p] = phase[p]
    BY <2>1, <2>2 DEF KiteMoves, dispatcherVars
  <2>3. LiveAtKite(o) /\ \E q : KiteMoves(o, q)
    BY DEF KitePhaseMove, KiteReceives, KiteOpens, KiteRejects, KiteCancels,
           LiveAtKite, LivePhases
  <2>4. QED BY <2>2, <2>3
<1>2. \A p \in Orders : LiveAtKite(p) => p = o
  BY <1>1 DEF IInv, Begun, OneUnresolved
<1>3. OpenOrders = {Working(o)} BY <1>1, OpenAlone
<1>4. \A p \in Orders : LiveAtKite(p)' => p = o
  BY <1>1, <1>2 DEF LiveAtKite
<1>5. Working(o)' = Working(o) BY <1>1 DEF Working, Remaining
<1>6. CASE LiveAtKite(o)'
  <2>1. OpenOrders' = {Working(o)'} BY <1>4, <1>6 DEF OpenOrders
  <2>2. QED BY <1>1, <1>3, <1>5, <2>1
<1>7. CASE ~LiveAtKite(o)'
  <2>1. OpenOrders' = {} BY <1>4, <1>7 DEF OpenOrders
  <2>2. Account!Close
    BY <1>1, <1>3, <2>1 DEF Account!Close, OpenOrders
  <2>3. QED BY <2>2 DEF Account!Next
<1>8. QED BY <1>6, <1>7

\* A trade is a trade of the one open order.
LEMMA FillTrades ==
  ASSUME IInv, IInv', NEW o \in Orders, KiteFills(o)
  PROVE  Account!Next
<1> DEFINE w == Working(o)
<1> USE DEF KiteFills
<1>1. /\ LiveAtKite(o) /\ Unresolved(o) /\ order' = order
      /\ exFilled'[o] = exFilled[o] + 1 /\ exFilled[o] \in Nat
      /\ net' = net + Signed(order[o].side, 1)
      /\ phase'[o] = IF exFilled[o] + 1 = order[o].qty THEN "complete" ELSE "open"
      /\ \A p \in Orders \ {o} : phase'[p] = phase[p]
  BY DEF IInv, TypeOK, Begun, LiveAtKite, LivePhases, dispatcherVars
<1>2. order[o].qty \in Nat BY <1>1, Within
<1>3. OpenOrders = {w} BY <1>1, OpenAlone
<1>4. \A p \in Orders : LiveAtKite(p)' => p = o
  BY <1>1 DEF IInv, Begun, OneUnresolved, LiveAtKite
<1>5. w.qty = order[o].qty - exFilled[o] /\ w.side = order[o].side
  BY DEF Working, Remaining
<1>6. net' = net + Account!Effect([w EXCEPT !.qty = 1])
  <2>1. [w EXCEPT !.qty = 1].qty = 1 /\ [w EXCEPT !.qty = 1].side = w.side
    BY DEF Working
  <2>2. QED BY <1>1, <1>5, <2>1 DEF Account!Effect, Signed
<1>7. OpenOrders' = IF w.qty = 1 THEN {} ELSE {[w EXCEPT !.qty = @ - 1]}
  <2>1. CASE w.qty = 1
    <3>1. ~LiveAtKite(o)'
      BY <1>1, <1>2, <1>5, <2>1 DEF LiveAtKite, LivePhases
    <3>2. QED BY <1>4, <2>1, <3>1 DEF OpenOrders
  <2>2. CASE w.qty # 1
    <3>1. LiveAtKite(o)'
      BY <1>1, <1>2, <1>5, <2>2 DEF LiveAtKite, LivePhases
    <3>2. OpenOrders' = {Working(o)'}
      BY <1>4, <3>1 DEF OpenOrders
    <3>3. Remaining(o)' = w.qty - 1
      BY <1>1, <1>2, <1>5 DEF Remaining
    <3>4. Working(o)' = [w EXCEPT !.qty = @ - 1]
      BY <1>1, <3>3 DEF Working
    <3>5. QED BY <2>2, <3>2, <3>4
  <2>3. QED BY <2>1, <2>2
<1>8. Account!Trade(w)
  BY <1>3, <1>6, <1>7 DEF Account!Trade, OpenOrders
<1>9. QED BY <1>3, <1>8 DEF Account!Next, OpenOrders

\* The dispatcher and Kite together are a one-order account: every behaviour is
\* one of OneOrderAccount.
THEOREM DispatcherImplementsAccount == Spec => ImplementsAccount
<1>1. Init => Account!Init
  BY DEF Init, Account!Init, LiveAtKite, LivePhases
<1>2. IInv /\ IInv' /\ [Next]_vars => [Account!Next]_(Account!AccountVars)
  <2> SUFFICES ASSUME IInv, IInv', [Next]_vars
               PROVE  Account!Next \/ UNCHANGED <<net, OpenOrders>>
    BY DEF Account!AccountVars, OpenOrders
  <2>1. CASE UNCHANGED tradeVars
    BY <2>1 DEF tradeVars, OpenOrders, Working, Remaining, LiveAtKite
  <2>2. ASSUME NEW o \in Orders, NEW s \in OrderSpecs,
               NEW seen \in -MaxLots..MaxLots, NEW ready \in BOOLEAN,
               NEW budget \in BOOLEAN, Place(o, s, seen, ready, budget)
        PROVE  Account!Next
    BY <2>2, PlaceOpens
  <2>3. ASSUME NEW o \in Orders, KitePhaseMove(o)
        PROVE  Account!Next \/ UNCHANGED <<net, OpenOrders>>
    BY <2>3, PhaseMoveCloses
  <2>4. ASSUME NEW o \in Orders, KiteFills(o) PROVE Account!Next
    BY <2>4, FillTrades
  <2>5. QED BY <2>1, <2>2, <2>3, <2>4, WhoMoves
<1>3. QED BY <1>1, <1>2, Invariance, PTL DEF Spec, Account!Spec, ImplementsAccount

-----------------------------------------------------------------------------
(* What the engine is told *)

\* The history u is t and more of order o.
GoesOn(t, u, o) ==
  /\ t \in Seq(Events) /\ u \in Seq(Events) /\ Len(t) <= Len(u)
  /\ \A i \in 1..Len(t) : u[i] = t[i]
  /\ \A i \in (Len(t) + 1)..Len(u) : u[i].id = o

\* Where the history tells of the order, and that there are finitely many such places.
LEMMA ToldIs ==
  ASSUME NEW t \in Seq(Events), NEW o, NEW type
  PROVE  /\ Told(t, o) \subseteq 1..Len(t)
         /\ IsFiniteSet(ToldAs(t, o, type)) /\ Cardinality(ToldAs(t, o, type)) \in Nat
<1>1. Told(t, o) \subseteq 1..Len(t)
  BY DEF Told
<1>2. ToldAs(t, o, type) \in SUBSET (1..Len(t))
  BY <1>1 DEF ToldAs
<1>3. IsFiniteSet(1..Len(t))
  BY FS_Interval
<1>4. QED BY <1>1, <1>2, <1>3, FS_Subset, FS_CardinalityType

\* More of one order is nothing of another.
LEMMA ToldOthers ==
  ASSUME NEW t, NEW u, NEW o, GoesOn(t, u, o), NEW p, p # o, NEW is, NEW fills
  PROVE  (Lawful(t, p, is, fills) => Lawful(u, p, is, fills))
         /\ (Foretells(t, p, is) => Foretells(u, p, is))
<1>1. PICK m \in Nat, n \in Nat : m = Len(t) /\ n = Len(u) /\ m <= n
  BY DEF GoesOn
<1>2. DOMAIN t = 1..m /\ DOMAIN u = 1..n
  BY <1>1 DEF GoesOn
<1>3. \A i \in 1..n : i \in 1..m \/ i \in (m + 1)..n
  BY <1>1
<1>4. \A i \in 1..m : i \in 1..n
  BY <1>1
<1>5. (\A i \in 1..m : u[i] = t[i]) /\ \A i \in (m + 1)..n : u[i].id = o
  BY <1>1, Zenon DEF GoesOn
<1>6. Told(u, p) = Told(t, p) /\ \A i \in Told(t, p) : u[i] = t[i]
  BY <1>2, <1>3, <1>4, <1>5, Zenon DEF Told
<1>7. \A type : ToldAs(u, p, type) = ToldAs(t, p, type)
  BY <1>6, Zenon DEF ToldAs
<1>8. Lawful(t, p, is, fills) => Lawful(u, p, is, fills)
  BY <1>6, <1>7, Zenon DEF Lawful
<1>9. Foretells(t, p, is) => Foretells(u, p, is)
  BY <1>7, Zenon DEF Foretells
<1>10. QED BY <1>8, <1>9

\* Where the order itself is told of.
LEMMA ToldMore ==
  ASSUME NEW t, NEW u, NEW o, GoesOn(t, u, o),
         NEW m \in Nat, NEW n \in Nat, m = Len(t), n = Len(u), NEW new, new = (m + 1)..n
  PROVE  /\ Told(u, o) = Told(t, o) \cup new
         /\ Told(t, o) \subseteq 1..m /\ \A i \in Told(t, o) : u[i] = t[i]
         /\ \A type : ToldAs(u, o, type) = ToldAs(t, o, type) \cup {i \in new : u[i].type = type}
<1>1. m <= n
  BY DEF GoesOn
<1>2. DOMAIN t = 1..m /\ DOMAIN u = 1..n
  BY <1>1 DEF GoesOn
<1>3. \A i \in 1..n : i \in 1..m \/ i \in (m + 1)..n
  BY <1>1
<1>4. (\A i \in 1..m : i \in 1..n) /\ \A i \in (m + 1)..n : i \in 1..n
  BY <1>1
<1>5. (\A i \in 1..m : u[i] = t[i]) /\ \A i \in (m + 1)..n : u[i].id = o
  BY <1>1, Zenon DEF GoesOn
<1>6. Told(t, o) \subseteq 1..m /\ \A i \in Told(t, o) : u[i] = t[i]
  BY <1>2, <1>5, Zenon DEF Told
<1>7. Told(u, o) = Told(t, o) \cup ((m + 1)..n)
  <2>1. \A i : i \in Told(u, o) <=> i \in Told(t, o) \/ i \in (m + 1)..n
    BY <1>2, <1>3, <1>4, <1>5, Zenon DEF Told
  <2>2. QED BY <2>1
<1>8. ASSUME NEW type
      PROVE  ToldAs(u, o, type) = ToldAs(t, o, type) \cup {i \in (m + 1)..n : u[i].type = type}
  <2>1. \A i : i \in ToldAs(u, o, type)
                 <=> i \in ToldAs(t, o, type) \/ (i \in (m + 1)..n /\ u[i].type = type)
    BY <1>6, <1>7, Zenon DEF ToldAs
  <2>2. QED BY <2>1
<1>9. QED BY <1>6, <1>7, <1>8, Zenon

\* What may be told of an order that has a record.
MayFollow(t, u, o, is) ==
  LET new == (Len(t) + 1)..Len(u)
  IN  \A i \in new :
        /\ u[i].type # "Submitted"
        /\ u[i].type = "Accepted" => is = "Submitted" /\ i = Len(t) + 1
        /\ u[i].type = "Filled" =>
             \/ is \in {"Accepted", "PartiallyFilled"}
             \/ \E j \in new : j < i /\ u[j].type = "Accepted"
        /\ u[i].type \in {"Canceled", "Rejected"} => i = Len(u)
        /\ is \in {"Canceled", "Rejected"} => u[i].type = "CancelRejected"

\* A lawful history goes on lawfully.
LEMMA StoryGoesOn ==
  ASSUME NEW t, NEW u, NEW o, GoesOn(t, u, o), NEW is, NEW next,
         NEW fills \in Nat, NEW more \in Nat,
         Lawful(t, o, is, fills), Foretells(t, o, is), MayFollow(t, u, o, is),
         is \notin {"None", "Denied"}, next \notin {"None", "Denied"},
         more = fills + Cardinality({i \in (Len(t) + 1)..Len(u) : u[i].type = "Filled"})
  PROVE  Lawful(u, o, next, more)
<1>1. PICK m \in Nat, n \in Nat : m = Len(t) /\ n = Len(u) /\ m <= n
  BY DEF GoesOn
<1>2. PICK new : new = (m + 1)..n
  OBVIOUS
<1>3. \A i \in new : i \in Nat /\ i > m /\ i <= n
  BY <1>1, <1>2
<1>4. /\ Told(u, o) = Told(t, o) \cup new
      /\ \A i \in Told(t, o) : u[i] = t[i] /\ i \in Nat /\ i <= m
      /\ \A type : ToldAs(u, o, type) = ToldAs(t, o, type) \cup {i \in new : u[i].type = type}
  <2>1. /\ Told(u, o) = Told(t, o) \cup new
        /\ Told(t, o) \subseteq 1..m /\ \A i \in Told(t, o) : u[i] = t[i]
        /\ \A type : ToldAs(u, o, type) = ToldAs(t, o, type) \cup {i \in new : u[i].type = type}
    BY ONLY <1>1, <1>2, ToldMore, GoesOn(t, u, o)
  <2>2. \A i \in 1..m : i \in Nat /\ i <= m
    OBVIOUS
  <2>3. QED BY <2>1, <2>2, Zenon
<1>5. \A i \in new :
        /\ u[i].type # "Submitted"
        /\ u[i].type = "Accepted" => is = "Submitted" /\ i = m + 1
        /\ u[i].type = "Filled" =>
             is \in {"Accepted", "PartiallyFilled"} \/ \E j \in new : j < i /\ u[j].type = "Accepted"
        /\ u[i].type \in {"Canceled", "Rejected"} => i = n
        /\ is \in {"Canceled", "Rejected"} => u[i].type = "CancelRejected"
  BY <1>1, <1>2, Zenon DEF MayFollow
<1>6. /\ Told(t, o) # {}
      /\ Cardinality(ToldAs(t, o, "Filled")) = fills
      /\ \A i, j \in ToldAs(t, o, "Accepted") : i = j
      /\ \A i \in Told(t, o) :
           /\ t[i].type = "Submitted" <=> \A j \in Told(t, o) : i <= j
           /\ t[i].type = "Filled" => \E j \in ToldAs(t, o, "Accepted") : j < i
           /\ t[i].type \in {"Canceled", "Rejected"} =>
                \A j \in Told(t, o) : j > i => t[j].type = "CancelRejected"
  BY Zenon DEF Lawful
<1>7. Told(u, o) # {}
  BY <1>4, <1>6
<1>8. Cardinality(ToldAs(u, o, "Filled")) = more
  <2>1. PICK A, B : A = ToldAs(t, o, "Filled") /\ B = {i \in new : u[i].type = "Filled"}
    OBVIOUS
  <2>2. IsFiniteSet(A) /\ IsFiniteSet(B)
    <3>1. IsFiniteSet(A)
      BY <2>1, ToldIs DEF GoesOn
    <3>2. IsFiniteSet(new)
      <4>1. m + 1 \in Int /\ n \in Int
        OBVIOUS
      <4>2. QED BY <1>2, <4>1, FS_Interval
    <3>3. B \in SUBSET new
      BY <2>1
    <3>4. QED BY <3>1, <3>2, <3>3, FS_Subset
  <2>3. A \cap B = {}
    <3>1. \A i \in A : i \in Nat /\ i <= m
      BY <1>4, <2>1, Zenon DEF ToldAs
    <3>2. \A i \in B : i \in Nat /\ i > m
      BY <1>3, <2>1
    <3>3. QED BY <3>1, <3>2
  <2>4. Cardinality(A \cup B) = Cardinality(A) + Cardinality(B) - Cardinality(A \cap B)
    BY <2>2, FS_Union
  <2>5. Cardinality(A \cap B) = 0
    BY <2>3, FS_EmptySet
  <2>6. Cardinality(A) \in Nat /\ Cardinality(B) \in Nat
    BY <2>2, FS_CardinalityType
  <2>7. Cardinality(A) = fills /\ more = fills + Cardinality(B) /\ ToldAs(u, o, "Filled") = A \cup B
    <3>1. new = (Len(t) + 1)..Len(u)
      BY <1>1, <1>2, Zenon
    <3>2. more = fills + Cardinality(B)
      BY <2>1, <3>1, Zenon
    <3>3. ToldAs(u, o, "Filled") = A \cup B
      BY <1>4, <2>1, Zenon
    <3>4. QED BY <1>6, <2>1, <3>2, <3>3, Zenon
  <2>8. PICK a \in Nat, b \in Nat : a = Cardinality(A) /\ b = Cardinality(B)
    BY <2>6
  <2>9. Cardinality(A \cup B) = a + b - 0
    BY <2>4, <2>5, <2>8, Zenon
  <2>10. a + b - 0 = fills + b
    BY <2>7, <2>8
  <2>11. QED BY <2>7, <2>8, <2>9, <2>10, Zenon
<1>9. \A i, j \in ToldAs(u, o, "Accepted") : i = j
  <2>1. \A i \in new : u[i].type = "Accepted" => ToldAs(t, o, "Accepted") = {} /\ i = m + 1
    BY <1>5, Zenon DEF Foretells
  <2>2. QED BY <1>4, <1>6, <2>1
<1>10. ASSUME NEW i \in Told(u, o)
       PROVE  /\ u[i].type = "Submitted" <=> \A j \in Told(u, o) : i <= j
              /\ u[i].type = "Filled" => \E j \in ToldAs(u, o, "Accepted") : j < i
              /\ u[i].type \in {"Canceled", "Rejected"} =>
                   \A j \in Told(u, o) : j > i => u[j].type = "CancelRejected"
  <2>1. CASE i \in Told(t, o)
    <3>1. u[i] = t[i] /\ i \in Nat /\ i <= m
      BY <1>4, <2>1, Zenon
    <3>2. u[i].type = "Submitted" <=> \A j \in Told(u, o) : i <= j
      <4>1. \A j \in new : i <= j
        BY <1>3, <3>1
      <4>2. (\A j \in Told(u, o) : i <= j) <=> \A j \in Told(t, o) : i <= j
        BY <1>4, <4>1
      <4>3. QED BY <1>6, <2>1, <3>1, <4>2, Zenon
    <3>3. u[i].type = "Filled" => \E j \in ToldAs(u, o, "Accepted") : j < i
      BY <1>4, <1>6, <2>1, <3>1
    <3>4. ASSUME u[i].type \in {"Canceled", "Rejected"}, NEW j \in Told(u, o), j > i
          PROVE  u[j].type = "CancelRejected"
      <4>1. CASE j \in Told(t, o)
        BY <1>4, <1>6, <2>1, <3>1, <3>4, <4>1, Zenon
      <4>2. CASE j \in new
        <5>1. i \in ToldAs(t, o, "Canceled") \/ i \in ToldAs(t, o, "Rejected")
          BY <2>1, <3>1, <3>4 DEF ToldAs
        <5>2. is \in {"Canceled", "Rejected"}
          BY <5>1, Zenon DEF Foretells
        <5>3. QED BY <1>5, <4>2, <5>2, Zenon
      <4>3. QED BY <1>4, <3>4, <4>1, <4>2
    <3>5. QED BY <3>2, <3>3, <3>4
  <2>2. CASE i \in new
    <3>1. i \in Nat /\ i > m /\ i <= n
      BY <1>3, <2>2
    <3>2. PICK first : first \in Told(t, o)
      BY <1>6
    <3>3. first \in Told(u, o) /\ ~(i <= first)
      BY <1>4, <3>1, <3>2
    <3>4. u[i].type = "Submitted" <=> \A j \in Told(u, o) : i <= j
      BY <1>5, <2>2, <3>3, Zenon
    <3>5. ASSUME u[i].type = "Filled" PROVE \E j \in ToldAs(u, o, "Accepted") : j < i
      <4>1. CASE is \in {"Accepted", "PartiallyFilled"}
        <5>1. PICK j : j \in ToldAs(t, o, "Accepted")
          BY <4>1, Zenon DEF Foretells
        <5>2. j \in Told(t, o) /\ j \in ToldAs(u, o, "Accepted")
          BY <1>4, <5>1 DEF ToldAs
        <5>3. j < i
          BY <1>4, <3>1, <5>2
        <5>4. QED BY <5>2, <5>3
      <4>2. CASE \E j \in new : j < i /\ u[j].type = "Accepted"
        BY <1>4, <4>2
      <4>3. QED BY <1>5, <2>2, <3>5, <4>1, <4>2, Zenon
    <3>6. ASSUME u[i].type \in {"Canceled", "Rejected"}, NEW j \in Told(u, o)
          PROVE  ~(j > i)
      <4>1. i = n
        BY <1>5, <2>2, <3>6, Zenon
      <4>2. j \in Nat /\ j <= n
        <5>1. \A k \in Told(t, o) : k \in Nat /\ k <= n
          BY <1>1, <1>4
        <5>2. QED BY <1>3, <1>4, <5>1
      <4>3. QED BY <3>1, <4>1, <4>2
    <3>7. QED BY <3>4, <3>5, <3>6, Zenon
  <2>3. QED BY <1>4, <2>1, <2>2
<1>11. QED BY <1>7, <1>8, <1>9, <1>10, Zenon DEF Lawful

\* One event more.
LEMMA OneEventMore ==
  ASSUME NEW t \in Seq(Events), NEW o, NEW e \in Events, e.id = o,
         NEW u, u = Append(t, e)
  PROVE  GoesOn(t, u, o) /\ Len(u) = Len(t) + 1 /\ u[Len(u)] = e
<1>1. PICK m \in Nat : m = Len(t)
  OBVIOUS
<1>2. PICK E : E = Events
  OBVIOUS
<1>3. e \in E /\ t \in Seq(E)
  BY <1>2
<1>4. u \in Seq(E) /\ Len(u) = m + 1 /\ (\A i \in 1..m : u[i] = t[i]) /\ u[m + 1] = e
  BY <1>1, <1>3
<1>5. \A i \in (m + 1)..(m + 1) : u[i].id = o
  BY <1>4
<1>6. m <= m + 1
  OBVIOUS
<1>7. GoesOn(t, u, o)
  BY <1>1, <1>2, <1>4, <1>5, <1>6, Zenon DEF GoesOn
<1>8. QED BY <1>1, <1>4, <1>7

\* The first event of an order.
LEMMA StoryBegins ==
  ASSUME NEW t \in Seq(Events), NEW o \in Orders, Lawful(t, o, "None", 0),
         NEW type \in {"Denied", "Submitted"}, NEW u, u = Append(t, Event(o, type))
  PROVE  GoesOn(t, u, o) /\ Lawful(u, o, type, 0) /\ Foretells(u, o, type)
<1>1. Event(o, type) \in Events /\ Event(o, type).id = o /\ Event(o, type).type = type
  BY DEF Event, Events, Statuses
<1>2. PICK m \in Nat : m = Len(t) /\ Len(u) = m + 1 /\ GoesOn(t, u, o) /\ u[m + 1].type = type
  <2>1. PICK e \in Events : e = Event(o, type) /\ e.id = o /\ e.type = type
    BY <1>1
  <2>2. e \in Events /\ e.id = o /\ u = Append(t, e)
    BY <2>1
  <2>3. GoesOn(t, u, o) /\ Len(u) = Len(t) + 1 /\ u[Len(u)] = e
    BY ONLY <2>2, OneEventMore, t \in Seq(Events), Zenon
  <2>4. PICK m \in Nat : m = Len(t)
    OBVIOUS
  <2>5. m = Len(t) /\ Len(u) = m + 1 /\ GoesOn(t, u, o) /\ u[m + 1].type = type
    BY <2>1, <2>3, <2>4, Zenon
  <2>6. QED BY <2>5
<1>3. PICK n \in Nat : n = m + 1 /\ n = Len(u) /\ m = Len(t)
  BY <1>2
<1>4. PICK new : new = (m + 1)..n
  OBVIOUS
<1>5. GoesOn(t, u, o) /\ u[m + 1].type = type /\ \A i : i \in new <=> i = m + 1
  BY <1>2, <1>3, <1>4
<1>6. /\ Told(u, o) = Told(t, o) \cup new
      /\ \A other : ToldAs(u, o, other) = ToldAs(t, o, other) \cup {i \in new : u[i].type = other}
  BY ONLY <1>3, <1>4, <1>5, ToldMore, m \in Nat, n \in Nat
<1>7. Told(t, o) = {} /\ \A other : ToldAs(t, o, other) = {}
  BY Zenon DEF Lawful, ToldAs
<1>8. Told(u, o) = {m + 1}
  BY <1>5, <1>6, <1>7
<1>9. \A i, other : i \in ToldAs(u, o, other) <=> i = m + 1 /\ other = type
  <2>1. \A i, other : i \in ToldAs(u, o, other) <=> i \in Told(u, o) /\ u[i].type = other
    BY Zenon DEF ToldAs
  <2>2. QED BY <1>5, <1>8, <2>1
<1>10. Cardinality(ToldAs(u, o, "Filled")) = 0
  <2>1. ToldAs(u, o, "Filled") = {}
    BY <1>9
  <2>2. QED BY <2>1, FS_EmptySet
<1>11. Lawful(u, o, type, 0)
  <2>1. \A i \in Told(u, o) : i = m + 1 /\ u[i].type = type
    BY <1>5, <1>8
  <2>2. m + 1 \in Told(u, o) /\ m + 1 <= m + 1 /\ ~(m + 1 > m + 1)
    BY <1>8
  <2>3. type = "Denied" \/ type = "Submitted"
    OBVIOUS
  <2>4. (type = "Submitted") <=> (type # "Denied" /\ \A j \in Told(u, o) : m + 1 <= j)
    BY <2>1, <2>2, <2>3
  <2>5. /\ type # "None" /\ Told(u, o) # {}
        /\ type = "Denied" => \A i, j \in Told(u, o) : i = j /\ u[i].type = "Denied"
        /\ \A i, j \in ToldAs(u, o, "Accepted") : i = j
    <3>1. type # "None" /\ Told(u, o) # {}
      BY <2>2, <2>3
    <3>2. type = "Denied" => \A i, j \in Told(u, o) : i = j /\ u[i].type = "Denied"
      BY <2>1
    <3>3. \A i, j \in ToldAs(u, o, "Accepted") : i = j
      <4>1. \A i \in ToldAs(u, o, "Accepted") : i = m + 1
        BY <1>9
      <4>2. QED BY <4>1
    <3>4. QED BY <3>1, <3>2, <3>3
  <2>6. \A i \in Told(u, o) :
          /\ u[i].type = "Submitted" <=> type # "Denied" /\ \A j \in Told(u, o) : i <= j
          /\ u[i].type # "Filled" /\ u[i].type \notin {"Canceled", "Rejected"}
    BY <2>1, <2>3, <2>4
  <2>7. QED BY <1>10, <2>5, <2>6, Zenon DEF Lawful
<1>12. Foretells(u, o, type)
  BY <1>9 DEF Foretells
<1>13. QED BY <1>5, <1>11, <1>12

\* A rejection, or the late answer to a cancel.
LEMMA StoryAnswers ==
  ASSUME NEW t \in Seq(Events), NEW o \in Orders, NEW is, NEW fills \in Nat,
         Lawful(t, o, is, fills), Foretells(t, o, is), is \notin {"None", "Denied"},
         NEW type, NEW next, NEW u, u = Append(t, Event(o, type)),
         \/ type = "Rejected" /\ is = "Submitted" /\ next = "Rejected"
         \/ type = "CancelRejected" /\ next = is
  PROVE  GoesOn(t, u, o) /\ Lawful(u, o, next, fills) /\ Foretells(u, o, next)
<1>1. Event(o, type) \in Events /\ Event(o, type).id = o /\ Event(o, type).type = type
  BY DEF Event, Events, Statuses
<1>2. PICK m \in Nat : m = Len(t) /\ Len(u) = m + 1 /\ GoesOn(t, u, o) /\ u[m + 1].type = type
  <2>1. PICK e \in Events : e = Event(o, type) /\ e.id = o /\ e.type = type
    BY <1>1
  <2>2. e \in Events /\ e.id = o /\ u = Append(t, e)
    BY <2>1
  <2>3. GoesOn(t, u, o) /\ Len(u) = Len(t) + 1 /\ u[Len(u)] = e
    BY ONLY <2>2, OneEventMore, t \in Seq(Events), Zenon
  <2>4. PICK m \in Nat : m = Len(t)
    OBVIOUS
  <2>5. m = Len(t) /\ Len(u) = m + 1 /\ GoesOn(t, u, o) /\ u[m + 1].type = type
    BY <2>1, <2>3, <2>4, Zenon
  <2>6. QED BY <2>5
<1>3. PICK n \in Nat : n = m + 1 /\ n = Len(u) /\ m = Len(t)
  BY <1>2
<1>4. PICK new : new = (m + 1)..n
  OBVIOUS
<1>5. GoesOn(t, u, o) /\ u[m + 1].type = type /\ \A i : i \in new <=> i = m + 1
  BY <1>2, <1>3, <1>4
<1>6. \A i \in new : u[i].type = type /\ i = m + 1 /\ i = n
  BY <1>3, <1>5, Zenon
<1>7. MayFollow(t, u, o, is)
  BY <1>3, <1>4, <1>6 DEF MayFollow
<1>8. {i \in new : u[i].type = "Filled"} = {}
  BY <1>6
<1>9. fills = fills + Cardinality({i \in (Len(t) + 1)..Len(u) : u[i].type = "Filled"})
  <2>1. Cardinality({i \in (Len(t) + 1)..Len(u) : u[i].type = "Filled"}) = 0
    BY <1>3, <1>4, <1>8, FS_EmptySet, Zenon
  <2>2. fills = fills + 0
    OBVIOUS
  <2>3. QED BY <2>1, <2>2, Zenon
<1>10. next \notin {"None", "Denied"}
  OBVIOUS
<1>11. Lawful(u, o, next, fills)
  BY <1>5, <1>7, <1>9, <1>10, StoryGoesOn, Zenon
<1>12. \A other : other # type => ToldAs(u, o, other) = ToldAs(t, o, other)
  <2>1. \A other : ToldAs(u, o, other) = ToldAs(t, o, other) \cup {i \in new : u[i].type = other}
    BY ONLY <1>3, <1>4, <1>5, ToldMore, m \in Nat, n \in Nat
  <2>2. \A other : other # type => {i \in new : u[i].type = other} = {}
    BY <1>6
  <2>3. QED BY <2>1, <2>2
<1>13. Foretells(u, o, next)
  BY <1>12 DEF Foretells
<1>14. QED BY <1>5, <1>11, <1>13

\* One sequence after another, place by place.
LEMMA TwoParts ==
  ASSUME NEW E, NEW x \in Seq(E), NEW y \in Seq(E), NEW a \in Nat, NEW k \in Nat,
         a = Len(x), k = Len(y), NEW u, u = x \o y
  PROVE  /\ u \in Seq(E) /\ Len(u) = a + k
         /\ (\A i \in 1..a : u[i] = x[i]) /\ \A i \in 1..k : u[a + i] = y[i]
OBVIOUS

\* Three sequences after a first one, and the lengths of the four.
Joined(u, t, x, y, z, m, a, k, e) ==
  /\ u = t \o ((x \o y) \o z)
  /\ m = Len(t) /\ a = Len(x) /\ k = Len(y) /\ e = Len(z)

Placed(E, u, t, x, y, z, m, a, k, e) ==
  /\ u \in Seq(E) /\ Len(u) = m + a + k + e
  /\ \A i \in 1..m : u[i] = t[i]
  /\ \A i \in 1..a : u[m + i] = x[i]
  /\ \A i \in 1..k : u[m + a + i] = y[i]
  /\ \A i \in 1..e : u[m + a + k + i] = z[i]

\* Each is in its place.
LEMMA FourParts ==
  ASSUME NEW E, NEW t \in Seq(E), NEW x \in Seq(E), NEW y \in Seq(E), NEW z \in Seq(E),
         NEW m \in Nat, NEW a \in Nat, NEW k \in Nat, NEW e \in Nat,
         NEW u, Joined(u, t, x, y, z, m, a, k, e)
  PROVE  Placed(E, u, t, x, y, z, m, a, k, e)
<1> m = Len(t) /\ a = Len(x) /\ k = Len(y) /\ e = Len(z)
  BY DEF Joined
<1>1. PICK v, w : v = x \o y /\ w = v \o z
  OBVIOUS
<1>2. u = t \o w
  BY <1>1, Zenon DEF Joined
<1>3. /\ v \in Seq(E) /\ Len(v) = a + k
      /\ (\A i \in 1..a : v[i] = x[i]) /\ \A i \in 1..k : v[a + i] = y[i]
  BY ONLY <1>1, TwoParts, x \in Seq(E), y \in Seq(E), a \in Nat, k \in Nat, a = Len(x),
          k = Len(y)
<1>4. PICK b \in Nat, c \in Nat : b = a + k /\ c = b + e
  OBVIOUS
<1>5. v \in Seq(E) /\ b = Len(v) /\ w = v \o z
  BY <1>1, <1>3, <1>4, Zenon
<1>6. /\ w \in Seq(E) /\ Len(w) = b + e
      /\ (\A i \in 1..b : w[i] = v[i]) /\ \A i \in 1..e : w[b + i] = z[i]
  BY ONLY <1>5, TwoParts, z \in Seq(E), b \in Nat, e \in Nat, e = Len(z)
<1>7. w \in Seq(E) /\ c = Len(w)
  BY <1>4, <1>6
<1>8. /\ u \in Seq(E) /\ Len(u) = m + c
      /\ (\A i \in 1..m : u[i] = t[i]) /\ \A i \in 1..c : u[m + i] = w[i]
  BY ONLY <1>2, <1>7, TwoParts, t \in Seq(E), m \in Nat, c \in Nat, m = Len(t)
<1>9. \A i \in 1..a : u[m + i] = x[i]
  <2>1. \A i \in 1..a : i \in 1..b /\ i \in 1..c
    BY <1>4
  <2>2. QED BY <1>3, <1>6, <1>8, <2>1, Zenon
<1>10. \A i \in 1..k : u[m + a + i] = y[i]
  <2>1. \A i \in 1..k : a + i \in 1..b /\ a + i \in 1..c /\ m + (a + i) = m + a + i
    BY <1>4
  <2>2. \A i \in 1..k : w[a + i] = y[i]
    BY <1>3, <1>6, <2>1
  <2>3. \A i \in 1..k : u[m + (a + i)] = y[i]
    BY <1>8, <2>1, <2>2
  <2>4. QED BY <2>1, <2>3, Zenon
<1>11. \A i \in 1..e : u[m + a + k + i] = z[i]
  <2>1. \A i \in 1..e : b + i \in 1..c /\ m + (b + i) = m + a + k + i
    BY <1>4
  <2>2. \A i \in 1..e : u[m + (b + i)] = z[i]
    BY <1>6, <1>8, <2>1, Zenon
  <2>3. QED BY <2>1, <2>2, Zenon
<1>12. m + c = m + a + k + e
  BY <1>4
<1>13. QED BY <1>8, <1>9, <1>10, <1>11, <1>12, Zenon DEF Placed

\* A read adds an acceptance that was due (a), k fills and an end (e).
Adds(t, u, is, next, m, a, k, e) ==
  /\ m = Len(t) /\ Len(u) = m + a + k + e
  /\ \A i \in 1..a : u[m + i].type = "Accepted"
  /\ \A i \in 1..k : u[m + a + i].type = "Filled"
  /\ \A i \in 1..e : u[m + a + k + i].type = next
  /\ a = 1 => is = "Submitted"
  /\ k > 0 => a = 1 \/ is \in {"Accepted", "PartiallyFilled"}
  /\ e = 1 => next \in {"Canceled", "Rejected"}
  /\ is \in {"Canceled", "Rejected"} => a = 0 /\ k = 0 /\ e = 0

\* What the status after the read has to do with what was added.
Becomes(is, next, a, e) ==
  /\ is \notin {"None", "Denied"} /\ next \notin {"None", "Denied"}
  /\ next = "Submitted" => is = "Submitted" /\ a = 0
  /\ next \in {"Accepted", "PartiallyFilled"} =>
       a = 1 \/ is \in {"Accepted", "PartiallyFilled"}
  /\ next \notin {"Canceled", "Rejected"} => is \notin {"Canceled", "Rejected"} /\ e = 0

\* What a read adds to a lawful story keeps it lawful.
LEMMA StoryReads ==
  ASSUME NEW t, NEW u, NEW o, GoesOn(t, u, o), NEW is, NEW next, NEW fills \in Nat,
         Lawful(t, o, is, fills), Foretells(t, o, is),
         NEW m \in Nat, NEW a \in {0, 1}, NEW k \in Nat, NEW e \in {0, 1},
         Adds(t, u, is, next, m, a, k, e), Becomes(is, next, a, e)
  PROVE  Lawful(u, o, next, fills + k) /\ Foretells(u, o, next)
<1> USE DEF Adds, Becomes
<1>1. PICK n \in Nat : n = m + a + k + e /\ n = Len(u) /\ m <= n
  OBVIOUS
<1>2. PICK new : new = (m + 1)..n
  OBVIOUS
<1>3. \A i \in new : i \in Nat /\ m < i /\ i <= n
  BY <1>1, <1>2
<1>4. ASSUME NEW i \in new
      PROVE  \/ i = m + 1 /\ a = 1 /\ u[i].type = "Accepted"
             \/ m + a < i /\ i <= m + a + k /\ k > 0 /\ u[i].type = "Filled"
             \/ i = n /\ e = 1 /\ u[i].type = next /\ i > m + a + k
  <2>1. CASE i <= m + a
    <3>1. a = 1 /\ i = m + 1 /\ 1 \in 1..a
      BY <1>3, <2>1
    <3>2. QED BY <3>1
  <2>2. CASE m + a < i /\ i <= m + a + k
    <3>1. PICK j \in Nat : j = i - (m + a)
      BY <1>3, <2>2
    <3>2. j \in 1..k /\ i = m + a + j /\ k > 0
      BY <1>3, <2>2, <3>1
    <3>3. QED BY <2>2, <3>2
  <2>3. CASE i > m + a + k
    <3>1. e = 1 /\ i = m + a + k + 1 /\ i = n /\ 1 \in 1..e
      BY <1>1, <1>3, <2>3
    <3>2. QED BY <2>3, <3>1
  <2>4. QED BY <1>3, <2>1, <2>2, <2>3
<1>5. \A i \in new : u[i].type = "Filled" <=> m + a < i /\ i <= m + a + k
  BY <1>3, <1>4
<1>6. {i \in new : u[i].type = "Filled"} = (m + a + 1)..(m + a + k)
  <2>1. \A i \in (m + a + 1)..(m + a + k) : i \in new /\ m + a < i /\ i <= m + a + k
    BY <1>1, <1>2
  <2>2. \A i \in new : m + a < i /\ i <= m + a + k => i \in (m + a + 1)..(m + a + k)
    BY <1>3
  <2>3. QED BY <1>5, <2>1, <2>2
<1>7. fills + k = fills + Cardinality({i \in (Len(t) + 1)..Len(u) : u[i].type = "Filled"})
  <2>1. PICK x \in Int, y \in Int : x = m + a + 1 /\ y = m + a + k
    OBVIOUS
  <2>2. Cardinality(x..y) = IF x > y THEN 0 ELSE y - x + 1
    BY <2>1, FS_Interval
  <2>3. (IF x > y THEN 0 ELSE y - x + 1) = k
    BY <2>1
  <2>4. {i \in (Len(t) + 1)..Len(u) : u[i].type = "Filled"} = x..y
    BY <1>1, <1>2, <1>6, <2>1, Zenon
  <2>5. QED BY <2>2, <2>3, <2>4, Zenon
<1>8. MayFollow(t, u, o, is)
  <2>1. ASSUME NEW i \in new
        PROVE  /\ u[i].type # "Submitted"
               /\ u[i].type = "Accepted" => is = "Submitted" /\ i = m + 1
               /\ u[i].type = "Filled" =>
                    \/ is \in {"Accepted", "PartiallyFilled"}
                    \/ \E j \in new : j < i /\ u[j].type = "Accepted"
               /\ u[i].type \in {"Canceled", "Rejected"} => i = n
               /\ is \in {"Canceled", "Rejected"} => u[i].type = "CancelRejected"
    <3>1. CASE i = m + 1 /\ a = 1 /\ u[i].type = "Accepted"
      BY <3>1
    <3>2. CASE m + a < i /\ i <= m + a + k /\ k > 0 /\ u[i].type = "Filled"
      <4>1. CASE a = 1
        <5>1. m + 1 \in new /\ m + 1 < i /\ u[m + 1].type = "Accepted"
          BY <1>1, <1>2, <3>2, <4>1
        <5>2. QED BY <3>2, <4>1, <5>1
      <4>2. CASE is \in {"Accepted", "PartiallyFilled"}
        BY <3>2, <4>2
      <4>3. QED BY <3>2, <4>1, <4>2
    <3>3. CASE i = n /\ e = 1 /\ u[i].type = next /\ i > m + a + k
      BY <3>3
    <3>4. QED BY <1>4, <3>1, <3>2, <3>3
  <2>2. new = (Len(t) + 1)..Len(u) /\ n = Len(u)
    BY <1>1, <1>2, Zenon
  <2>3. QED BY <2>1, <2>2, Zenon DEF MayFollow
<1>9. Lawful(u, o, next, fills + k)
  <2>1. fills + k \in Nat
    OBVIOUS
  <2>2. QED BY <1>7, <1>8, <2>1, StoryGoesOn, Zenon
<1>10. \A type : ToldAs(u, o, type) = ToldAs(t, o, type) \cup {i \in new : u[i].type = type}
  BY ONLY <1>1, <1>2, ToldMore, GoesOn(t, u, o), m \in Nat, n \in Nat, m = Len(t)
<1>11. next = "Submitted" => ToldAs(u, o, "Accepted") = {}
  <2>1. next = "Submitted" => {i \in new : u[i].type = "Accepted"} = {}
    BY <1>4
  <2>2. next = "Submitted" => ToldAs(t, o, "Accepted") = {}
    BY DEF Foretells
  <2>3. QED BY <1>10, <2>1, <2>2
<1>12. next \in {"Accepted", "PartiallyFilled"} => ToldAs(u, o, "Accepted") # {}
  <2>1. a = 1 => m + 1 \in {i \in new : u[i].type = "Accepted"}
    BY <1>1, <1>2
  <2>2. is \in {"Accepted", "PartiallyFilled"} => ToldAs(t, o, "Accepted") # {}
    BY DEF Foretells
  <2>3. QED BY <1>10, <2>1, <2>2
<1>13. next \notin {"Canceled", "Rejected"} =>
         ToldAs(u, o, "Canceled") = {} /\ ToldAs(u, o, "Rejected") = {}
  <2>1. next \notin {"Canceled", "Rejected"} =>
          {i \in new : u[i].type = "Canceled"} = {} /\ {i \in new : u[i].type = "Rejected"} = {}
    BY <1>4
  <2>2. next \notin {"Canceled", "Rejected"} =>
          ToldAs(t, o, "Canceled") = {} /\ ToldAs(t, o, "Rejected") = {}
    BY DEF Foretells
  <2>3. QED BY <1>10, <2>1, <2>2
<1>14. QED BY <1>9, <1>11, <1>12, <1>13, Zenon DEF Foretells

\* A reconciliation tells the engine what its record and the books part by.
LEMMA RefreshTells ==
  ASSUME IInv, NEW o \in Orders, Refresh(o),
         Lawful(tx, o, status[o], filled[o]), Foretells(tx, o, status[o])
  PROVE  /\ GoesOn(tx, tx', o)
         /\ Lawful(tx', o, ObservedStatus(o), tradeBook[o])
         /\ Foretells(tx', o, ObservedStatus(o))
<1>1. /\ Visible(o) /\ ~Lagging(o) /\ ~Regressed(o) /\ Consistent(o) /\ HasRecord(o)
      /\ bookPhase[o] # "none" /\ tx' = tx \o NewEvents(o)
  BY DEF Refresh, News, Visible
<1>2. TypeOK /\ Trailing(o) /\ Ended(o)
  BY DEF IInv
<1>3. PICK is, next : is = status[o] /\ next = ObservedStatus(o)
  OBVIOUS
<1>4. is \in Statuses /\ is \notin {"None", "Denied"} /\ bookPhase[o] \in BookPhases
  BY <1>1, <1>2, <1>3 DEF TypeOK, HasRecord
<1>5. filled[o] \in Nat /\ tradeBook[o] \in Nat /\ filled[o] <= tradeBook[o]
  BY <1>1, <1>2 DEF TypeOK, Regressed
<1>6. PICK k \in Nat : k = tradeBook[o] - filled[o]
  BY <1>5
<1>7. PICK x, y, z : x = AcceptedEvents(o) /\ y = FillEvents(o) /\ z = TerminalEvents(o)
  OBVIOUS
<1>8. PICK E : E = Events
  OBVIOUS
<1>9. next \in Statuses /\ next \notin {"None", "Denied"}
  BY <1>3, <1>4 DEF ObservedStatus, Statuses
<1>10. PICK accepted \in E, fill \in E, end \in E :
         /\ accepted = Event(o, "Accepted") /\ accepted.id = o /\ accepted.type = "Accepted"
         /\ fill = Event(o, "Filled") /\ fill.id = o /\ fill.type = "Filled"
         /\ end = Event(o, next) /\ end.id = o /\ end.type = next
  <2>1. Event(o, "Accepted") \in E /\ Event(o, "Filled") \in E /\ Event(o, next) \in E
    BY <1>8, <1>9 DEF Event, Events, Statuses
  <2>2. \A type : Event(o, type).id = o /\ Event(o, type).type = type
    BY DEF Event
  <2>3. QED BY <2>1, <2>2, Zenon
<1>11. PICK due \in BOOLEAN : due <=> is = "Submitted" /\ bookPhase[o] \in {"open", "complete", "cancelled"}
  OBVIOUS
<1>12. PICK ends \in BOOLEAN : ends <=> next # is /\ next \in {"Canceled", "Rejected"}
  OBVIOUS
<1>13. PICK a \in {0, 1}, e \in {0, 1} : (a = 1 <=> due) /\ (e = 1 <=> ends)
  OBVIOUS
<1>14. x \in Seq(E) /\ a = Len(x) /\ \A i \in 1..a : x[i] = accepted
  <2>1. x = IF due THEN <<accepted>> ELSE <<>>
    BY <1>3, <1>7, <1>10, <1>11 DEF AcceptedEvents
  <2>2. QED BY <1>13, <2>1
<1>15. z \in Seq(E) /\ e = Len(z) /\ \A i \in 1..e : z[i] = end
  <2>1. z = IF ends THEN <<end>> ELSE <<>>
    BY <1>3, <1>7, <1>10, <1>12 DEF TerminalEvents
  <2>2. QED BY <1>13, <2>1
<1>16. y \in Seq(E) /\ k = Len(y) /\ \A i \in 1..k : y[i] = fill
  <2>1. y = [i \in 1..k |-> fill]
    BY <1>6, <1>7, <1>10, Zenon DEF FillEvents
  <2>2. QED BY <2>1
<1>17. PICK t, u : t = tx /\ u = tx'
  OBVIOUS
<1>18. PICK m \in Nat : t \in Seq(E) /\ m = Len(t)
  BY <1>2, <1>8, <1>17 DEF TypeOK
<1>19. Joined(u, t, x, y, z, m, a, k, e)
  BY <1>1, <1>7, <1>14, <1>15, <1>16, <1>17, <1>18, Zenon DEF NewEvents, Joined
<1>20. a \in Nat /\ e \in Nat
  OBVIOUS
<1>21. /\ u \in Seq(E) /\ Len(u) = m + a + k + e
       /\ \A i \in 1..m : u[i] = t[i]
       /\ \A i \in 1..a : u[m + i] = x[i]
       /\ \A i \in 1..k : u[m + a + i] = y[i]
       /\ \A i \in 1..e : u[m + a + k + i] = z[i]
  <2>1. t \in Seq(E) /\ x \in Seq(E) /\ y \in Seq(E) /\ z \in Seq(E)
    BY <1>14, <1>15, <1>16, <1>18
  <2>2. Placed(E, u, t, x, y, z, m, a, k, e)
    BY <1>19, <1>20, <2>1, FourParts, Zenon
  <2>3. QED BY <2>2, Zenon DEF Placed
<1>22. \A i \in 1..a : u[m + i] = accepted
  BY <1>14, <1>21, Zenon
<1>23. \A i \in 1..k : u[m + a + i] = fill
  BY <1>16, <1>21, Zenon
<1>24. \A i \in 1..e : u[m + a + k + i] = end
  BY <1>15, <1>21, Zenon
<1>25. GoesOn(t, u, o)
  <2>1. PICK n \in Nat : n = m + a + k + e /\ n = Len(u) /\ m <= n
    BY <1>20, <1>21
  <2>2. ASSUME NEW i \in (m + 1)..n PROVE u[i].id = o
    <3>1. PICK j \in Nat : j = i - m
      BY <2>2
    <3>2. CASE j <= a
      <4>1. j \in 1..a /\ i = m + j
        BY <2>2, <3>1, <3>2
      <4>2. QED BY <1>10, <1>22, <4>1, Zenon
    <3>3. CASE a < j /\ j <= a + k
      <4>1. PICK l \in 1..k : i = m + a + l
        <5>1. j - a \in 1..k /\ i = m + a + (j - a)
          BY <2>2, <3>1, <3>3
        <5>2. QED BY <5>1
      <4>2. QED BY <1>10, <1>23, <4>1, Zenon
    <3>4. CASE j > a + k
      <4>1. PICK l \in 1..e : i = m + a + k + l
        <5>1. j - (a + k) \in 1..e /\ i = m + a + k + (j - (a + k))
          BY <2>1, <2>2, <3>1, <3>4
        <5>2. QED BY <5>1
      <4>2. QED BY <1>10, <1>24, <4>1, Zenon
    <3>5. QED BY <3>2, <3>3, <3>4
  <2>3. QED BY <1>8, <1>18, <1>21, <2>1, <2>2, Zenon DEF GoesOn
<1>26. is \in ClosedStatuses => k = 0 /\ next = is
  <2>1. is \in ClosedStatuses => tradeBook[o] = filled[o] /\ ObservedStatus(o) = status[o]
    BY <1>1, <1>3, ClosedHasNoNews
  <2>2. QED BY <1>3, <1>5, <1>6, <2>1
<1>27. k > 0 => bookPhase[o] \in {"open", "complete", "cancelled"}
  <2>1. k > 0 => tradeBook[o] # 0
    BY <1>5, <1>6
  <2>2. bookPhase[o] # "rejected" \/ tradeBook[o] = 0
    BY <1>1 DEF Consistent
  <2>3. bookPhase[o] # "pending" \/ tradeBook[o] = 0
    BY <1>1 DEF Regressed
  <2>4. QED BY <1>1, <1>4, <2>1, <2>2, <2>3 DEF BookPhases
<1>28. bookPhase[o] = "pending" => next = "Submitted" /\ is = "Submitted"
  BY <1>1, <1>3 DEF Regressed, ObservedStatus
<1>29. /\ bookPhase[o] = "complete" => next = "Filled"
       /\ bookPhase[o] = "cancelled" => next = "Canceled"
       /\ bookPhase[o] = "rejected" => next = "Rejected"
       /\ bookPhase[o] = "open" => next \in {"Accepted", "PartiallyFilled"}
  BY <1>3 DEF ObservedStatus
<1>30. is = "Submitted" \/ is \in {"Accepted", "PartiallyFilled"} \/ is \in ClosedStatuses
  BY <1>4 DEF Statuses, ClosedStatuses
<1>31. bookPhase[o] \in {"pending", "open", "complete", "cancelled", "rejected"}
  BY <1>1, <1>4 DEF BookPhases
<1>32. a = 1 => is = "Submitted"
  BY <1>11, <1>13
<1>33. k > 0 => a = 1 \/ is \in {"Accepted", "PartiallyFilled"}
  BY <1>11, <1>13, <1>26, <1>27, <1>30
<1>34. e = 1 => next \in {"Canceled", "Rejected"}
  BY <1>12, <1>13
<1>35. is \in {"Canceled", "Rejected"} => a = 0 /\ k = 0 /\ e = 0
  BY <1>11, <1>12, <1>13, <1>26 DEF ClosedStatuses
<1>36. next = "Submitted" => is = "Submitted" /\ a = 0
  BY <1>11, <1>13, <1>28, <1>29, <1>31
<1>37. next \in {"Accepted", "PartiallyFilled"} =>
         a = 1 \/ is \in {"Accepted", "PartiallyFilled"}
  BY <1>11, <1>13, <1>26, <1>28, <1>29, <1>30, <1>31 DEF ClosedStatuses
<1>38. next \notin {"Canceled", "Rejected"} => is \notin {"Canceled", "Rejected"} /\ e = 0
  BY <1>12, <1>13, <1>26 DEF ClosedStatuses
<1>39. /\ \A i \in 1..a : u[m + i].type = "Accepted"
       /\ \A i \in 1..k : u[m + a + i].type = "Filled"
       /\ \A i \in 1..e : u[m + a + k + i].type = next
  BY <1>10, <1>22, <1>23, <1>24, Zenon
<1>40. PICK fills \in Nat : fills = filled[o]
  BY <1>5
<1>41. Lawful(t, o, is, fills) /\ Foretells(t, o, is)
  BY <1>3, <1>17, <1>40, Zenon
<1>42. Lawful(u, o, next, fills + k) /\ Foretells(u, o, next)
  <2>1. m = Len(t) /\ Len(u) = m + a + k + e
    BY <1>18, <1>21, Zenon
  <2>2. Adds(t, u, is, next, m, a, k, e)
    BY <1>32, <1>33, <1>34, <1>35, <1>39, <2>1, Zenon DEF Adds
  <2>3. Becomes(is, next, a, e)
    BY <1>4, <1>9, <1>36, <1>37, <1>38, Zenon DEF Becomes
  <2>4. QED
    BY ONLY <1>25, <1>41, <2>2, <2>3, fills \in Nat, m \in Nat, a \in {0, 1}, k \in Nat,
            e \in {0, 1}, StoryReads, ZenonT(60)
<1>43. fills + k = tradeBook[o]
  BY <1>5, <1>6, <1>40
<1>44. QED BY <1>3, <1>17, <1>25, <1>42, <1>43, Zenon

\* Steps that tell nothing and change no record.
LEMMA StoryQuiet ==
  ASSUME StoryInv, UNCHANGED <<tx, status, filled>>,
         \A o \in Orders : call' = <<"cancel", o>> => call = <<"cancel", o>> \/ HasRecord(o)
  PROVE  StoryInv'
<1>1. EventsLawful'
  BY Zenon DEF StoryInv, EventsLawful
<1>2. ASSUME NEW o \in Orders
      PROVE  Foretells(tx, o, status[o])' /\ (call = <<"cancel", o>> => HasRecord(o))'
  <2>1. Foretells(tx, o, status[o])'
    BY Zenon DEF StoryInv
  <2>2. HasRecord(o)' = HasRecord(o)
    BY Zenon DEF HasRecord
  <2>3. QED BY <2>1, <2>2, Zenon DEF StoryInv
<1>3. QED BY <1>1, <1>2, Zenon DEF StoryInv

\* Steps that tell of one order.
LEMMA StoryOfOne ==
  ASSUME StoryInv, NEW o \in Orders, GoesOn(tx, tx', o),
         Lawful(tx', o, status'[o], filled'[o]), Foretells(tx', o, status'[o]),
         \A p \in Orders : p # o => status'[p] = status[p] /\ filled'[p] = filled[p],
         \A p \in Orders : call' # <<"cancel", p>>
  PROVE  StoryInv'
<1>1. ASSUME NEW p \in Orders
      PROVE  Lawful(tx', p, status'[p], filled'[p]) /\ Foretells(tx', p, status'[p])
  <2>1. CASE p = o
    BY <2>1, Zenon
  <2>2. CASE p # o
    <3>1. Lawful(tx, p, status[p], filled[p]) /\ Foretells(tx, p, status[p])
      BY Zenon DEF StoryInv, EventsLawful
    <3>2. Lawful(tx', p, status[p], filled[p]) /\ Foretells(tx', p, status[p])
      BY <2>2, <3>1, ToldOthers, Zenon
    <3>3. QED BY <2>2, <3>2, Zenon
  <2>3. QED BY <2>1, <2>2
<1>2. QED BY <1>1, Zenon DEF StoryInv, EventsLawful

\* Each order's story at the start of a step.
LEMMA StorySoFar ==
  ASSUME IInv, StoryInv, NEW o \in Orders
  PROVE  /\ tx \in Seq(Events) /\ filled[o] \in Nat /\ status[o] \in Statuses
         /\ Lawful(tx, o, status[o], filled[o]) /\ Foretells(tx, o, status[o])
<1>1. tx \in Seq(Events) /\ filled[o] \in Nat /\ status[o] \in Statuses
  BY DEF IInv, TypeOK
<1>2. Lawful(tx, o, status[o], filled[o]) /\ Foretells(tx, o, status[o])
  BY Zenon DEF StoryInv, EventsLawful
<1>3. QED BY <1>1, <1>2

\* A submit command begins the order's story.
LEMMA StorySubmit ==
  ASSUME IInv, StoryInv, NEW o \in Orders, Submit(o)
  PROVE  StoryInv'
<1>1. PICK type \in {"Denied", "Submitted"} :
        /\ status' = [status EXCEPT ![o] = type] /\ tx' = Append(tx, Event(o, type))
        /\ UNCHANGED filled /\ (call' = call \/ call' = <<"place", o>>)
  BY DEF Submit, Deny, Place
<1>2. status[o] = "None" /\ call = <<>>
  BY DEF Submit, Takes, Idle
<1>3. status'[o] = type /\ \A p \in Orders : p # o => status'[p] = status[p]
  BY <1>1 DEF IInv, TypeOK
<1>4. Lawful(tx, o, "None", filled[o])
  BY <1>2, StorySoFar, Zenon
<1>5. filled[o] = 0
  <2>1. ToldAs(tx, o, "Filled") = {}
    <3>1. Told(tx, o) = {}
      BY <1>4, Zenon DEF Lawful
    <3>2. QED BY <3>1 DEF ToldAs
  <2>2. Cardinality(ToldAs(tx, o, "Filled")) = filled[o]
    BY <1>4, Zenon DEF Lawful
  <2>3. QED BY <2>1, <2>2, FS_EmptySet, Zenon
<1>6. PICK t, u : t = tx /\ u = tx'
  OBVIOUS
<1>7. t \in Seq(Events) /\ u = Append(t, Event(o, type)) /\ Lawful(t, o, "None", 0)
  <2>1. t \in Seq(Events)
    BY <1>6 DEF IInv, TypeOK
  <2>2. Lawful(t, o, "None", 0)
    BY <1>4, <1>5, <1>6, Zenon
  <2>3. QED BY <1>1, <1>6, <2>1, <2>2, Zenon
<1>8. GoesOn(t, u, o) /\ Lawful(u, o, type, 0) /\ Foretells(u, o, type)
  BY ONLY <1>7, StoryBegins, o \in Orders, type \in {"Denied", "Submitted"}, Zenon
<1>9. /\ GoesOn(tx, tx', o) /\ Lawful(tx', o, status'[o], filled'[o])
      /\ Foretells(tx', o, status'[o])
  BY <1>1, <1>3, <1>5, <1>6, <1>8, Zenon
<1>10. \A p \in Orders : call' # <<"cancel", p>>
  <2>1. call' = <<>> \/ call' = <<"place", o>>
    BY <1>1, <1>2, Zenon
  <2>2. \A p : <<>> # <<"cancel", p>> /\ <<"place", o>> # <<"cancel", p>>
    OBVIOUS
  <2>3. QED BY <2>1, <2>2, Zenon
<1>11. \A p \in Orders : p # o => status'[p] = status[p] /\ filled'[p] = filled[p]
  BY <1>1, <1>3
<1>12. QED BY <1>9, <1>10, <1>11, StoryOfOne

\* An answer that the engine is told of.
LEMMA StoryAnswer ==
  ASSUME IInv, StoryInv, NEW o \in Orders, status[o] \notin {"None", "Denied"},
         NEW type, NEW next, tx' = Append(tx, Event(o, type)),
         \/ type = "Rejected" /\ status[o] = "Submitted" /\ next = "Rejected"
         \/ type = "CancelRejected" /\ next = status[o],
         status' = [status EXCEPT ![o] = next], UNCHANGED filled, call' = <<>>
  PROVE  StoryInv'
<1>1. status'[o] = next /\ \A p \in Orders : p # o => status'[p] = status[p]
  BY DEF IInv, TypeOK
<1>2. PICK t, u, is : t = tx /\ u = tx' /\ is = status[o]
  OBVIOUS
<1>3. PICK fills \in Nat : fills = filled[o]
  BY StorySoFar
<1>4. t \in Seq(Events) /\ Lawful(t, o, is, fills) /\ Foretells(t, o, is)
  BY <1>2, <1>3, StorySoFar, Zenon
<1>5. /\ is \notin {"None", "Denied"} /\ u = Append(t, Event(o, type))
      /\ \/ type = "Rejected" /\ is = "Submitted" /\ next = "Rejected"
         \/ type = "CancelRejected" /\ next = is
  BY <1>2, Zenon
<1>6. GoesOn(t, u, o) /\ Lawful(u, o, next, fills) /\ Foretells(u, o, next)
  BY ONLY <1>4, <1>5, StoryAnswers, o \in Orders, fills \in Nat, Zenon
<1>7. /\ GoesOn(tx, tx', o) /\ Lawful(tx', o, status'[o], filled'[o])
      /\ Foretells(tx', o, status'[o])
  BY <1>1, <1>2, <1>3, <1>6, Zenon
<1>8. (\A p \in Orders : call' # <<"cancel", p>>)
      /\ \A p \in Orders : p # o => status'[p] = status[p] /\ filled'[p] = filled[p]
  BY <1>1
<1>9. QED BY <1>7, <1>8, StoryOfOne

\* A reconciliation.
LEMMA StoryRefresh ==
  ASSUME IInv, StoryInv, NEW o \in Orders, Refresh(o)
  PROVE  StoryInv'
<1>1. /\ status' = [status EXCEPT ![o] = ObservedStatus(o)]
      /\ filled' = [filled EXCEPT ![o] = tradeBook[o]] /\ call = <<>> /\ call' = call
  BY DEF Refresh, Idle
<1>2. /\ status'[o] = ObservedStatus(o) /\ filled'[o] = tradeBook[o]
      /\ \A p \in Orders : p # o => status'[p] = status[p] /\ filled'[p] = filled[p]
  BY <1>1 DEF IInv, TypeOK
<1>3. Lawful(tx, o, status[o], filled[o]) /\ Foretells(tx, o, status[o])
  BY StorySoFar
<1>4. /\ GoesOn(tx, tx', o) /\ Lawful(tx', o, status'[o], filled'[o])
      /\ Foretells(tx', o, status'[o])
  BY <1>2, <1>3, RefreshTells, Zenon
<1>5. \A p \in Orders : call' # <<"cancel", p>>
  BY <1>1
<1>6. QED BY <1>2, <1>4, <1>5, StoryOfOne

\* Every step keeps the story lawful.
LEMMA StoryStep == IInv /\ StoryInv /\ [Next]_vars => StoryInv'
<1> SUFFICES ASSUME IInv, StoryInv, [Next]_vars PROVE StoryInv'
  OBVIOUS
<1>1. ASSUME UNCHANGED <<tx, status, filled>>, call' = call \/ call' = <<>>
      PROVE  StoryInv'
  <2>1. \A o \in Orders : call' = <<"cancel", o>> => call = <<"cancel", o>>
    BY <1>1
  <2>2. QED BY <1>1, <2>1, StoryQuiet
<1>2. ASSUME NEW o \in Orders, Submit(o) PROVE StoryInv'
  BY <1>2, StorySubmit
<1>3. ASSUME NEW o \in Orders, Answer(o) PROVE StoryInv'
  <2>1. CASE PlaceRejected(o)
    <3>1. status[o] = "Submitted"
      BY <2>1 DEF PlaceRejected, IInv, Begun
    <3>2. QED BY <2>1, <3>1, StoryAnswer DEF PlaceRejected
  <2>2. ASSUME NEW outcome \in {"Acknowledged", "Rejected", "Unknown"},
               CancelAnswered(o, outcome)
        PROVE  StoryInv'
    <3>1. CASE outcome = "Rejected"
      <4>1. status[o] \notin {"None", "Denied"}
        BY <2>2 DEF CancelAnswered, StoryInv, HasRecord
      <4>2. status' = [status EXCEPT ![o] = status[o]]
        BY <2>2 DEF CancelAnswered, IInv, TypeOK
      <4>3. tx' = Append(tx, Event(o, "CancelRejected")) /\ filled' = filled /\ call' = <<>>
        BY <2>2, <3>1 DEF CancelAnswered
      <4>4. QED BY <4>1, <4>2, <4>3, StoryAnswer
    <3>2. CASE outcome # "Rejected"
      BY <1>1, <2>2, <3>2 DEF CancelAnswered
    <3>3. QED BY <3>1, <3>2
  <2>3. QED
    BY <1>1, <1>3, <2>1, <2>2 DEF Answer, PlaceAcknowledged, PlaceStopped, PlaceUnknown, CancelStopped
<1>4. ASSUME NEW o \in Orders, Cancel(o) PROVE StoryInv'
  <2>1. HasRecord(o) /\ call' = <<"cancel", o>> /\ UNCHANGED <<tx, status, filled>>
    BY <1>4 DEF Cancel, Unresolved, UnresolvedStatuses, HasRecord
  <2>2. \A p \in Orders : call' = <<"cancel", p>> => HasRecord(p)
    BY <2>1
  <2>3. QED BY <2>1, <2>2, StoryQuiet
<1>5. ASSUME NEW o \in Orders, Refresh(o) PROVE StoryInv'
  BY <1>5, StoryRefresh
<1>6. CASE Abort \/ Fault \/ FinishSettles \/ FinishGivesUp
  BY <1>1, <1>6 DEF Abort, Fault, FinishSettles, FinishGivesUp
<1>7. ASSUME NEW failed \in BOOLEAN, FinishStarts(failed) PROVE StoryInv'
  BY <1>1, <1>7 DEF FinishStarts
<1>8. CASE Kite
  <2>1. UNCHANGED dispatcherVars
    BY <1>8 DEF Kite, KiteReceives, KiteOpens, KiteRejects, KiteCancels, KiteMoves, KiteFills,
                OrderBookCatchesUp, TradeBookCatchesUp, PositionsCatchUp
  <2>2. QED BY <1>1, <2>1 DEF dispatcherVars
<1>9. CASE UNCHANGED vars
  BY <1>1, <1>9 DEF vars
<1>10. QED BY <1>2, <1>3, <1>4, <1>5, <1>6, <1>7, <1>8, <1>9 DEF Next

\* Nothing was told at the start.
LEMMA StoryInit == Init => StoryInv
<1> SUFFICES ASSUME Init PROVE StoryInv
  OBVIOUS
<1>1. ASSUME NEW o \in Orders
      PROVE  /\ Lawful(tx, o, status[o], filled[o]) /\ Foretells(tx, o, status[o])
             /\ call # <<"cancel", o>>
  <2>1. status[o] = "None" /\ filled[o] = 0 /\ tx = <<>> /\ call = <<>>
    BY DEF Init
  <2>2. Told(tx, o) = {}
    BY <2>1 DEF Told
  <2>3. \A type : ToldAs(tx, o, type) = {}
    BY <2>2 DEF ToldAs
  <2>4. Cardinality({}) = 0
    BY FS_EmptySet
  <2>5. Lawful(tx, o, "None", 0)
    <3>1. Cardinality(ToldAs(tx, o, "Filled")) = 0
      BY <2>3, <2>4, Zenon
    <3>2. QED BY <2>2, <2>3, <3>1 DEF Lawful
  <2>6. Foretells(tx, o, "None")
    BY <2>3 DEF Foretells
  <2>7. QED BY <2>1, <2>5, <2>6
<1>2. QED BY <1>1 DEF StoryInv, EventsLawful

\* The engine is told a lawful story of every order: Submitted first, Accepted
\* once before any fill, as many fills as the record has, one ending at most and
\* nothing after it but the late answer to a cancel (dispatch.rs, broker_events.rs).
THEOREM EventsLawfulHolds == Spec => []EventsLawful
<1>1. StoryInv => EventsLawful
  BY DEF StoryInv
<1>2. Spec => []StoryInv
  <2>1. Spec => [](IInv)
    BY Invariance
  <2>2. QED BY <2>1, StoryInit, StoryStep, PTL DEF Spec
<1>3. QED BY <1>1, <1>2, PTL
=============================================================================
