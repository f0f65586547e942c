------------------------ MODULE ProtectiveStop_proofs ------------------------
(***************************************************************************)
(* Proofs about ProtectiveStop for any set of triggers and any number of   *)
(* commands: the trigger at Kite is only ever tightened, and a dispatcher  *)
(* that goes on with nothing outstanding has the trigger Kite has.         *)
(***************************************************************************)
EXTENDS ProtectiveStop, DataLemmas

-----------------------------------------------------------------------------
(* The inductive invariant *)

Whats == Triggers \cup {Cancel}
Resting == [trigger : Triggers,
            state : {"resting", "triggered", "complete", "cancelled"}]

\* Every variable the trigger depends on keeps its type.
Typed ==
  /\ record \in [trigger : Triggers, state : {"accepted", "complete", "cancelled"}]
  /\ management \subseteq [what : Whats, phase : {"Dispatching", "Acknowledged", "Unknown"}]
  /\ waiting \subseteq Whats
  /\ call \in [what : Whats, answer : {"none", "awaited", "acknowledged", "rejected"},
               refreshing : BOOLEAN]
  /\ onWay \subseteq Whats /\ asked \subseteq Triggers
  /\ atKite \in Resting /\ book \in Resting

\* There is one outstanding command at the most.
OneOutstanding == \A m, n \in management : m = n

\* With none outstanding nothing is under way, and record, book and Kite agree.
IdleAgrees ==
  management = {} => /\ onWay = {} /\ asked = {}
                     /\ atKite.trigger = record.trigger
                     /\ book.trigger = record.trigger

\* A request is on its way, or acknowledged and unsettled, or neither.
RequestIsOnce == onWay \cap asked = {}

\* What is under way is the outstanding command; it tightens the record, and until
\* it is settled Kite has the record's trigger.  The book has the old trigger or
\* Kite's.
OutstandingExplains ==
  \A m \in management :
    /\ onWay \subseteq {m.what} /\ asked \subseteq {m.what}
    /\ m.what \in Triggers => record.trigger <= m.what
    /\ atKite.trigger # record.trigger =>
         atKite.trigger = m.what /\ m.what \notin onWay \cup asked
    /\ book.trigger \in {record.trigger, atKite.trigger}

\* An acknowledged command is no longer on its way.
AcknowledgedArrived ==
  /\ call.answer = "acknowledged" => call.what \notin onWay
  /\ \A m \in management : m.phase = "Acknowledged" => m.what \notin onWay

IInv == /\ Typed /\ OneOutstanding /\ IdleAgrees /\ RequestIsOnce
        /\ OutstandingExplains /\ AcknowledgedArrived

-----------------------------------------------------------------------------
(* The invariant is inductive *)

\* The lowest trigger, the one the order was placed with, is one of the triggers.
LEMMA LowestIsTrigger == StopAssumption => Lowest \in Triggers
BY LeastNat, Zenon DEF StopAssumption, Lowest

\* A stop that was just placed is known as it is.
LEMMA InitIInv == ASSUME Lowest \in Triggers, Init PROVE IInv
<1>1. call \in [what : Whats, answer : {"none", "awaited", "acknowledged", "rejected"},
                refreshing : BOOLEAN]
  BY DEF Init, NoCall, Whats
<1>2. QED
  BY <1>1 DEF Init, IInv, Typed, OneOutstanding, IdleAgrees, RequestIsOnce,
    OutstandingExplains, AcknowledgedArrived, Resting, Whats, Cancel, NoCall

\* What the client does: a command is sent when none is outstanding, and given up
\* when the book shows its trigger after Kite acknowledged it.
LEMMA ClientStep ==
  ASSUME StopAssumption, IInv,
         \/ \E what \in Whats : Command(what)
         \/ \E to \in Triggers : Modifies(to)
         \/ Cancels \/ Acknowledged \/ Uncertain \/ CancelEnds \/ Refresh
         \/ StreamFails \/ StreamFaults \/ Aborts
  PROVE  IInv'
<1> USE DEF StopAssumption, IInv, Typed, OneOutstanding, IdleAgrees, RequestIsOnce,
            OutstandingExplains, AcknowledgedArrived, clientVars, kiteVars
<1>1. Cancel \notin Triggers
  BY DEF Cancel
<1>2. /\ NoCall.answer = "none" /\ Refreshing.answer = "none"
      /\ NoCall \in [what : Whats, answer : {"none", "awaited", "acknowledged", "rejected"},
                     refreshing : BOOLEAN]
      /\ Refreshing \in [what : Whats, answer : {"none", "awaited", "acknowledged", "rejected"},
                     refreshing : BOOLEAN]
  BY DEF NoCall, Refreshing, Whats
<1>3. ASSUME NEW what \in Whats, Command(what) PROVE IInv'
  BY <1>3 DEF Command
<1>4. ASSUME NEW what \in Whats, what \in Triggers => record.trigger <= what,
             management = {}, waiting' \subseteq Whats, Sends(what)
      PROVE  IInv'
  <2>1. /\ management' = {[what |-> what, phase |-> "Dispatching"]}
        /\ onWay' = {what} /\ asked' = {}
        /\ UNCHANGED <<record, atKite, book>>
    BY <1>4 DEF Sends
  <2>2. /\ call' \in [what : Whats, answer : {"none", "awaited", "acknowledged", "rejected"},
                      refreshing : BOOLEAN]
        /\ call'.answer = "awaited"
    BY <1>2, <1>4 DEF Sends
  <2>3. Typed' /\ OneOutstanding' /\ IdleAgrees' /\ RequestIsOnce'
    <3>1. Typed'
      BY <1>4, <2>1, <2>2
    <3>2. OneOutstanding'
      BY <2>1, Zenon
    <3>3. management' # {} /\ onWay' \cap asked' = {}
      BY <2>1
    <3>4. QED BY <3>1, <3>2, <3>3
  <2>4. OutstandingExplains'
    BY <1>4, <2>1
  <2>5. AcknowledgedArrived'
    BY <2>1, <2>2
  <2>6. QED BY <2>3, <2>4, <2>5
<1>5. ASSUME Refuses, waiting' \subseteq Whats PROVE IInv'
  BY <1>5 DEF Refuses
<1>6. ASSUME NEW to \in Triggers, Modifies(to) PROVE IInv'
  BY <1>4, <1>5, <1>6 DEF Modifies, Modifiable, ModifiableTwice, Whats
<1>7. CASE Cancels
  <2>1. CASE ~active
    <3>1. waiting' \subseteq Whats
          /\ UNCHANGED <<record, management, call, onWay, asked, atKite, book>>
      BY <1>7, <2>1 DEF Cancels
    <3>2. QED BY <3>1
  <2>2. CASE active
    <3>1. waiting' \subseteq Whats /\ Cancel \in Whats
      BY <1>7 DEF Cancels, Whats
    <3>2. Refuses \/ (management = {} /\ Sends(Cancel))
      BY <1>7, <2>2 DEF Cancels, Cancellable
    <3>3. QED BY <1>1, <1>4, <1>5, <3>1, <3>2
  <2>3. QED BY <2>1, <2>2
<1>8. ASSUME NEW phase \in {"Acknowledged", "Unknown"}, Recorded(phase),
             phase = "Acknowledged" => call.answer = "acknowledged",
             call' \in {NoCall, Refreshing},
             UNCHANGED <<record, waiting, onWay, asked, atKite, book>>
      PROVE  IInv'
  <2>1. call' \in [what : Whats, answer : {"none", "awaited", "acknowledged", "rejected"},
                   refreshing : BOOLEAN] /\ call'.answer = "none"
    BY <1>2, <1>8
  <2>2. CASE management = {}
    <3>1. management' = {}
      BY <1>8, <2>2 DEF Recorded
    <3>2. QED BY <1>8, <2>1, <2>2, <3>1
  <2>3. ASSUME NEW n \in management PROVE IInv'
    <3> DEFINE r == IF n.what = call.what THEN [n EXCEPT !.phase = phase] ELSE n
    <3>1. management = {n}
      BY OneOutstanding
    <3>2. management' = {r}
      BY <1>8, <3>1 DEF Recorded
    <3>3. /\ r \in [what : Whats, phase : {"Dispatching", "Acknowledged", "Unknown"}]
          /\ r.what = n.what
          /\ r.phase = "Acknowledged" => r.what \notin onWay
      BY <1>8
    <3> HIDE DEF r
    <3>4. Typed' /\ OneOutstanding' /\ IdleAgrees' /\ RequestIsOnce'
      BY <1>8, <2>1, <3>2, <3>3
    <3>5. OutstandingExplains' /\ AcknowledgedArrived'
      BY <1>8, <2>1, <3>1, <3>2, <3>3
    <3>6. QED BY <3>4, <3>5
  <2>4. QED BY <2>2, <2>3
<1>9. CASE Acknowledged
  BY <1>8, <1>9 DEF Acknowledged
<1>10. CASE Uncertain
  BY <1>8, <1>10 DEF Uncertain
<1>11. CASE CancelEnds
  BY <1>8, <1>11 DEF CancelEnds
<1>12. CASE Refresh
  <2>1. call' = NoCall /\ UNCHANGED <<waiting, onWay, asked, atKite, book>>
    BY <1>12 DEF Refresh
  <2>2. CASE UNCHANGED <<record, management>>
    BY <1>2, <2>1, <2>2
  <2>3. CASE ~Contradicts /\ Observed
    <3>1. CASE Moved
      <4>1. PICK m \in management : m.what = book.trigger /\ m.phase = "Acknowledged"
        BY <2>3, <3>1 DEF Contradicts, Confirmed
      <4>2. book.trigger = atKite.trigger /\ atKite.trigger # record.trigger
        BY <3>1, <4>1 DEF Moved
      <4>3. onWay = {} /\ asked = {}
        BY <4>1, <4>2
      <4>4. record' \in [trigger : Triggers, state : {"accepted", "complete", "cancelled"}]
            /\ record'.trigger = atKite.trigger /\ management' = {}
        BY <2>3, <3>1, <4>2 DEF Observed, Resting
      <4>5. QED BY <1>2, <2>1, <4>2, <4>3, <4>4
    <3>2. CASE ~Moved
      <4>1. record' \in [trigger : Triggers, state : {"accepted", "complete", "cancelled"}]
            /\ record'.trigger = record.trigger /\ management' = management
        BY <2>3, <3>2 DEF Observed
      <4>2. QED BY <1>2, <2>1, <4>1
    <3>3. QED BY <3>1, <3>2
  <2>4. QED BY <1>12, <2>2, <2>3 DEF Refresh
<1>13. CASE StreamFails \/ StreamFaults
  BY <1>13 DEF StreamFails, StreamFaults
<1>14. CASE Aborts
  BY <1>2, <1>14 DEF Aborts
<1>15. QED
  BY <1>3, <1>6, <1>7, <1>9, <1>10, <1>11, <1>12, <1>13, <1>14

\* What Kite does: it takes, refuses and settles the outstanding command only, and
\* its trigger moves from the record's to the command's.
LEMMA KiteStep ==
  ASSUME StopAssumption, IInv,
         \/ \E what \in Whats : KiteTakes(what) \/ KiteRefuses(what)
         \/ \E to \in Triggers : ExchangeSettles(to)
         \/ ExchangeMoves \/ BookCatchesUp \/ TradesCatchUp
  PROVE  IInv' /\ atKite'.trigger >= atKite.trigger
<1> USE DEF StopAssumption, IInv, Typed, OneOutstanding, IdleAgrees, RequestIsOnce,
            OutstandingExplains, AcknowledgedArrived, UnchangedClient, Resting
<1>0. Triggers \subseteq Nat /\ atKite.trigger \in Nat
  OBVIOUS
<1>1. Cancel \notin Triggers
  BY DEF Cancel
<1>2. ASSUME NEW what \in Whats, NEW answer \in {"acknowledged", "rejected"},
             Answers(what, answer), onWay' = onWay \ {what}
      PROVE  /\ call' \in [what : Whats,
                           answer : {"none", "awaited", "acknowledged", "rejected"},
                           refreshing : BOOLEAN]
             /\ call'.answer = "acknowledged" => call'.what \notin onWay'
  BY <1>2 DEF Answers, Awaits
<1>3. ASSUME NEW what \in Whats, KiteTakes(what) PROVE IInv' /\ atKite'.trigger = atKite.trigger
  <2>1. /\ what \in onWay /\ onWay' = onWay \ {what} /\ Answers(what, "acknowledged")
        /\ UNCHANGED <<record, management, waiting, book>>
    BY <1>3 DEF KiteTakes
  <2>2. atKite' \in Resting /\ atKite'.trigger = atKite.trigger
    BY <1>3 DEF KiteTakes
  <2>3. \/ asked' = {}
        \/ what \in Triggers /\ asked' = asked \cup {what}
    BY <1>3 DEF KiteTakes, Whats
  <2>4. PICK m \in management : m.what = what /\ management = {m}
    BY <2>1
  <2>5. atKite.trigger = record.trigger
    BY <2>1, <2>4
  <2>6. Typed' /\ OneOutstanding' /\ IdleAgrees' /\ RequestIsOnce'
    BY <1>2, <2>1, <2>2, <2>3, <2>4
  <2>7. OutstandingExplains' /\ AcknowledgedArrived'
    BY <1>2, <2>1, <2>2, <2>3, <2>4, <2>5
  <2>8. QED BY <2>2, <2>6, <2>7
<1>4. ASSUME NEW what \in Whats, KiteRefuses(what) PROVE IInv' /\ atKite' = atKite
  BY <1>2, <1>4 DEF KiteRefuses
<1>5. ASSUME NEW to \in Triggers, ExchangeSettles(to)
      PROVE  IInv' /\ atKite'.trigger >= atKite.trigger
  <2>1. PICK m \in management : m.what = to /\ management = {m} /\ record.trigger <= to
    BY <1>5 DEF ExchangeSettles
  <2>2. to \in asked /\ asked' = {} /\ onWay = {} /\ atKite.trigger = record.trigger
    BY <1>5, <2>1 DEF ExchangeSettles
  <2>3. /\ UNCHANGED <<record, management, waiting, call, onWay, book>>
        /\ atKite' \in Resting
        /\ atKite'.trigger = atKite.trigger \/ atKite'.trigger = to
    BY <1>5 DEF ExchangeSettles
  <2>4. Typed' /\ OneOutstanding' /\ IdleAgrees' /\ RequestIsOnce'
    BY <2>1, <2>2, <2>3
  <2>5. OutstandingExplains' /\ AcknowledgedArrived'
    BY <2>1, <2>2, <2>3
  <2>6. atKite'.trigger >= atKite.trigger
    BY ONLY <1>0, <2>1, <2>2, <2>3, to \in Triggers
  <2>7. QED BY <2>4, <2>5, <2>6
<1>6. CASE ExchangeMoves
  <2>1. UNCHANGED <<record, management, waiting, call, onWay, book>> /\ asked' = {}
    BY <1>6 DEF ExchangeMoves
  <2>2. PICK s \in {"triggered", "cancelled", "complete"} : atKite' = [atKite EXCEPT !.state = s]
    BY <1>6 DEF ExchangeMoves
  <2>3. atKite' \in Resting /\ atKite'.trigger = atKite.trigger
    BY <2>2
  <2>4. QED BY <1>0, <2>1, <2>3
<1>7. CASE BookCatchesUp
  <2>1. UNCHANGED <<record, management, waiting, call, onWay, asked, atKite>> /\ book' = atKite
    BY <1>7 DEF BookCatchesUp
  <2>2. QED BY <1>0, <2>1
<1>8. CASE TradesCatchUp
  <2>1. UNCHANGED <<record, management, waiting, call, onWay, asked, atKite, book>>
    BY <1>8 DEF TradesCatchUp
  <2>2. QED BY <1>0, <2>1
<1>9. QED BY <1>3, <1>4, <1>5, <1>6, <1>7, <1>8, <1>0

\* The client does not touch the stop at Kite.
LEMMA ClientKeepsKite ==
  ASSUME \/ \E what \in Whats : Command(what)
         \/ \E to \in Triggers : Modifies(to)
         \/ Cancels \/ Acknowledged \/ Uncertain \/ CancelEnds \/ Refresh
         \/ StreamFails \/ StreamFaults \/ Aborts
  PROVE  atKite' = atKite
<1>1. ASSUME NEW what, Sends(what) PROVE atKite' = atKite
  BY <1>1 DEF Sends
<1>2. CASE Refuses
  BY <1>2 DEF Refuses, kiteVars
<1>3. CASE \E to \in Triggers : Modifies(to)
  BY <1>1, <1>2, <1>3 DEF Modifies
<1>4. CASE Cancels
  BY <1>1, <1>2, <1>4 DEF Cancels, kiteVars
<1>5. QED
  BY <1>3, <1>4 DEF Command, Acknowledged, Uncertain, CancelEnds, Refresh,
    StreamFails, StreamFaults, Aborts, kiteVars

\* The invariant is inductive, and no step moves Kite's trigger down.
LEMMA Step ==
  ASSUME StopAssumption, IInv, [Next]_vars
  PROVE  IInv' /\ atKite'.trigger >= atKite.trigger
<1>1. atKite.trigger \in Nat
  BY DEF StopAssumption, IInv, Typed, Resting
<1>2. CASE UNCHANGED vars
  BY <1>1, <1>2 DEF vars, clientVars, kiteVars, IInv, Typed, OneOutstanding, IdleAgrees,
    RequestIsOnce, OutstandingExplains, AcknowledgedArrived
<1>3. CASE Next
  BY <1>1, <1>3, ClientStep, ClientKeepsKite, KiteStep DEF Next, Whats
<1>4. QED BY <1>2, <1>3

\* In every state of every run the invariant holds.
THEOREM Invariance == ASSUME StopAssumption PROVE Spec => []IInv
<1>1. Init => IInv
  BY InitIInv, LowestIsTrigger
<1>2. IInv /\ [Next]_vars => IInv'
  BY Step
<1>3. QED BY <1>1, <1>2, PTL DEF Spec

\* The stop at Kite never moves away from the market, and a dispatcher that goes on
\* with nothing outstanding has Kite's trigger.
THEOREM StopNeverLoosensHolds == ASSUME StopAssumption PROVE Spec => StopNeverLoosens
<1>1. ASSUME IInv, [Next]_vars
      PROVE  /\ atKite'.trigger >= atKite.trigger
             /\ ~poisoned' /\ management' = {} => record'.trigger = atKite'.trigger
  BY <1>1, Step DEF IInv, IdleAgrees
<1>2. QED BY <1>1, Invariance, PTL DEF Spec, StopNeverLoosens

=============================================================================
