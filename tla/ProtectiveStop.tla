---------------------------- MODULE ProtectiveStop ----------------------------
(***************************************************************************)
(* One resting stop of the execution client, whose trigger is moved while  *)
(* Kite may trigger, fill, cancel or refuse (native_client/dispatch.rs:    *)
(* modify_stop, cancel, prepare_observation; mod.rs: modify_order).  The   *)
(* stop protects a long position of one lot, the only one modify_stop      *)
(* serves; a short one is its mirror image.                                *)
(*                                                                         *)
(* An acknowledgement is not yet a modification: the exchange may decline  *)
(* it or execute the stop first, and the order book trails both.  So the   *)
(* record keeps the command (`management`) until a read shows the trigger. *)
(***************************************************************************)
EXTENDS Integers

CONSTANTS
  Triggers,    \* trigger prices; the order was placed with the lowest
  MaxCommands  \* bound: commands of the strategy

\* Assumed by Services.
StopAssumption ==
  /\ Triggers \subseteq Nat \ {0} /\ Triggers # {} /\ MaxCommands \in Nat

VARIABLES
  record,     \* the dispatcher's record: trigger, and accepted, complete or cancelled
  management, \* its commands without an observed end
  poisoned,   \* the dispatcher is stopped
  active,     \* the client's flag
  waiting,    \* commands whose tasks wait for the dispatcher's lock
  call,       \* the command whose task holds it, and its answer
  onWay,      \* requests on their way to Kite
  asked,      \* modifications Kite acknowledged and the exchange has not settled
  atKite,     \* the stop as it is: trigger, and resting, triggered, complete or cancelled
  book,       \* as the order book shows it
  traded,     \* the trade book shows its fill
  commands    \* commands so far

clientVars == <<record, management, poisoned, active, waiting, call, commands>>
kiteVars == <<onWay, asked, atKite, book, traded>>
vars == <<clientVars, kiteVars>>

Cancel == 0   \* the command that is not a new trigger
NoCall == [what |-> Cancel, answer |-> "none", refreshing |-> FALSE]
Refreshing == [NoCall EXCEPT !.refreshing = TRUE]
Free == call = NoCall
Lowest == CHOOSE p \in Triggers : \A q \in Triggers : p <= q

Init ==
  /\ record = [trigger |-> Lowest, state |-> "accepted"]
  /\ management = {} /\ poisoned = FALSE /\ active = TRUE
  /\ waiting = {} /\ call = NoCall /\ commands = 0
  /\ onWay = {} /\ asked = {} /\ traded = FALSE
  /\ atKite = [trigger |-> Lowest, state |-> "resting"] /\ book = atKite

-----------------------------------------------------------------------------
(* The client. *)

\* modify_order, cancel_order: a task that looks at the flag and waits for the lock.
Command(what) ==
  /\ active /\ commands < MaxCommands /\ what \notin waiting
  /\ waiting' = waiting \cup {what} /\ commands' = commands + 1
  /\ UNCHANGED <<record, management, poisoned, active, call, kiteVars>>

\* What the dispatcher goes by: its record, never a read.
\* Mutant: a modification beside one that is outstanding.
ModifiableTwice(to) == ~poisoned /\ record.state = "accepted" /\ to >= record.trigger
Modifiable(to) == ModifiableTwice(to) /\ management = {}
Cancellable == ~poisoned /\ record.state = "accepted" /\ management = {}

\* An error of a command or a read ends the client.
Faults == poisoned' = TRUE /\ active' = FALSE

\* The dispatcher is poisoned while it awaits the answer.
Sends(what) ==
  /\ management' = management \cup {[what |-> what, phase |-> "Dispatching"]}
  /\ poisoned' = TRUE
  /\ call' = [NoCall EXCEPT !.what = what, !.answer = "awaited"]
  /\ onWay' = onWay \cup {what}
  /\ UNCHANGED <<record, active, commands, asked, atKite, book, traded>>

Refuses == Faults /\ UNCHANGED <<record, management, call, commands, kiteVars>>

\* modify_stop; the flag is not looked at again.
Modifies(to) ==
  /\ Free /\ to \in waiting \ {Cancel} /\ waiting' = waiting \ {to}
  /\ IF Modifiable(to) THEN Sends(to) ELSE Refuses

\* cancel; the flag is looked at again.
Cancels ==
  /\ Free /\ Cancel \in waiting /\ waiting' = waiting \ {Cancel}
  /\ CASE ~active -> UNCHANGED <<record, management, poisoned, active, call, commands, kiteVars>>
       [] active /\ Cancellable -> Sends(Cancel)
       [] active /\ ~Cancellable -> Refuses

Awaits == call.answer # "none"
Recorded(phase) ==
  management' = {IF m.what = call.what THEN [m EXCEPT !.phase = phase] ELSE m : m \in management}

\* The answer of modify_stop: refused, late and lost (whatever it was) are uncertain.
Acknowledged ==
  /\ call.answer = "acknowledged" /\ call.what # Cancel
  /\ Recorded("Acknowledged") /\ poisoned' = FALSE /\ call' = Refreshing
  /\ UNCHANGED <<record, active, waiting, commands, kiteVars>>
Uncertain ==
  /\ Awaits /\ call.what # Cancel
  /\ Recorded("Unknown") /\ Faults /\ call' = NoCall
  /\ UNCHANGED <<record, waiting, commands, kiteVars>>

\* The answer of cancel, whatever it is; an expired session or a rate limit faults.
CancelEnds ==
  /\ Awaits /\ call.what = Cancel
  /\ \/ poisoned' = FALSE /\ call' = Refreshing /\ UNCHANGED active
     \/ call.answer = "rejected" /\ Faults /\ call' = NoCall
  /\ Recorded("Unknown")
  /\ UNCHANGED <<record, waiting, commands, kiteVars>>

\* prepare_observation: what an outstanding modification may show.
Requested == {m.what : m \in management} \ {Cancel}
Moved == book.trigger \in Requested /\ book.trigger # record.trigger
Confirmed ==
  /\ [what |-> book.trigger, phase |-> "Acknowledged"] \in management
  /\ book.state = "resting"
Contradicts ==
  \/ \E m, n \in management : m # n
  \/ Moved /\ ~Confirmed
  \/ /\ ~Moved /\ book.trigger # record.trigger
     /\ Requested # {} \/ book.state # "complete"
Lags == traded # (book.state = "complete")

Observed ==
  /\ record' = [trigger |-> IF Moved THEN book.trigger ELSE record.trigger,
                state |-> IF book.state \in {"complete", "cancelled"} THEN book.state ELSE "accepted"]
  /\ management' = IF Moved THEN {} ELSE management

\* refresh, after a command or of the monitor: an error, lag (nothing is applied), or
\* what the books show.
Refresh ==
  /\ ~poisoned /\ (Free \/ call = Refreshing)
  /\ call' = NoCall
  /\ CASE Contradicts -> Faults /\ UNCHANGED <<record, management>>
       [] ~Contradicts /\ Lags -> UNCHANGED <<record, management, poisoned, active>>
       [] ~Contradicts /\ ~Lags -> Observed /\ UNCHANGED <<poisoned, active>>
  /\ UNCHANGED <<waiting, commands, kiteVars>>

\* The monitor ends with an error: the flag falls, and then, with the lock, the fault.
StreamFails ==
  /\ active /\ active' = FALSE
  /\ UNCHANGED <<record, management, poisoned, waiting, call, commands, kiteVars>>
StreamFaults ==
  /\ ~active /\ ~poisoned /\ Free /\ poisoned' = TRUE
  /\ UNCHANGED <<record, management, active, waiting, call, commands, kiteVars>>

\* disconnect: the tasks are aborted at their awaits.
Aborts ==
  /\ active' = FALSE /\ waiting' = {} /\ call' = NoCall
  /\ UNCHANGED <<record, management, poisoned, commands, kiteVars>>

-----------------------------------------------------------------------------
(* Kite. *)

Answers(what, answer) ==
  call' = IF Awaits /\ call.what = what THEN [call EXCEPT !.answer = answer] ELSE call
UnchangedClient == UNCHANGED <<record, management, poisoned, active, waiting, commands>>

KiteTakes(what) ==
  /\ what \in onWay /\ onWay' = onWay \ {what} /\ atKite.state = "resting"
  /\ Answers(what, "acknowledged")
  /\ IF what = Cancel
       THEN atKite' = [atKite EXCEPT !.state = "cancelled"] /\ asked' = {}
       ELSE asked' = asked \cup {what} /\ UNCHANGED atKite
  /\ UnchangedClient /\ UNCHANGED <<book, traded>>
KiteRefuses(what) ==
  /\ what \in onWay /\ onWay' = onWay \ {what}
  /\ Answers(what, "rejected")
  /\ UnchangedClient /\ UNCHANGED <<asked, atKite, book, traded>>

\* The exchange applies an acknowledged modification, or declines it.
ExchangeSettles(to) ==
  /\ to \in asked /\ asked' = asked \ {to}
  /\ atKite' \in {atKite, [atKite EXCEPT !.trigger = to]}
  /\ UnchangedClient /\ UNCHANGED <<call, onWay, book, traded>>

\* The stop triggers, fills, or is cancelled by Kite.
ExchangeMoves ==
  /\ atKite' \in IF atKite.state = "resting"
                   THEN {[atKite EXCEPT !.state = s] : s \in {"triggered", "cancelled"}}
                   ELSE {[atKite EXCEPT !.state = "complete"]}
  /\ atKite.state \in {"resting", "triggered"}
  /\ asked' = {}
  /\ UnchangedClient /\ UNCHANGED <<call, onWay, book, traded>>

BookCatchesUp ==
  /\ book # atKite /\ book' = atKite
  /\ UnchangedClient /\ UNCHANGED <<call, onWay, asked, atKite, traded>>
TradesCatchUp ==
  /\ ~traded /\ atKite.state = "complete" /\ traded' = TRUE
  /\ UnchangedClient /\ UNCHANGED <<call, onWay, asked, atKite, book>>

Next ==
  \/ \E what \in Triggers \cup {Cancel} : Command(what) \/ KiteTakes(what) \/ KiteRefuses(what)
  \/ \E to \in Triggers : Modifies(to) \/ ExchangeSettles(to)
  \/ Cancels \/ Acknowledged \/ Uncertain \/ CancelEnds \/ Refresh
  \/ StreamFails \/ StreamFaults \/ Aborts
  \/ ExchangeMoves \/ BookCatchesUp \/ TradesCatchUp

Spec == Init /\ [][Next]_vars

-----------------------------------------------------------------------------
\* The stop at Kite never moves away from the market, although a new trigger is only
\* compared with a record that trails Kite; and a dispatcher that goes on with no
\* command outstanding has the trigger Kite has (dispatch.rs: "Stop update cannot
\* loosen risk", the outstanding command, and the fault of an uncertain answer).
StopNeverLoosens ==
  [][/\ atKite'.trigger >= atKite.trigger
     /\ ~poisoned' /\ management' = {} => record'.trigger = atKite'.trigger]_vars
===============================================================================
