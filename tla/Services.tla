------------------------------ MODULE Services ------------------------------
(***************************************************************************)
(* Five parts that share no state: the account's order budget in Redis,    *)
(* the dashboard's queue, the reads of the account, the parked SATS        *)
(* strategy with its resting stop, and a stop whose trigger is moved.  One *)
(* of them is the subject of a behaviour; the others stand still.          *)
(***************************************************************************)
EXTENDS Integers, Sequences, FiniteSets, TLC

CONSTANTS
  Windows, Second, CooldownLow, CooldownHigh, MaxTime, MaxAllowed, MaxMishaps,
  Queue, PendingKept, Fills, MaxPushed, MaxFailures,
  MaxOrders, MaxLots, MaxTraded, Attempts, Charges, Prices, Digits,
  Setups, MaxTrades, MaxQuirks, MaxCalls,
  Triggers, MaxCommands

VARIABLES
  subject,
  now, store, logged, age, allowed, promised, mishaps,
  pushed, queue, dropped, stop, late, thread, stopping, board, noted, redis, sink, failures,
  broker, orders, trades, net, shown, client, read, view,
  setup, model, begun, strategy, calls, working, owned, up, news, stopped, quirks,
  record, management, poisoned, active, waiting, call, commands,
  onWay, asked, atKite, book, traded

budgetVars == <<now, store, logged, age, allowed, promised, mishaps>>
dashVars == <<pushed, queue, dropped, stop, late, thread, stopping, board, noted, redis, sink, failures>>
accountVars == <<broker, orders, trades, net, shown, client, read, view>>
satsVars == <<setup, model, begun, strategy, calls, working, owned, up, news, stopped, quirks>>
stopVars == <<record, management, poisoned, active, waiting, call, commands,
              onWay, asked, atKite, book, traded>>
vars == <<subject, budgetVars, dashVars, accountVars, satsVars, stopVars>>

Budget == INSTANCE OrderBudget
Dash == INSTANCE DashQueue
Account == INSTANCE AccountView
Sats == INSTANCE SatsLive
Stop == INSTANCE ProtectiveStop

ASSUME ServicesAssumption ==
  /\ Budget!BudgetAssumption
  /\ Dash!DashAssumption
  /\ Account!AccountAssumption
  /\ Sats!SatsLiveAssumption
  /\ Stop!StopAssumption

Init ==
  /\ subject \in {"budget", "dashboard", "account", "sats", "stop"}
  /\ Budget!Init /\ Dash!Init /\ Account!Init /\ Sats!Init /\ Stop!Init
  /\ broker = "kite" => subject = "account"
  /\ sink.attached \/ subject = "dashboard"
  /\ subject # "sats" => setup = CHOOSE u \in Setups : TRUE

BudgetStep ==
  /\ subject = "budget" /\ Budget!Next
  /\ UNCHANGED <<subject, dashVars, accountVars, satsVars, stopVars>>

DashStep ==
  /\ subject = "dashboard" /\ Dash!Next
  /\ UNCHANGED <<subject, budgetVars, accountVars, satsVars, stopVars>>

AccountStep ==
  /\ subject = "account" /\ Account!Next
  /\ UNCHANGED <<subject, budgetVars, dashVars, satsVars, stopVars>>

SatsStep ==
  /\ subject = "sats" /\ Sats!Next
  /\ UNCHANGED <<subject, budgetVars, dashVars, accountVars, stopVars>>

StopStep ==
  /\ subject = "stop" /\ Stop!Next
  /\ UNCHANGED <<subject, budgetVars, dashVars, accountVars, satsVars>>

Next == BudgetStep \/ DashStep \/ AccountStep \/ SatsStep \/ StopStep

Spec == Init /\ [][Next]_vars

-----------------------------------------------------------------------------
\* The budget of an account keeps its limits and its cooldowns through crashes of
\* Redis, lost answers and a clock set back (store.rs, reserve.lua).
BudgetHolds == Budget!BudgetHolds

\* The dashboard applies, keeps or counts every update and loses no recent event on the
\* way to Redis, and its thread does not end before the last (dash_writer.rs).
UpdatesAccountedFor == Dash!UpdatesAccountedFor

\* A snapshot that the client accepts is consistent, however the account moved while
\* it was read (broker.rs, outage.rs, reports.rs, fees.rs).
ViewAddsUp == Account!ViewAddsUp

\* The resting stop of SATS and the exit that follows its cancel never both fill
\* (sats_strategy.rs, dispatch.rs).
NeverBothFill == Sats!NeverBothFill

\* The trigger of a resting stop is only ever tightened at Kite, also while its record
\* trails (dispatch.rs, modify_stop).
StopNeverLoosens == Stop!StopNeverLoosens
=============================================================================
