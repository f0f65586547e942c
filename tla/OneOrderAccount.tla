--------------------------- MODULE OneOrderAccount ---------------------------
(***************************************************************************)
(* What the order dispatcher promises about the account it trades, stated  *)
(* without records, books, answers or events (native_client/mod.rs header, *)
(* dispatch.rs admit): at any moment the exchange works at most one order, *)
(* every order is opened against the position really held, and it either   *)
(* reduces that position, or enters from flat, or turns it round.          *)
(***************************************************************************)
EXTENDS Integers

CONSTANT MaxLots

VARIABLES
  net,    \* position really held
  open    \* what is still to trade of the orders that can still trade

AccountVars == <<net, open>>

Effect(s) == IF s.side = "BUY" THEN s.qty ELSE -s.qty
Within(n) == -MaxLots <= n /\ n <= MaxLots

\* The position an order aims at, seen from the position it starts from.
Reduces(from, to) == (0 <= to /\ to < from) \/ (from < to /\ to <= 0)
Turns(from, to) == (from < 0 /\ 0 < to) \/ (to < 0 /\ 0 < from)

MayOpen(s) ==
  /\ Within(net + Effect(s))
  /\ IF s.reduce THEN Reduces(net, net + Effect(s))
                 ELSE net = 0 \/ Turns(net, net + Effect(s))

Init == net = 0 /\ open = {}

Open(s) ==
  /\ open = {}
  /\ MayOpen(s)
  /\ open' = {s}
  /\ UNCHANGED net

\* One lot trades; the last one closes the order.
Trade(s) ==
  /\ open = {s}
  /\ net' = net + Effect([s EXCEPT !.qty = 1])
  /\ open' = IF s.qty = 1 THEN {} ELSE {[s EXCEPT !.qty = @ - 1]}

\* Refused, lost, rejected or cancelled.
Close ==
  /\ open # {}
  /\ open' = {}
  /\ UNCHANGED net

Next ==
  \/ \E side \in {"BUY", "SELL"}, qty \in 1..(2 * MaxLots), reduce \in BOOLEAN :
       Open([side |-> side, qty |-> qty, reduce |-> reduce])
  \/ \E s \in open : Trade(s)
  \/ Close

Spec == Init /\ [][Next]_AccountVars
=============================================================================
