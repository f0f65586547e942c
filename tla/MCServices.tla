------------------------------ MODULE MCServices ------------------------------
(***************************************************************************)
(* Services for TLC.                                                       *)
(***************************************************************************)
EXTENDS Services

MCWindows == {<<1, 1>>, <<3, 2>>}
MCFills == {2, -3}
MCCharges == {0, 5}
MCPrices == {1, 2}
MCSetups ==
  {[exits |-> "single", at |-> "TP2", intrabar |-> TRUE, exchangeStop |-> TRUE, lots |-> 2],
   [exits |-> "trail", at |-> "TP1", intrabar |-> FALSE, exchangeStop |-> TRUE, lots |-> 1],
   [exits |-> "thirds", at |-> "TP1", intrabar |-> FALSE, exchangeStop |-> FALSE, lots |-> 3]}

\* The account: to buy and to sell are mirror images, so the first order buys; and a stop
\* is followed while it is the only order.
Followed ==
  /\ orders # <<>> => orders[1].side = 1
  /\ Len(orders) > 1 => \A i \in DOMAIN orders : orders[i].trigger = 0
===============================================================================
