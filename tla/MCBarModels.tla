------------------------------ MODULE MCBarModels ------------------------------
(***************************************************************************)
(* BarModels for TLC: prices from a gap through the stop to the last target. *)
(***************************************************************************)
EXTENDS BarModels

MCPrices == -2..3
MCModes ==
  {[exits |-> "thirds", at |-> 3, intrabar |-> FALSE],
   [exits |-> "single", at |-> 2, intrabar |-> FALSE],
   [exits |-> "single", at |-> 1, intrabar |-> TRUE],
   [exits |-> "trail", at |-> 3, intrabar |-> FALSE]}
===============================================================================
