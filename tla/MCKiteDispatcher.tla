-------------------------- MODULE MCKiteDispatcher --------------------------
(* Model-checking instance of KiteDispatcher: the order ids are              *)
(* interchangeable, and the history tx is not bounded (it cannot grow        *)
(* without an order).                                                        *)
EXTENDS KiteDispatcher, TLC

OrderSymmetry == Permutations(Orders)
=============================================================================
