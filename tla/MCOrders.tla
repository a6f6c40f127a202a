------------------------------ MODULE MCOrders ------------------------------
(* TLC instances of Orders: who writes the orders, and that two orders of  *)
(* one author are alike.                                                   *)
EXTENDS Orders, TLC

Alike == Permutations(Order)

FirstWritesAll == [o \in Order |-> Min(Player)]
=============================================================================
