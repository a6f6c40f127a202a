---------------------------- MODULE MCTickEngine ----------------------------
(* TLC instances of TickEngine: two overlapping instances of the           *)
(* application and an administrator who may run a tick by hand.            *)
EXTENDS TickEngine, TLC

Workers == Permutations(Scheduler)
=============================================================================
