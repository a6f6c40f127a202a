------------------------------ MODULE MCOutbox ------------------------------
(* TLC instances of Outbox: what the rows are and how long they live.      *)
EXTENDS Outbox, TLC

Workers == Permutations(Worker)

OnePlayer == [r \in Row |-> CHOOSE p \in Player : TRUE]
AllSingle == [r \in Row |-> "SINGLE"]
AllMerged == [r \in Row |-> "MERGED"]
Short     == [r \in Row |-> 2]
Long      == [r \in Row |-> 3]
=============================================================================
