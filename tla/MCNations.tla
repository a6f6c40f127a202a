----------------------------- MODULE MCNations -----------------------------
(* TLC instances of Nations.                                               *)
EXTENDS Nations

CONSTANTS x, y

\* A realm of one province and one of two.
Forms == {[name |-> x, picks |-> {1}, capital |-> 1],
          [name |-> y, picks |-> {2, 3}, capital |-> 2]}
=============================================================================
