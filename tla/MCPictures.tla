----------------------------- MODULE MCPictures -----------------------------
(* TLC instance of Pictures: flags, and one photograph that can be cut.    *)
EXTENDS Pictures

Flags  == [flag |-> <<3, 2>>]
Photos == {[w |-> 3, h |-> 2, turned |-> FALSE, known |-> TRUE, sound |-> TRUE]}
=============================================================================
