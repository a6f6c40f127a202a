----------------------------- MODULE TurnLedger -----------------------------
(***************************************************************************)
(* What the tick engine promises: the turns of the game are played one by  *)
(* one, in order, each exactly once, and every played turn is on record.   *)
(* Nothing else about ticks is visible in the committed world.  A reset of *)
(* the world ends the promise.                                             *)
(***************************************************************************)
EXTENDS Naturals

VARIABLES
  current,   \* the turn the world is on
  played,    \* the turns recorded as completed
  rewound    \* the world is being reset, or has been

vars == <<current, played, rewound>>

Init == current = 1 /\ played = {} /\ ~rewound

PlayTurn ==
  /\ ~rewound /\ ~rewound'
  /\ current' = current + 1
  /\ played' = played \cup {current + 1}

Rewind == rewound'

Spec == Init /\ [][PlayTurn \/ Rewind]_vars
=============================================================================
