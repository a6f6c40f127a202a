---------------------------- MODULE MCOutboxCap ----------------------------
(***************************************************************************)
(* Two TLC instances of Outbox side by side: the one the constants of the  *)
(* module make, around the lease of one row, and one of four rows without  *)
(* faults for the daily cap, in which one of the processes works.  A       *)
(* behaviour is about one of them.                                         *)
(***************************************************************************)
EXTENDS MCOutbox

CONSTANTS p1, p2

VARIABLE subject    \* "lease", or the process that works for the cap

\* Three rows of one player and one of another.
Caps == INSTANCE Outbox WITH
          Row <- 1..4, Player <- {p1, p2}, Owner <- <<p1, p1, p1, p2>>,
          Kind <- [r \in 1..4 |-> "SINGLE"], Ttl <- [r \in 1..4 |-> 2], 
          Gid <- 1..5, Token <- 1..5, Lease <- 5, PurgeAfter <- 4, EnqueueUntil <- 2,
          MaxTime <- 4, MaxFaults <- 0, MaxSkips <- 0, MaxCrashes <- 0, MaxSignals <- 0,
          MaxTroubles <- 0

(* The steps its bounds leave, with one process at work.                   *)
CapsNext(w) ==
  \/ Caps!Tick \/ Caps!Process(w)
  \/ \E r \in 1..4 : Caps!Enqueue(r)
  \/ \E g \in wire : Caps!VkAccept(g)

BothInit ==
  \/ subject = "lease" /\ Init
  \/ subject \in Worker /\ Caps!Init

BothNext ==
  /\ UNCHANGED subject
  /\ \/ subject = "lease" /\ Next
     \/ subject \in Worker /\ CapsNext(subject)

BothSpec == BothInit /\ [][BothNext]_<<subject, vars>>

-----------------------------------------------------------------------------
(* The messages in a chat keep within the cap, in both instances.          *)
CapIsKept == IF subject = "lease" THEN CapRespected ELSE Caps!CapRespected
=============================================================================
