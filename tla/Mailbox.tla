------------------------------ MODULE Mailbox ------------------------------
(***************************************************************************)
(* What the outbox promises about each event queued for a player: one      *)
(* message at most reaches the chat, an event is settled once and for good,*)
(* and it is settled as sent only when its message has reached the chat.   *)
(* Leases, retries, crashes and workers are not visible here.              *)
(***************************************************************************)
CONSTANT Event

VARIABLES
  fate,     \* event -> absent, QUEUED, one of Settled, or deleted
  reached   \* events whose message is in the player's chat

vars == <<fate, reached>>

Settled == {"SENT", "EXPIRED", "DROPPED", "FAILED"}

Init == fate = [e \in Event |-> "absent"] /\ reached = {}

(* One step of the queue may move several events at once: a message        *)
(* carries a group of them, a claim sweeps the whole queue.                *)
Move(e) ==
  \/ fate'[e] = fate[e]
  \/ fate[e] = "absent" /\ fate'[e] = "QUEUED"
  \/ fate[e] = "QUEUED" /\ fate'[e] \in Settled
                        /\ (fate'[e] = "SENT" => e \in reached)
  \/ fate'[e] = "deleted"

Step ==
  /\ fate' \in [Event -> {"absent", "QUEUED", "deleted"} \cup Settled]
  /\ \A e \in Event : Move(e)
  /\ reached' = reached

(* A message carries events that were queued, none of which was carried by *)
(* an earlier message.                                                     *)
Arrive(E) ==
  /\ E # {} /\ E \cap reached = {}
  /\ \A e \in E : fate[e] # "absent"
  /\ reached' = reached \cup E
  /\ fate' = fate

Next == Step \/ \E E \in SUBSET Event : Arrive(E)

Spec == Init /\ [][Next]_vars
=============================================================================
