------------------------------ MODULE Consent ------------------------------
(***************************************************************************)
(* Who may be written to (module 02_bot): the consent table, the events VK *)
(* delivers to the callback, the on-demand checks of the status endpoints  *)
(* and of a registration, the reconciler, and what a send learns.          *)
(*                                                                         *)
(* A check reads the player's consent row, asks VK and writes the answer   *)
(* in the same session: the row it writes by is the one it has loaded.     *)
(* The sender and the reconciler write in a session of their own.  While a *)
(* transaction that has inserted a player's row is open, nobody else gets  *)
(* to that row.                                                            *)
(***************************************************************************)
EXTENDS Integers, FiniteSets

CONSTANTS
  Player,      \* in the order of their consent rows
  Session,     \* callbacks, requests and sends under way
  Checker,     \* bound: those of them that may be a request or a send
  Batch,       \* consent.reconcile_batch_size
  MaxEvents,   \* bound: events VK makes
  MaxFaults    \* bound: failed questions, failed handlers, deleted players

VARIABLES
  agreed,      \* VK: messages from the group are allowed
  wire,        \* VK: events to deliver, an acknowledged one perhaps again
  made,        \* VK: events made so far
  consent,     \* bot_consents.state
  cooled,      \* last_plate_at is not within plate_cooldown_minutes
  journal,     \* bot_vk_events
  waiting,     \* the player has PENDING notifications
  replies,     \* REPLY rows of the dialog
  work,        \* what each session has read and heard
  sweep,       \* what the reconciler has read and heard
  misled,      \* ways the table has been misled
  faults

vkVars    == <<agreed, wire, made>>
tableVars == <<consent, cooled, journal, waiting, replies>>
vars == <<vkVars, tableVars, work, sweep, misled, faults>>

Event  == [id : 1..MaxEvents, kind : {"allow", "deny", "command", "text"}, who : Player]
Signal == {"allow", "deny"}
Idle   == [op |-> "idle", who |-> 0, seen |-> "none", said |-> "?", moved |-> FALSE]
NoSweep == [list |-> {}, said |-> {}, moved |-> FALSE]

Init ==
  /\ agreed = [p \in Player |-> FALSE] /\ wire = {} /\ made = 0
  /\ consent = [p \in Player |-> "none"]
  /\ cooled = [p \in Player |-> TRUE]
  /\ journal = {} /\ replies = {}
  /\ waiting = [p \in Player |-> FALSE]
  /\ work = [s \in Session |-> Idle] /\ sweep = NoSweep
  /\ misled = {} /\ faults = MaxFaults

Fault == faults > 0 /\ faults' = faults - 1

-----------------------------------------------------------------------------
(* VK, seen from the callback and from isMessagesFromGroupAllowed.         *)

State(p) == IF agreed[p] THEN "ALLOWED" ELSE "DENIED"

(* Who has an answer about p now has an old one.                           *)
Outdate(p) ==
  /\ work' = [s \in Session |->
       [work[s] EXCEPT !.moved = @ \/ (work[s].who = p /\ work[s].said # "?")]]
  /\ sweep' = [sweep EXCEPT !.moved = @ \/ \E answer \in sweep.said : answer[1] = p]

Toggle(p) ==
  /\ made < MaxEvents /\ made' = made + 1
  /\ agreed' = [agreed EXCEPT ![p] = ~@]
  /\ wire' = wire \cup {[id |-> made + 1, kind |-> IF agreed[p] THEN "deny" ELSE "allow",
                         who |-> p]}
  /\ Outdate(p)
  /\ UNCHANGED <<tableVars, misled, faults>>

Write(p, kind) ==
  /\ made < MaxEvents /\ made' = made + 1
  /\ wire' = wire \cup {[id |-> made + 1, kind |-> kind, who |-> p]}
  /\ UNCHANGED <<agreed, tableVars, work, sweep, misled, faults>>

(* Time passes since the last plate.                                       *)
Elapse(p) ==
  /\ ~cooled[p] /\ cooled' = [cooled EXCEPT ![p] = TRUE]
  /\ UNCHANGED <<vkVars, consent, journal, waiting, replies, work, sweep, misled, faults>>

-----------------------------------------------------------------------------
(* The consent table.                                                      *)

Locked(p) == \E s \in Session : work[s].op # "idle" /\ work[s].who = p /\ work[s].seen = "none"

(* A variant with a mistake in it: every signal empties the queue.         *)
DropAlways(p, old, new) ==
  /\ consent' = [consent EXCEPT ![p] = IF old = new THEN @ ELSE new]
  /\ waiting' = [waiting EXCEPT ![p] = FALSE]

(* apply_consent_signal by a session that sees the state old: it writes    *)
(* the state only if that one differs; a refusal always drops the queue.   *)
Apply(p, old, new) ==
  /\ consent' = [consent EXCEPT ![p] = IF old = new THEN @ ELSE new]
  /\ waiting' = [waiting EXCEPT ![p] = @ /\ new = "ALLOWED"]

(* A notification is queued for those who allow it.                        *)
Enqueue(p) ==
  /\ consent[p] = "ALLOWED" /\ ~waiting[p]
  /\ waiting' = [waiting EXCEPT ![p] = TRUE]
  /\ UNCHANGED <<vkVars, consent, cooled, journal, replies, work, sweep, misled, faults>>

(* The others that have loaded the row of p hold an old one.               *)
Finish(s, p) ==
  work' = [t \in Session |->
    IF t = s THEN Idle ELSE [work[t] EXCEPT !.moved = @ \/ work[t].who = p]]

-----------------------------------------------------------------------------
(* The callback.                                                           *)

Handled(e) == \E f \in journal : f.id = e.id
Acked(e)   == wire' \in {wire, wire \ {e}}      \* VK may deliver it again

Repeated(e) ==
  /\ Handled(e) /\ wire' = wire \ {e}
  /\ UNCHANGED <<agreed, made, tableVars, work, sweep, misled, faults>>

(* message_allow and message_deny.                                         *)
HandleSignal(e) ==
  /\ e.kind \in Signal /\ ~Handled(e) /\ ~Locked(e.who)
  /\ journal' = journal \cup {e}
  /\ Apply(e.who, consent[e.who], IF e.kind = "allow" THEN "ALLOWED" ELSE "DENIED")
  /\ Finish(0, e.who)
  /\ misled' = IF \E f \in journal : f.kind \in Signal /\ f.who = e.who /\ f.id > e.id
               THEN misled \cup {"order"} ELSE misled
  /\ Acked(e)
  /\ UNCHANGED <<agreed, made, cooled, replies, sweep, faults>>

(* message_new: the journal row, the consent row and the look at the       *)
(* earlier messages; then the answer.  Two deliveries of one event meet at *)
(* the journal's unique index.                                             *)
BeginMessage(s, e) ==
  /\ work[s] = Idle /\ e.kind \notin Signal /\ ~Handled(e) /\ ~Locked(e.who)
  /\ \A t \in Session : work[t].op = "message" => work[t].event # e
  /\ work' = [work EXCEPT ![s] =
       [op |-> "message", who |-> e.who, seen |-> consent[e.who], said |-> "?",
        moved |-> FALSE, event |-> e,
        first |-> \A f \in journal : f.kind \in Signal \/ f.who # e.who]]
  /\ UNCHANGED <<vkVars, tableVars, sweep, misled, faults>>

PlateDue(w) == w.event.kind = "text" /\ cooled[w.who]

Answer(w) ==
  IF w.first THEN "start"
  ELSE IF w.event.kind = "command" THEN "command"
  ELSE IF PlateDue(w) THEN "plate" ELSE "nothing"

EndMessage(s) ==
  LET w == work[s]
  IN /\ w.op = "message"
     /\ journal' = journal \cup {w.event}
     /\ consent' = [consent EXCEPT ![w.who] = IF @ = "none" THEN "UNKNOWN" ELSE @]
     /\ cooled' = [cooled EXCEPT ![w.who] = @ /\ Answer(w) # "plate"]
     /\ replies' = IF Answer(w) = "nothing" THEN replies
                   ELSE replies \cup {[to |-> w.event, says |-> Answer(w)]}
     /\ misled' = IF w.first /\ \E f \in journal : f.kind \notin Signal /\ f.who = w.who
                  THEN misled \cup {"greeting"} ELSE misled
     /\ Acked(w.event)
     /\ work' = [work EXCEPT ![s] = Idle]
     /\ UNCHANGED <<agreed, made, waiting, sweep, faults>>

(* The handler raises: the answer is ok all the same, and VK is content.   *)
LoseEvent(e) ==
  /\ Fault /\ ~Handled(e)
  /\ \A t \in Session : work[t].op = "message" => work[t].event # e
  /\ wire' = wire \ {e}
  /\ misled' = misled \cup {"lost"}
  /\ UNCHANGED <<agreed, made, tableVars, work, sweep>>

(* A database error, or a lost connection: VK delivers the event again, a  *)
(* client asks again.                                                      *)
Break(s) ==
  /\ Fault /\ work[s] # Idle
  /\ work' = [work EXCEPT ![s] = Idle]
  /\ UNCHANGED <<vkVars, tableVars, sweep, misled>>

-----------------------------------------------------------------------------
(* Checks: the status endpoints and a registration.                        *)

(* sync_consent_with_vk, check_registration_consent; the minimum interval  *)
(* between two checks of a player is left out.                             *)
BeginCheck(s, p, op) ==
  /\ s \in Checker /\ work[s] = Idle /\ ~Locked(p)
  /\ op = "register" => consent[p] # "ALLOWED"
  /\ work' = [work EXCEPT ![s] = [Idle EXCEPT !.op = op, !.who = p, !.seen = consent[p]]]
  /\ UNCHANGED <<vkVars, tableVars, sweep, misled, faults>>

(* The claim of a notification, with its look at the consent.              *)
BeginSend(s, p) ==
  /\ s \in Checker /\ work[s] = Idle /\ waiting[p] /\ consent[p] = "ALLOWED"
  /\ \A t \in Session : ~(work[t].op = "send" /\ work[t].who = p)
  /\ work' = [work EXCEPT ![s] = [Idle EXCEPT !.op = "send", !.who = p, !.seen = "ALLOWED"]]
  /\ UNCHANGED <<vkVars, tableVars, sweep, misled, faults>>

Heard(s) ==
  /\ work[s].op \in {"sync", "register", "send"} /\ work[s].said = "?"
  /\ work' = [work EXCEPT ![s].said = State(work[s].who)]
  /\ UNCHANGED <<vkVars, tableVars, sweep, misled, faults>>

(* record_vk_check.  A refused registration commits it first, one that     *)
(* passes commits with the nation, or not at all (Break).                  *)
Misleads(moved) == misled' = IF moved THEN misled \cup {"check"} ELSE misled

EndCheck(s) ==
  LET w == work[s]
  IN /\ w.op \in {"sync", "register"} /\ w.said # "?"
     /\ Apply(w.who, IF w.seen = "none" THEN "UNKNOWN" ELSE w.seen, w.said)
     /\ Misleads(w.moved) /\ Finish(s, w.who)
     /\ UNCHANGED <<vkVars, cooled, journal, replies, sweep, faults>>

(* The send's result, in a new transaction.                                *)
EndSend(s) ==
  LET w == work[s]
  IN /\ w.op = "send" /\ w.said # "?"
     /\ IF w.said = "ALLOWED"
        THEN waiting' = [waiting EXCEPT ![w.who] = FALSE] /\ UNCHANGED <<consent, misled>>
        ELSE Apply(w.who, consent[w.who], "DENIED") /\ Misleads(w.moved)
     /\ Finish(s, w.who)
     /\ UNCHANGED <<vkVars, cooled, journal, replies, sweep, faults>>

-----------------------------------------------------------------------------
(* The reconciler.                                                         *)

Unknown == {p \in Player : consent[p] = "UNKNOWN"}

(* A variant: the batch is one row short.                                  *)
OneShort == {p \in Unknown : Cardinality({q \in Unknown : q < p}) < Batch - 1}

Oldest == {p \in Unknown : Cardinality({q \in Unknown : q < p}) < Batch}

BeginSweep ==
  /\ sweep = NoSweep /\ Unknown # {}
  /\ sweep' = [sweep EXCEPT !.list = Oldest]
  /\ UNCHANGED <<vkVars, tableVars, work, misled, faults>>

AskNext ==
  /\ \E p \in sweep.list :
       \/ /\ sweep' = [sweep EXCEPT !.list = @ \ {p}, !.said = @ \cup {<<p, State(p)>>}]
          /\ UNCHANGED faults
       \/ Fault /\ sweep' = [sweep EXCEPT !.list = @ \ {p}]
  /\ UNCHANGED <<vkVars, tableVars, work, misled>>

(* One transaction; the row of a player deleted meanwhile has no player to *)
(* refer to, and the whole of it fails.                                    *)
EndSweep ==
  LET told == {answer[1] : answer \in sweep.said}
      allows(p) == <<p, "ALLOWED">> \in sweep.said
  IN /\ sweep.list = {} /\ sweep # NoSweep
     /\ sweep' = NoSweep
     /\ IF \A p \in told : consent[p] # "none"
        THEN /\ consent' = [p \in Player |->
               IF p \notin told THEN consent[p] ELSE IF allows(p) THEN "ALLOWED" ELSE "DENIED"]
             /\ waiting' = [p \in Player |-> waiting[p] /\ (p \in told => allows(p))]
             /\ work' = [s \in Session |->
                  [work[s] EXCEPT !.moved = @ \/ work[s].who \in told]]
             /\ Misleads(sweep.moved)
        ELSE UNCHANGED <<consent, waiting, work, misled>>
     /\ UNCHANGED <<vkVars, cooled, journal, replies, faults>>

Sweep == BeginSweep \/ AskNext \/ EndSweep

(* bot_delete_player: the journal of events stays.                         *)
DeletePlayer(p) ==
  /\ Fault /\ consent[p] # "none"
  /\ \A s \in Session : work[s].who # p
  /\ consent' = [consent EXCEPT ![p] = "none"]
  /\ waiting' = [waiting EXCEPT ![p] = FALSE]
  /\ cooled' = [cooled EXCEPT ![p] = TRUE]
  /\ UNCHANGED <<vkVars, journal, replies, work, sweep, misled>>

-----------------------------------------------------------------------------
Callback(e) ==
  \/ Repeated(e) \/ HandleSignal(e) \/ LoseEvent(e)
  \/ \E s \in Session : BeginMessage(s, e)

SessionStep(s) ==
  \/ \E p \in Player : BeginSend(s, p) \/ \E op \in {"sync", "register"} : BeginCheck(s, p, op)
  \/ Heard(s) \/ EndMessage(s) \/ EndCheck(s) \/ EndSend(s) \/ Break(s)

PlayerStep(p) ==
  \/ Toggle(p) \/ Write(p, "command") \/ Write(p, "text") \/ Elapse(p)
  \/ Enqueue(p) \/ DeletePlayer(p)

Next ==
  \/ \E p \in Player : PlayerStep(p)
  \/ \E e \in wire : Callback(e)
  \/ \E s \in Session : SessionStep(s)
  \/ Sweep

Spec == Init /\ [][Next]_vars

(* The reconciler's task is supervised: it always makes another sweep.     *)
FairSpec == Spec /\ WF_vars(Sweep)

-----------------------------------------------------------------------------
(* Properties.                                                             *)

TypeOK ==
  /\ agreed \in [Player -> BOOLEAN] /\ wire \subseteq Event /\ journal \subseteq Event
  /\ consent \in [Player -> {"none", "UNKNOWN", "ALLOWED", "DENIED"}]
  /\ cooled \in [Player -> BOOLEAN]
  /\ waiting \in [Player -> BOOLEAN]
  /\ replies \subseteq [to : Event, says : {"start", "command", "plate"}]
  /\ misled \subseteq {"check", "order", "lost", "greeting"} /\ faults \in 0..MaxFaults

(* Once VK has nothing left to say and nobody is about to write what it    *)
(* has heard, a known consent is what the player wants - unless a check    *)
(* wrote an answer from before a change, signals came in the wrong order   *)
(* or one was lost.                                                        *)
Settled(p) ==
  /\ \A e \in wire : e.who # p \/ e.kind \notin Signal
  /\ \A s \in Session : work[s].who # p
  /\ \A answer \in sweep.said : answer[1] # p
ConsentIsCurrent ==
  misled \cap {"check", "order", "lost"} = {} =>
    \A p \in Player : Settled(p) /\ consent[p] \in {"ALLOWED", "DENIED"} =>
      consent[p] = State(p)

(* Nothing is queued for a player who is known to refuse: what was queued  *)
(* before the refusal has been dropped.                                    *)
NothingForTheRefusing == \A p \in Player : consent[p] = "DENIED" => ~waiting[p]

(* A queue is dropped only by a refusal that holds, never by the answer    *)
(* that an older check still carries.                                      *)
DropsAreRefusals ==
  [][misled' \cap {"check"} = {} =>
       \A p \in Player : waiting[p] /\ ~waiting'[p] /\ consent[p] # "none" =>
         \/ consent'[p] \in {"DENIED", "none"}
         \/ \E s \in Session : work[s].op = "send" /\ work[s].who = p /\ work[s].said = "ALLOWED"]_vars

(* A message gets one answer, however often VK delivers it, and a player   *)
(* is greeted once - unless two first messages were handled together.      *)
OneAnswer ==
  /\ \A r1, r2 \in replies : r1.to = r2.to => r1 = r2
  /\ "greeting" \notin misled =>
       \A r1, r2 \in replies :
         r1.says = "start" /\ r2.says = "start" /\ r1.to.who = r2.to.who => r1 = r2

(* Two texts at a time get one plate: none is sent within the cooldown.    *)
PlateIsRare ==
  [][\A r \in replies' \ replies : r.says = "plate" => cooled[r.to.who]]_vars

(* All of it: a consent is what the player wants, nobody who refuses has   *)
(* anything queued, and only a refusal empties a queue; one answer for a   *)
(* message, one greeting for a player, plates apart.                       *)
PlayersAreHeard ==
  /\ []ConsentIsCurrent /\ []NothingForTheRefusing /\ DropsAreRefusals
  /\ []OneAnswer /\ PlateIsRare

(* Whoever has not said anything is asked for in the end.                  *)
UnknownIsAsked ==
  \A p \in Player : consent[p] = "UNKNOWN" ~> consent[p] # "UNKNOWN"
=============================================================================
