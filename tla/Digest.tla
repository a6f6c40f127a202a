------------------------------- MODULE Digest -------------------------------
(***************************************************************************)
(* The digest watcher (module 02_bot) beside the game clock: every pass    *)
(* reads the turn in one transaction and claims it in another, in which    *)
(* the digests are queued.  A world reset puts the clock, the marker and   *)
(* the queue back at once.  The clock is the one TickEngine implements.    *)
(***************************************************************************)
EXTENDS Integers, FiniteSets

CONSTANTS
  Player,
  Watcher,    \* processes: two while one takes over from the other
  MaxTurn,    \* bound: turns played in a world
  MaxResets,  \* bound: world resets
  MaxMoods    \* bound: changes of consent and ownership

VARIABLES
  current, played,   \* the game clock, as in TurnLedger
  lastDigest,        \* bot_state.last_digest_turn
  audience,          \* nation owners whose consent is ALLOWED
  queue,             \* TICK_DIGEST rows: the turn, for whom, by which pass
  snapshot,          \* the turn each watcher has read, 0 between passes
  stale,             \* watchers that hold a turn of an earlier world
  crossed,            \* a turn of an earlier world has been claimed in this one
  passes,            \* passes that claimed a turn
  resets, moods      \* left

clock == <<current, played>>
vars == <<clock, lastDigest, audience, queue, snapshot, stale, crossed, passes, resets, moods>>

(* A world's own ledger: its reset is an action of this module.            *)
Ledger == INSTANCE TurnLedger WITH rewound <- FALSE

Init ==
  /\ Ledger!Init
  /\ lastDigest = 1 /\ queue = {} /\ audience \in SUBSET Player
  /\ snapshot = [w \in Watcher |-> 0] /\ stale = {} /\ crossed = FALSE
  /\ passes = 0 /\ resets = MaxResets /\ moods = MaxMoods

Tick ==
  /\ current < MaxTurn /\ Ledger!PlayTurn
  /\ UNCHANGED <<lastDigest, audience, queue, snapshot, stale, crossed, passes, resets, moods>>

(* The consents, the nations: who is to be written to.                     *)
Mood(p) ==
  /\ moods > 0 /\ moods' = moods - 1
  /\ audience' = IF p \in audience THEN audience \ {p} ELSE audience \cup {p}
  /\ UNCHANGED <<clock, lastDigest, queue, snapshot, stale, crossed, passes, resets>>

(* bot_reset.                                                              *)
ResetBot == queue' = {} /\ lastDigest' = 1

(* The administrator's reset: one transaction of every module's hook.      *)
ResetWorld ==
  /\ resets > 0 /\ resets' = resets - 1
  /\ current' = 1 /\ played' = {} /\ audience' = {}
  /\ ResetBot
  /\ stale' = {w \in Watcher : snapshot[w] # 0}
  /\ crossed' = FALSE
  /\ UNCHANGED <<snapshot, passes, moods>>

(* Before the second turn there is nothing to tell.                        *)
BeginPass(w) ==
  /\ snapshot[w] = 0 /\ current > 1
  /\ snapshot' = [snapshot EXCEPT ![w] = current]
  /\ UNCHANGED <<clock, lastDigest, audience, queue, stale, crossed, passes, resets, moods>>

(* A variant with a mistake in it: any turn but the last one claimed.      *)
ClaimsOther(turn) == lastDigest # turn

(* The compare-and-swap.                                                   *)
Claims(turn) == lastDigest < turn

(* A digest for everybody in the audience: none who already has one of     *)
(* this turn gets another, the event key is unique.                        *)
Enqueue(turn) ==
  LET new == {p \in audience : \A d \in queue : d.turn # turn \/ d.to # p}
  IN queue' = queue \cup [turn : {turn}, to : new, by : {passes + 1}]

EndPass(w) ==
  LET turn == snapshot[w]
  IN /\ turn # 0
     /\ \/ /\ Claims(turn) /\ lastDigest' = turn /\ Enqueue(turn)
           /\ passes' = passes + 1 /\ crossed' = (crossed \/ w \in stale)
        \/ ~Claims(turn) /\ UNCHANGED <<lastDigest, queue, passes, crossed>>
     /\ snapshot' = [snapshot EXCEPT ![w] = 0] /\ stale' = stale \ {w}
     /\ UNCHANGED <<clock, audience, resets, moods>>

(* The pass fails, or its process ends.                                    *)
FailPass(w) ==
  /\ moods > 0 /\ moods' = moods - 1
  /\ snapshot[w] # 0 /\ snapshot' = [snapshot EXCEPT ![w] = 0] /\ stale' = stale \ {w}
  /\ UNCHANGED <<clock, lastDigest, audience, queue, crossed, passes, resets>>

Watch(w) == BeginPass(w) \/ EndPass(w)

Next ==
  \/ Tick \/ ResetWorld \/ \E p \in Player : Mood(p)
  \/ \E w \in Watcher : Watch(w) \/ FailPass(w)

Spec == Init /\ [][Next]_vars

(* Both the scheduler and the watcher's periodic task are supervised.      *)
FairSpec == Spec /\ \A w \in Watcher : WF_vars(Watch(w))

-----------------------------------------------------------------------------
(* Properties.                                                             *)

TypeOK ==
  /\ current \in 1..MaxTurn /\ played \subseteq 2..MaxTurn
  /\ lastDigest \in 1..MaxTurn /\ audience \subseteq Player
  /\ queue \subseteq [turn : 2..MaxTurn, to : Player, by : 1..passes]
  /\ snapshot \in [Watcher -> 0..MaxTurn] /\ stale \subseteq Watcher

(* A digest tells of a turn this world has played - unless the pass that   *)
(* queued it had read its turn before a reset.                             *)
DigestsAreOfThisWorld ==
  ~crossed => /\ lastDigest = 1 \/ lastDigest \in played
             /\ \A d \in queue : d.turn \in played

(* The digests of a turn are queued by one pass: nobody joins its audience *)
(* later, and two passes do not share it.                                  *)
OnePassPerTurn == \A d, e \in queue : d.turn = e.turn => d.by = e.by

(* Missed turns are never told later: what is queued is newer than all     *)
(* that was queued before.                                                 *)
NoBackfill ==
  [][\A d \in queue' \ queue : \A e \in queue : e.turn < d.turn]_vars

(* All of it: the digests of a turn are queued once, by one pass, in the   *)
(* order of turns, also when a reset of the world gets in between.         *)
TurnsAreOnce == []DigestsAreOfThisWorld /\ []OnePassPerTurn /\ NoBackfill

(* Every turn is told, or the next one is reached before, or the world is  *)
(* reset.                                                                  *)
TurnIsTold ==
  \A n \in 2..MaxTurn : current = n ~> (lastDigest >= n \/ current # n)
=============================================================================
