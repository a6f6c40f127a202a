------------------------------ MODULE Limiter -------------------------------
(***************************************************************************)
(* The token bucket every VK call of the bot goes through (limiter.py).    *)
(* Time is counted in the time one token takes to come back, from the last *)
(* look at the clock; a coroutine that finds the bucket dry sleeps with    *)
(* the lock in its hands, and may wake later than it asked to.             *)
(***************************************************************************)
EXTENDS Integers, Sequences, SequencesExt

CONSTANTS
  Coroutine,
  Rate        \* sender.max_requests_per_second: capacity of the bucket

VARIABLES
  tokens,     \* _tokens
  since,      \* clock() - _updated; a full bucket's time stands for more
  line,    \* coroutines in acquire(), in the order they came
  holder,     \* the one with the lock, "" when it is free
  asleep,     \* what is left of the holder's sleep
  load        \* requests of which the time has not passed yet

vars == <<tokens, since, line, holder, asleep, load>>

Least(a, b) == IF a < b THEN a ELSE b

Init ==
  /\ tokens = Rate /\ since = 0
  /\ line = <<>> /\ holder = "" /\ asleep = 0 /\ load = 0

Call(c) ==
  /\ c \notin ToSet(line)
  /\ line' = Append(line, c)
  /\ UNCHANGED <<tokens, since, holder, asleep, load>>

Lock ==
  /\ holder = "" /\ line # <<>> /\ holder' = Head(line)
  /\ UNCHANGED <<tokens, since, line, asleep, load>>

(* A variant with a mistake in it: what comes back is counted twice.       *)
RefilledTwice == Least(Rate, tokens + 2 * since)

(* A variant: what comes back is not capped.                               *)
RefilledUncapped == tokens + since

Refilled == Least(Rate, tokens + since)

(* One round of the loop: spend a token, or sleep until there is one.      *)
Round ==
  /\ holder # "" /\ asleep = 0
  /\ since' = 0
  /\ \/ /\ Refilled >= 1 /\ tokens' = Refilled - 1
        /\ load' = load + 1
        /\ holder' = "" /\ line' = Tail(line) /\ UNCHANGED asleep
     \/ /\ Refilled < 1 /\ tokens' = Refilled
        /\ asleep' = 1 - Refilled
        /\ UNCHANGED <<load, holder, line>>

(* A waiting or sleeping one is cancelled: a shutdown, a lost client.      *)
Cancel(c) ==
  /\ \E i \in DOMAIN line : line[i] = c /\ line' = RemoveAt(line, i)
  /\ holder' = IF holder = c THEN "" ELSE holder
  /\ asleep' = IF holder = c THEN 0 ELSE asleep
  /\ UNCHANGED <<tokens, since, load>>

Before(n) == IF n = 0 THEN 0 ELSE n - 1

Tick ==
  /\ since' = Least(Rate, since + 1)
  /\ asleep' = Before(asleep) /\ load' = Before(load)
  /\ UNCHANGED <<tokens, line, holder>>

Next ==
  \/ \E c \in Coroutine : Call(c) \/ Cancel(c)
  \/ Lock \/ Round \/ Tick

Spec == Init /\ [][Next]_vars

(* The event loop runs what is ready, and time passes.                     *)
FairSpec == Spec /\ WF_vars(Lock) /\ WF_vars(Round) /\ WF_vars(Tick)

-----------------------------------------------------------------------------
(* Properties.                                                             *)

TypeOK ==
  /\ tokens \in 0..Rate /\ since \in 0..Rate
  /\ ToSet(line) \subseteq Coroutine
  /\ holder = "" \/ (line # <<>> /\ holder = Head(line))
  /\ asleep \in 0..1

(* In no stretch of time are there more calls than the bucket holds and    *)
(* the tokens that came back in it: a leaky bucket of the same size never  *)
(* overflows.                                                              *)
RateIsKept == load <= Rate

(* Whoever waits gets a token or gives up: nobody is overtaken for ever,   *)
(* and nobody who is cancelled keeps the lock.                             *)
EverybodyGoes ==
  \A c \in Coroutine : c \in ToSet(line) ~> c \notin ToSet(line)
=============================================================================
