------------------------------ MODULE Services ------------------------------
(***************************************************************************)
(* The services beside the game: those of the bot that must not keep       *)
(* anybody waiting (02_bot) - the limiter of its calls to VK, the consents *)
(* with their checks, the digests - and the worker that fetches the        *)
(* players' VK profiles (03_registry).  They share no state: a step of the *)
(* whole is a step of one of them.                                         *)
(***************************************************************************)
EXTENDS Integers, Sequences, FiniteSets

CONSTANTS
  Coroutine, Rate,                                    \* limiter
  Player, Session, Checker, Batch, MaxEvents,         \* consents
  Reader, Watcher, MaxTurn, MaxResets, MaxMoods,      \* digests
  Member, Answers, BatchSize, Ttl, Retry, Interval, MaxLag,   \* profiles
  MaxFaults

(* Zero stands for nobody: it is no player's id and no session.            *)
ASSUME ServicesAssumption ==
  /\ Rate \in Nat /\ MaxTurn \in Nat \ {0}
  /\ 0 \notin Player /\ 0 \notin Session /\ MaxEvents \in Nat /\ MaxFaults \in Nat
  /\ IsFiniteSet(Member) /\ BatchSize \in Nat \ {0}
  /\ Ttl \in Nat /\ Retry \in Nat /\ Interval \in Nat /\ MaxLag \in Nat

VARIABLES
  tokens, since, line, holder, asleep, load,
  agreed, wire, made, consent, cooled, journal, waiting, replies, work, sweep, misled, faults,
  current, played, lastDigest, audience, queue, snapshot, stale, crossed, passes, resets, moods,
  elapsed, slept, present, vk, status, named, due, bell, stage, batch, more, lists, answers,
  failed, trouble

limits   == <<tokens, since, line, holder, asleep, load>>
consents == <<agreed, wire, made, consent, cooled, journal, waiting, replies, work, sweep,
              misled, faults>>
digests  == <<current, played, lastDigest, audience, queue, snapshot, stale, crossed, passes,
              resets, moods>>
profiles == <<elapsed, slept, present, vk, status, named, due, bell, stage, batch, more, lists,
              answers, failed, trouble>>
services == <<limits, consents, digests, profiles>>

Limits   == INSTANCE Limiter
Consents == INSTANCE Consent
Digests  == INSTANCE Digest   WITH Player <- Reader
Profile  == INSTANCE Profiles WITH Player <- Member

Init == Limits!Init /\ Consents!Init /\ Digests!Init /\ Profile!Init

Next ==
  \/ Limits!Next   /\ UNCHANGED <<consents, digests, profiles>>
  \/ Consents!Next /\ UNCHANGED <<limits, digests, profiles>>
  \/ Digests!Next  /\ UNCHANGED <<limits, consents, profiles>>
  \/ Profile!Next  /\ UNCHANGED <<limits, consents, digests>>

Spec == Init /\ [][Next]_services

-----------------------------------------------------------------------------
(* Each of them is well typed.                                             *)
TypeOK == Limits!TypeOK /\ Consents!TypeOK /\ Digests!TypeOK /\ Profile!TypeOK

(* The calls keep the rate: in no stretch of time do more pass than the    *)
(* bucket holds and than came back in it (AsyncLimiter.acquire).           *)
RateIsKept == Limits!RateIsKept

(* A consent is what the player wants, nobody who refuses has anything     *)
(* queued, and only a refusal empties a queue; one answer for a message,   *)
(* one greeting for a player, plates apart (vk_callback, consent.py).      *)
PlayersAreHeard == Consents!PlayersAreHeard

(* The digests of a turn are queued once, by one pass, in the order of     *)
(* turns, also when a reset of the world gets in between                   *)
(* (digest_watcher_step).                                                  *)
TurnsAreOnce == Digests!TurnsAreOnce

(* Nobody spoils the profile of another, and a name once seen stays        *)
(* (VkProfilesClient, run_cycle).                                          *)
ProfilesHold == Profile!OneBadSpoilsNoOther /\ Profile!NamesStay
=============================================================================
