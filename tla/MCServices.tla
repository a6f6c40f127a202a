----------------------------- MODULE MCServices ------------------------------
(***************************************************************************)
(* TLC instances of the services.  As they share no state, a behaviour is  *)
(* one of them, chosen at the start; a fifth is the dialog of the consents *)
(* with more messages and without checks.                                  *)
(***************************************************************************)
EXTENDS Services

CONSTANTS s1, s2, w1, w2   \* sessions of the consents, watchers of the digests

VARIABLE active

all == <<active, services>>
bot == <<limits, consents, digests>>

SomeAnswers == {<<"ok", "ok", "bad">>, <<"bad", "hidden", "ok">>}

Checks  == INSTANCE Consent WITH MaxEvents <- 2
Dialogs == INSTANCE Consent WITH Checker <- {}, MaxFaults <- 0

AllInit ==
  /\ active \in {"limiter", "consent", "dialog", "digest", "profiles"}
  /\ Limits!Init /\ Digests!Init
  /\ IF active = "dialog" THEN Dialogs!Init ELSE Checks!Init
  /\ Profile!Init
  /\ active # "digest" => audience = {}
  /\ active # "profiles" => vk = <<"ok", "ok", "bad">>

BotNext ==
  \/ active = "limiter" /\ Limits!Next /\ UNCHANGED <<consents, digests>>
  \/ active = "consent" /\ Checks!Next /\ UNCHANGED <<limits, digests>>
  \/ active = "dialog" /\ Dialogs!Next /\ UNCHANGED <<limits, digests>>
  \/ active = "digest" /\ Digests!Next /\ UNCHANGED <<limits, consents>>

AllNext ==
  /\ UNCHANGED active
  /\ \/ BotNext /\ UNCHANGED profiles
     \/ active = "profiles" /\ Profile!Next /\ UNCHANGED bot

(* The fairness of each part, its own conjuncts each: a disjunct of a part *)
(* that is not active is disabled, so weak fairness of the disjunction is  *)
(* weak fairness of the disjunct of the active part.                       *)
Fair1 ==
  /\ UNCHANGED active
  /\ \/ active = "limiter" /\ Limits!Lock
     \/ active = "consent" /\ Checks!Sweep
     \/ active = "dialog" /\ Dialogs!Sweep
     \/ active = "digest" /\ Digests!Watch(w1)
     \/ active = "profiles" /\ Profile!Cycle
Fair2 ==
  /\ UNCHANGED active
  /\ \/ active = "limiter" /\ Limits!Round
     \/ active = "digest" /\ Digests!Watch(w2)
     \/ active = "profiles" /\ Profile!Tick
Fair3 == UNCHANGED active /\ active = "limiter" /\ Limits!Tick

(* The variables of the active part.                                       *)
itsVars ==
  CASE active = "limiter" -> limits
    [] active \in {"consent", "dialog"} -> consents
    [] active = "digest" -> digests
    [] active = "profiles" -> profiles

AllSpec ==
  /\ AllInit /\ [][AllNext]_all
  /\ WF_itsVars(Fair1) /\ WF_itsVars(Fair2) /\ WF_itsVars(Fair3)

-----------------------------------------------------------------------------
(* What waits is served: a call of the limiter, the question of a player   *)
(* who has not said anything, the digests of a turn; the worker's cycles   *)
(* end, and whoever registers is asked for.                                *)
NobodyWaitsForEver ==
  /\ Limits!EverybodyGoes /\ Consents!UnknownIsAsked /\ Digests!TurnIsTold
  /\ active = "profiles" => Profile!CycleEnds /\ Profile!NobodyIsForgotten
=============================================================================
