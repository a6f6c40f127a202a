------------------------------ MODULE Profiles ------------------------------
(***************************************************************************)
(* The worker that keeps the players' VK profiles (module 03_registry):    *)
(* it is woken by whoever opens a table with a profile that is due, or by  *)
(* time, takes the due rows batch by batch, asks VK without a transaction, *)
(* and writes the answers.  One player VK refuses to be asked about makes  *)
(* the whole call fail: the batch is split until that player is alone, one *)
(* call and one pause after the other, while VK and the players change.    *)
(***************************************************************************)
EXTENDS Integers, Sequences, FiniteSets, SequencesExt, FiniteSetsExt

CONSTANTS
  Player,
  Answers,     \* what VK may say of the players at first, by player
  BatchSize,   \* profiles.batch_size
  Ttl,         \* profiles.ttl_hours
  Retry,       \* profiles.failure_retry_minutes
  Interval,    \* profiles.wake_interval_minutes
  MaxLag,      \* bound: time a cycle takes
  MaxFaults    \* bound: failed calls, deletions and changes at VK

VARIABLES
  elapsed,   \* time since the cycle's now
  slept,     \* when the worker last went to sleep, from the cycle's now
  present,
  vk,        \* what VK says of a player: "ok", "hidden", or "bad" (errors 30, 113)
  status,    \* registry_vk_profiles.status, "none" without a row
  named,     \* the row has a name
  due,       \* next_attempt_at, from the cycle's now
  bell,      \* the wake event
  stage,     \* of the worker's cycle
  batch,     \* rows being asked for
  more,      \* others are due after them
  lists,     \* the lists VK is still to be asked about, the next one first
  answers,   \* what VK has said of whom: "OK" or "UNAVAILABLE"
  failed,    \* a call has failed, and the batch with it
  trouble    \* faults left

time == <<elapsed, slept>>
rows == <<status, named, due>>
asks == <<lists, answers, failed>>
vars == <<time, present, vk, rows, bell, stage, batch, more, asks, trouble>>

Init ==
  /\ elapsed = 0 /\ slept = 0 /\ present = {}
  /\ vk \in Answers
  /\ status = [p \in Player |-> "none"] /\ named = [p \in Player |-> FALSE]
  /\ due = [p \in Player |-> 0]
  /\ bell = FALSE /\ stage = "run"
  /\ batch = <<>> /\ lists = <<>> /\ answers = <<>> /\ failed = FALSE
  /\ more = FALSE /\ trouble = MaxFaults

Fault == trouble > 0 /\ trouble' = trouble - 1

-----------------------------------------------------------------------------
(* The others: players come and go, VK changes, tables are opened.         *)

Register(p) ==
  /\ p \notin present /\ status[p] = "none" /\ present' = present \cup {p}
  /\ UNCHANGED <<time, vk, rows, bell, stage, batch, more, asks, trouble>>

(* registry_delete_player.                                                 *)
Delete(p) ==
  /\ Fault /\ p \in present /\ present' = present \ {p}
  /\ status' = [status EXCEPT ![p] = "none"] /\ named' = [named EXCEPT ![p] = FALSE]
  /\ due' = [due EXCEPT ![p] = 0]
  /\ UNCHANGED <<time, vk, bell, stage, batch, more, asks>>

Change(p) ==
  /\ Fault /\ \E says \in {"ok", "hidden"} : vk' = [vk EXCEPT ![p] = says]
  /\ UNCHANGED <<time, present, rows, bell, stage, batch, more, asks>>

(* load_players, load_player: the bell rings for a profile that is due.    *)
Ring ==
  /\ ~bell /\ bell' = TRUE
  /\ \E p \in present : status[p] = "none" \/ due[p] <= elapsed
  /\ UNCHANGED <<time, present, vk, rows, stage, batch, more, asks, trouble>>

Tick ==
  /\ elapsed < IF stage = "asleep" THEN slept + Interval ELSE MaxLag
  /\ elapsed' = elapsed + 1
  /\ UNCHANGED <<slept, present, vk, rows, bell, stage, batch, more, asks, trouble>>

-----------------------------------------------------------------------------
(* users.get.                                                              *)

(* A variant with a mistake in it: the middle one is in neither half.      *)
HalvesApart(ids) ==
  LET middle == Len(ids) \div 2
  IN <<SubSeq(ids, 1, middle), SubSeq(ids, middle + 2, Len(ids))>>

Halves(ids) ==
  LET middle == Len(ids) \div 2
  IN <<SubSeq(ids, 1, middle), SubSeq(ids, middle + 1, Len(ids))>>

Says(p)      == IF vk[p] = "ok" THEN "OK" ELSE "UNAVAILABLE"
Refused(ids) == {p \in ToSet(ids) : vk[p] = "bad"}

(* One call: its answers, or two lists to ask about instead; a refused     *)
(* list of one is an answer.                                               *)
Call(ids) ==
  \/ /\ Refused(ids) = {} \/ Len(ids) = 1
     /\ answers' = [p \in DOMAIN answers \cup ToSet(ids) |->
                      IF p \in ToSet(ids) THEN Says(p) ELSE answers[p]]
     /\ lists' = Tail(lists)
  \/ /\ Refused(ids) # {} /\ Len(ids) # 1
     /\ lists' = Halves(ids) \o Tail(lists) /\ UNCHANGED answers

-----------------------------------------------------------------------------
(* The worker.                                                             *)

Due      == {p \in present : status[p] = "none" \/ due[p] <= 0}
When(p)  == IF status[p] = "none" THEN 0 ELSE due[p]
InOrder(s) == \A i, j \in 1..Len(s) : i < j => When(s[i]) <= When(s[j])

Sleep == stage' = "asleep" /\ slept' = elapsed

(* The missing rows are created; the first of the due ones are taken.      *)
Select ==
  /\ stage = "run"
  /\ status' = [p \in Player |-> IF p \in present /\ status[p] = "none" THEN "PENDING" ELSE status[p]]
  /\ due' = [p \in Player |-> IF p \in present THEN When(p) ELSE due[p]]
  /\ \E order \in SetToSeqs(Due) :
       /\ InOrder(order)
       /\ batch' = SubSeq(order, 1, Min({BatchSize, Len(order)}))
       /\ more' = (Len(order) > BatchSize)
  /\ IF Due = {} THEN Sleep /\ UNCHANGED lists
     ELSE stage' = "asking" /\ lists' = <<batch'>> /\ UNCHANGED slept
  /\ UNCHANGED <<elapsed, present, vk, named, bell, answers, failed, trouble>>

Ask ==
  /\ stage = "asking" /\ Call(Head(lists))
  /\ stage' = IF lists' = <<>> THEN "applying" ELSE "asking"
  /\ UNCHANGED <<time, present, vk, rows, bell, batch, more, failed, trouble>>

(* A call fails, and what the calls before it have brought is dropped.     *)
AskInVain ==
  /\ stage = "asking" /\ Fault
  /\ failed' = TRUE /\ lists' = <<>> /\ answers' = <<>> /\ stage' = "applying"
  /\ UNCHANGED <<time, present, vk, rows, bell, batch, more>>

NextAttempt == IF failed THEN Retry ELSE Ttl

NewStatus(p) == IF failed THEN status[p]
                ELSE IF p \in DOMAIN answers /\ answers[p] = "OK" THEN "OK" ELSE "UNAVAILABLE"
KeepName(p)  == named[p] \/ (~failed /\ NewStatus(p) = "OK")

(* The answers are written, or the rows are tried again later; then the    *)
(* next batch, or none.  With one row of the batch gone the update fails,  *)
(* and the cycle with it.                                                  *)
Apply ==
  LET told == ToSet(batch)
  IN /\ stage = "applying"
     /\ batch' = <<>> /\ answers' = <<>> /\ failed' = FALSE
     /\ \/ /\ \A p \in told : status[p] # "none"
           /\ status' = [p \in Player |-> IF p \in told THEN NewStatus(p) ELSE status[p]]
           /\ named'  = [p \in Player |-> IF p \in told THEN KeepName(p) ELSE named[p]]
           /\ due'    = [p \in Player |-> IF p \in told THEN NextAttempt ELSE due[p]]
           /\ IF more THEN stage' = "run" /\ UNCHANGED slept ELSE Sleep
        \/ /\ \E p \in told : status[p] = "none"
           /\ Sleep /\ UNCHANGED rows
     /\ UNCHANGED <<elapsed, present, vk, bell, more, lists, trouble>>

Rung == bell \/ elapsed >= slept + Interval

Wake ==
  /\ stage = "asleep" /\ Rung
  /\ stage' = "run" /\ bell' = FALSE
  /\ due' = [p \in Player |-> Max({0, due[p] - elapsed})]
  /\ elapsed' = 0 /\ slept' = 0
  /\ UNCHANGED <<present, vk, status, named, batch, more, asks, trouble>>

Cycle == Select \/ Ask \/ AskInVain \/ Apply \/ Wake

Next ==
  \/ \E p \in Player : Register(p) \/ Delete(p) \/ Change(p)
  \/ Ring \/ Tick \/ Cycle

Spec == Init /\ [][Next]_vars

(* The worker's loop goes on after every exception, and time passes.       *)
FairSpec == Spec /\ WF_vars(Cycle) /\ WF_vars(Tick)

-----------------------------------------------------------------------------
(* Properties.                                                             *)

TypeOK ==
  /\ elapsed \in 0..(MaxLag + Interval) /\ slept \in 0..MaxLag /\ present \subseteq Player
  /\ status \in [Player -> {"none", "PENDING", "OK", "UNAVAILABLE"}]
  /\ \A p \in Player : status[p] # "none" => p \in present
  /\ due \in [Player -> 0..Max({Ttl, Retry})]
  /\ stage \in {"run", "asking", "applying", "asleep"} /\ batch \in Seq(Player)
  /\ DOMAIN answers \subseteq ToSet(batch) /\ failed \in BOOLEAN

(* Every row of a batch gets an answer, the one VK had for it when it was  *)
(* asked, whoever else in the batch makes the calls fail.                  *)
OneBadSpoilsNoOther ==
  /\ [](stage = "applying" /\ ~failed => DOMAIN answers = ToSet(batch))
  /\ [][\A p \in DOMAIN answers' \ DOMAIN answers : answers'[p] = Says(p)]_vars

(* A name that was seen once stays, whatever VK shows later: a profile     *)
(* that is OK or was OK has one.                                           *)
NamesStay == [][\A p \in Player : named[p] /\ status'[p] # "none" => named'[p]]_vars

(* A cycle ends: no row comes up twice in it.                              *)
CycleEnds == stage # "asleep" ~> stage = "asleep"

(* Whoever registers is asked for, unless deleted first.                   *)
NobodyIsForgotten ==
  \A p \in Player : p \in present ~> (p \notin present \/ status[p] \in {"OK", "UNAVAILABLE"})
=============================================================================
