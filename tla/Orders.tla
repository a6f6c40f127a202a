------------------------------- MODULE Orders -------------------------------
(***************************************************************************)
(* Orders and their anonymous judges (module 04_orders): submission, the   *)
(* distribution to the least loaded judge, verdicts, refusals with their   *)
(* rating penalty, the administrator's assignment, the deletion of a       *)
(* player, and the worker's retry pass, with the bot rows they queue.      *)
(*                                                                         *)
(* submit, distribute, write_verdict, refuse, admin_assign_judge and the   *)
(* deletion hook run under one advisory lock that is held to the commit:   *)
(* each is one step.  What is read before the lock is a step of its own:   *)
(* the lists of a pass, and the caller that a request loads first.         *)
(***************************************************************************)
EXTENDS Integers, Sequences, FiniteSets, FiniteSetsExt

CONSTANTS
  Order,        \* orders ever submitted
  Player,       \* their ids break ties
  Author,       \* [Order -> Player]
  Worker,       \* processes running an OrdersWorker
  Consenting,   \* players whose consent is ALLOWED at the start
  None,         \* SQL NULL
  MaxPending,   \* judge.max_pending_verdicts
  MaxUnresolved,\* author.max_unresolved_orders
  BatchSize,    \* distribution.batch_size
  RemindAfter,  \* reminder_at - distributed_at
  Term,         \* deadline_at - distributed_at
  Rating,       \* judge_rating of every player at the start
  Penalty,      \* of a refusal (its late variant differs in the amount only)
  MaxRequests,  \* bound: refusals under way at a time
  MaxRefusals,  \* bound: refusals
  MaxFaults,    \* bound: distributions that raise, sends that fail, restarts
  MaxChanges,   \* bound: judges given and players deleted by an
                \* administrator, nations lost
  MaxTime       \* bound: the last instant

ASSUME OrdersAssumption ==
  /\ Player \subseteq Nat /\ IsFiniteSet(Player) /\ IsFiniteSet(Order)
  /\ Author \in [Order -> Player] /\ None \notin Player /\ Consenting \subseteq Player
  /\ {MaxPending, MaxUnresolved, BatchSize, RemindAfter, Penalty} \subseteq Nat \ {0}
  /\ {Rating, Term, MaxRequests, MaxRefusals, MaxFaults, MaxChanges, MaxTime} \subseteq Nat
  /\ RemindAfter < Term

VARIABLES
  now,
  order,    \* the orders table
  mail,     \* bot_outbox: the judge-facing rows, by their dedupe key
  alive,    \* players
  nation,   \* players that rule a nation
  consent,  \* players that accept the bot's messages
  rating,   \* players.judge_rating
  journal,  \* judge_rating_log
  request,  \* refusals whose caller is loaded, the lock not yet taken
  pass,     \* what each worker is doing
  budget

vars == <<now, order, mail, alive, nation, consent, rating, journal, request, pass, budget>>

Bounds  == {"refusals", "faults", "changes"}
Numbers == 1..(MaxRefusals + 1)          \* assignment_no
Key   == [to : Player, kind : {"assigned", "reminder"}, about : Order, no : Numbers]
Row   == [stage : {"absent", "open", "decided", "gone"}, number : Nat,
          judge : Player \cup {None}, since : Nat, reminded : BOOLEAN,
          refused : Seq(Player), no : Numbers]
Entry == [player : Player, about : Order, no : Numbers, applied : Nat]
Seen  == [id : Order, judge : Player, no : Numbers, since : Nat]
PassType == [stage : {"idle", "seat", "remind"}, todo : SUBSET Order,
             due : SUBSET Seen, at : Nat]

TypeOK ==
  /\ now \in 0..MaxTime
  /\ order \in [Order -> Row]
  /\ mail \in [Key -> {"none", "new", "out", "retry", "dropped"}]
  /\ alive \subseteq Player /\ nation \subseteq alive /\ consent \subseteq alive
  /\ rating \in [Player -> 0..Rating]
  /\ journal \subseteq Entry
  /\ request \subseteq [who : Player, about : Order, rating : 0..Rating, at : 0..MaxTime]
  /\ pass \in [Worker -> PassType]
  /\ budget \in [Bounds -> Nat]
  /\ \A o \in Order : order[o].stage # "decided" \/ order[o].judge # None

NoOrder == [stage |-> "absent", number |-> 0, judge |-> None, since |-> 0,
            reminded |-> FALSE, refused |-> <<>>, no |-> 1]
Opened(n) == [NoOrder EXCEPT !.stage = "open", !.number = n]
Idle    == [stage |-> "idle", todo |-> {}, due |-> {}, at |-> 0]

Init ==
  /\ now = 0
  /\ order = [o \in Order |-> NoOrder]
  /\ mail = [k \in Key |-> "none"]
  /\ alive = Player /\ nation = Player /\ consent = Consenting
  /\ rating = [p \in Player |-> Rating]
  /\ journal = {} /\ request = {}
  /\ pass = [w \in Worker |-> Idle]
  /\ budget = [f \in Bounds |-> IF f = "refusals" THEN MaxRefusals
                               ELSE IF f = "faults" THEN MaxFaults ELSE MaxChanges]

Spend(f) == budget[f] > 0 /\ budget' = [budget EXCEPT ![f] = @ - 1]

-----------------------------------------------------------------------------
(* Variants of operators below with a mistake in them: each one is what    *)
(* some property of this module is there to exclude.                       *)

(* The load limit is off by one.                                           *)
CandidatesAtTheLimit(t, o) ==
  {p \in alive : /\ p # Author[o] /\ p \in nation \cup consent
                 /\ \A i \in DOMAIN t[o].refused : t[o].refused[i] # p
                 /\ Cardinality({x \in Order : t[x].stage = "open" /\ t[x].judge = p})
                      <= MaxPending}

(* The next assignment keeps the number; a decided order can be refused.   *)
SameNo(x) == x.no
MayRefuseDecided(r) ==
  order[r.about].judge = r.who /\ r.at <= order[r.about].since + Term

(* The sweep does not look at the verdict; the pass does not end when      *)
(* there is nobody to remind.                                              *)
ClaimableDecided(o) == order[o].judge # None /\ ~order[o].reminded
ListedForEver(x, B) == [x EXCEPT !.stage = "remind", !.due = B]

-----------------------------------------------------------------------------
(* The bot's side: enqueue skips a player without consent and a stored key,*)
(* cancel_pending drops what is not on its way.                            *)

Rowkey(p, kind, o, no) == [to |-> p, kind |-> kind, about |-> o, no |-> no]

Enqueue(m, k) ==
  IF k.to \in consent /\ m[k] = "none" THEN [m EXCEPT ![k] = "new"] ELSE m

Recall(m, p, o, no) ==
  [k \in Key |-> IF k.to = p /\ k.about = o /\ k.no = no /\ m[k] \in {"new", "retry"}
                 THEN "dropped" ELSE m[k]]

-----------------------------------------------------------------------------
(* distribute, on a table t of orders.                                     *)

Stored(t)     == {o \in Order : t[o].stage \in {"open", "decided"}}
Waiting(t, o) == t[o].stage = "open" /\ t[o].judge = None
Undecided(t, p)  == {o \in Order : t[o].stage = "open" /\ t[o].judge = p}
Unresolved(t, p) == {o \in Order : t[o].stage = "open" /\ Author[o] = p}

(* The latest assignment, -1 for a player who never had one.               *)
LastSeat(t, p) == Max({-1} \cup {t[o].since : o \in {x \in Stored(t) : t[x].judge = p}})

Candidates(t, o) ==
  {p \in alive : /\ p # Author[o] /\ p \in nation \cup consent
                 /\ \A i \in DOMAIN t[o].refused : t[o].refused[i] # p
                 /\ Cardinality(Undecided(t, p)) < MaxPending}

(* select_judge_v1: least (pending, last assignment, id).                  *)
Preferred(t, p, q) ==
  LET load(x) == Cardinality(Undecided(t, x))
  IN \/ load(p) < load(q)
     \/ load(p) = load(q) /\ LastSeat(t, p) < LastSeat(t, q)
     \/ load(p) = load(q) /\ LastSeat(t, p) = LastSeat(t, q) /\ p < q

Selected(t, o, p) ==
  p \in Candidates(t, o) /\ \A q \in Candidates(t, o) \ {p} : Preferred(t, p, q)

(* One attempt inside its savepoint: it may raise, which leaves t and m.   *)
Distribute(t, m, o, at, b) ==
  \/ /\ Waiting(t, o)
     /\ \E p \in Player :
          /\ Selected(t, o, p)
          /\ order' = [t EXCEPT ![o].judge = p, ![o].since = at]
          /\ mail' = Enqueue(m, Rowkey(p, "assigned", o, t[o].no))
     /\ budget' = b
  \/ /\ ~Waiting(t, o) \/ Candidates(t, o) = {}
     /\ order' = t /\ mail' = m /\ budget' = b
  \/ /\ b["faults"] > 0
     /\ order' = t /\ mail' = m /\ budget' = [b EXCEPT !["faults"] = @ - 1]

-----------------------------------------------------------------------------
(* The requests.                                                           *)

Submit(o) ==
  /\ order[o].stage = "absent"
  /\ Author[o] \in alive \cap nation
  /\ Cardinality(Unresolved(order, Author[o])) < MaxUnresolved
  /\ LET number == 1 + Max({0} \cup {order[x].number : x \in Stored(order)})
         t == [order EXCEPT ![o] = Opened(number)]
     IN Distribute(t, mail, o, now, budget)
  /\ UNCHANGED <<now, alive, nation, consent, rating, journal, request, pass>>

WriteVerdict(o) ==
  /\ order[o].stage = "open" /\ order[o].judge # None
  /\ order' = [order EXCEPT ![o].stage = "decided"]
  /\ UNCHANGED <<now, mail, alive, nation, consent, rating, journal, request, pass, budget>>

(* A refusal's request: the Player row is loaded to check the token, and   *)
(* the moment is read before the lock.                                     *)
AskRefusal(p, o) ==
  /\ p \in alive /\ order[o].judge = p
  /\ Cardinality(request) < MaxRequests /\ Cardinality(request) < budget["refusals"]
  /\ request' = request \cup {[who |-> p, about |-> o, rating |-> rating[p], at |-> now]}
  /\ UNCHANGED <<now, order, mail, alive, nation, consent, rating, journal, pass, budget>>

(* change_judge_rating: SELECT FOR UPDATE locks the row, but the session   *)
(* keeps the Player it has loaded, with the rating of that time.           *)
Penalised(r, no) ==
  IF \E e \in journal : e.about = r.about /\ e.no = no
  THEN UNCHANGED <<rating, journal>>
  ELSE LET after == IF r.rating > Penalty THEN r.rating - Penalty ELSE 0
       IN /\ rating' = [rating EXCEPT ![r.who] = after]
          /\ journal' = journal \cup {[player |-> r.who, about |-> r.about, no |-> no,
                                       applied |-> r.rating - after]}

NextNo(x)   == x.no + 1
Released(x) == [x EXCEPT !.judge = None, !.since = 0, !.reminded = FALSE]
Refused(x, p) == [Released(x) EXCEPT !.refused = Append(@, p), !.no = NextNo(x)]

MayRefuse(r) ==
  /\ order[r.about].stage = "open" /\ order[r.about].judge = r.who
  /\ r.at <= order[r.about].since + Term

Refuse(r) ==
  /\ r \in request /\ MayRefuse(r) /\ budget["refusals"] > 0
  /\ request' = request \ {r}
  /\ LET o == r.about
         t == [order EXCEPT ![o] = Refused(@, r.who)]
     IN /\ Penalised(r, order[o].no)
        /\ Distribute(t, Recall(mail, r.who, o, order[o].no), o, r.at,
                      [budget EXCEPT !["refusals"] = @ - 1])
  /\ UNCHANGED <<now, alive, nation, consent, pass>>

(* ORDER_VERDICT_FORBIDDEN, ORDER_ALREADY_DECIDED, ORDER_DEADLINE_PASSED.  *)
TurnDown(r) ==
  /\ r \in request /\ ~MayRefuse(r)
  /\ request' = request \ {r}
  /\ UNCHANGED <<now, order, mail, alive, nation, consent, rating, journal, pass, budget>>

(* The administrator: nobody is told, the reminder is switched off.        *)
AdminAssign(o, p) ==
  /\ Spend("changes")
  /\ order[o].stage = "open" /\ p \in alive \ {Author[o], order[o].judge}
  /\ order' = [order EXCEPT ![o].judge = p, ![o].since = now, ![o].reminded = TRUE]
  /\ mail' = (IF order[o].judge = None THEN mail
              ELSE Recall(mail, order[o].judge, o, order[o].no))
  /\ UNCHANGED <<now, alive, nation, consent, rating, journal, request, pass>>

(* delete_player with its hooks: the judge's undecided orders wait again,  *)
(* the author's orders and the judge's decided ones go.                    *)
DeletePlayer(p) ==
  /\ p \in alive /\ Spend("changes")
  /\ alive' = alive \ {p} /\ nation' = nation \ {p} /\ consent' = consent \ {p}
  /\ order' = [o \in Order |->
       IF o \in Stored(order) /\ (Author[o] = p \/ (order[o].stage = "decided" /\ order[o].judge = p))
         THEN [NoOrder EXCEPT !.stage = "gone"]
       ELSE IF o \in Undecided(order, p) THEN Released(order[o])
       ELSE order[o]]
  /\ mail' = [k \in Key |-> IF k.to = p THEN "none" ELSE mail[k]]
  /\ journal' = {e \in journal : e.player # p}
  /\ request' = {r \in request : r.who # p}
  /\ UNCHANGED <<now, rating, pass>>

LoseNation(p) ==
  /\ p \in nation /\ Spend("changes")
  /\ nation' = nation \ {p}
  /\ UNCHANGED <<now, order, mail, alive, consent, rating, journal, request, pass>>

-----------------------------------------------------------------------------
(* The worker's pass.  Its moment is read once, at the start.              *)

(* ORDER BY .. LIMIT batch_size: any of the choices ties allow.            *)
Batches(S, Before(_, _)) ==
  {B \in SUBSET S : /\ Cardinality(B) = Min({BatchSize, Cardinality(S)})
                    /\ \A x \in B, y \in S \ B : ~Before(y, x)}

ReadWaiting(w) ==
  /\ pass[w].stage = "idle"
  /\ LET older(x, y) == order[x].number < order[y].number
     IN \E B \in Batches({o \in Order : Waiting(order, o)}, older) :
          pass' = [pass EXCEPT ![w] = [Idle EXCEPT !.stage = "seat", !.todo = B, !.at = now]]
  /\ UNCHANGED <<now, order, mail, alive, nation, consent, rating, journal, request, budget>>

(* A row deleted since it was listed raises, and the pass goes on.         *)
SeatNext(w) ==
  /\ pass[w].stage = "seat"
  /\ \E o \in pass[w].todo :
       /\ \A x \in pass[w].todo \ {o} : order[o].number <= order[x].number
       /\ pass' = [pass EXCEPT ![w].todo = @ \ {o}]
       /\ Distribute(order, mail, o, pass[w].at, budget)
  /\ UNCHANGED <<now, alive, nation, consent, rating, journal, request>>

Due(o, at) == /\ order[o].stage = "open" /\ order[o].judge # None
              /\ ~order[o].reminded /\ order[o].since + RemindAfter <= at

Listed(x, B) == IF B = {} THEN Idle ELSE [x EXCEPT !.stage = "remind", !.due = B]

ReadDue(w) ==
  /\ pass[w].stage = "seat" /\ pass[w].todo = {}
  /\ LET seen == {[id |-> o, judge |-> order[o].judge, no |-> order[o].no,
                   since |-> order[o].since] : o \in {x \in Order : Due(x, pass[w].at)}}
         earlier(x, y) == x.since < y.since
     IN \E B \in Batches(seen, earlier) :
          pass' = [pass EXCEPT ![w] = Listed(@, B)]
  /\ UNCHANGED <<now, order, mail, alive, nation, consent, rating, journal, request, budget>>

(* The conditional UPDATE looks at the row of today, the message is built  *)
(* from the row as it was listed; a CHECK refuses the mark without a judge.*)
Claimable(o) == order[o].stage = "open" /\ order[o].judge # None /\ ~order[o].reminded

Unlisted(x, d) == IF x.due = {d} THEN Idle ELSE [x EXCEPT !.due = @ \ {d}]

RemindNext(w) ==
  /\ pass[w].stage = "remind"
  /\ \E d \in pass[w].due :
       /\ \A x \in pass[w].due : d.since <= x.since
       /\ pass' = [pass EXCEPT ![w] = Unlisted(@, d)]
       /\ IF Claimable(d.id)
          THEN /\ order' = [order EXCEPT ![d.id].reminded = TRUE]
               /\ mail' = (IF d.since + Term <= pass[w].at THEN mail
                           ELSE Enqueue(mail, Rowkey(d.judge, "reminder", d.id, d.no)))
          ELSE UNCHANGED <<order, mail>>
  /\ UNCHANGED <<now, alive, nation, consent, rating, journal, request, budget>>

(* A crash or a deploy forgets the pass.                                   *)
Restart(w) ==
  /\ pass[w] # Idle /\ Spend("faults")
  /\ pass' = [pass EXCEPT ![w] = Idle]
  /\ UNCHANGED <<now, order, mail, alive, nation, consent, rating, journal, request>>

-----------------------------------------------------------------------------
(* The sender of the bot, as far as this module can tell: a row goes out,  *)
(* and it may come back for another attempt.                               *)

Deliver(k) ==
  /\ mail[k] \in {"new", "retry"}
  /\ mail' = [mail EXCEPT ![k] = "out"]
  /\ UNCHANGED <<now, order, alive, nation, consent, rating, journal, request, pass, budget>>

Return(k) ==
  /\ mail[k] = "out" /\ Spend("faults")
  /\ mail' = [mail EXCEPT ![k] = "retry"]
  /\ UNCHANGED <<now, order, alive, nation, consent, rating, journal, request, pass>>

Tick ==
  /\ now < MaxTime
  /\ now' = now + 1
  /\ UNCHANGED <<order, mail, alive, nation, consent, rating, journal, request, pass, budget>>

Pass(w) == ReadWaiting(w) \/ SeatNext(w) \/ ReadDue(w) \/ RemindNext(w)

Next ==
  \/ Tick
  \/ \E o \in Order : \/ Submit(o) \/ WriteVerdict(o)
                      \/ \E p \in Player : AskRefusal(p, o) \/ AdminAssign(o, p)
  \/ \E r \in request : Refuse(r) \/ TurnDown(r)
  \/ \E p \in Player : DeletePlayer(p) \/ LoseNation(p)
  \/ \E w \in Worker : Pass(w) \/ Restart(w)
  \/ \E k \in Key : Deliver(k) \/ Return(k)

Spec == Init /\ [][Next]_vars

(* The worker's loop outlives every exception and runs at its interval.    *)
FairSpec == Spec /\ \A w \in Worker : WF_vars(Pass(w))

-----------------------------------------------------------------------------
(* Safety.                                                                 *)

(* INV-O4, and the refusals: whoever distribution seats is not the author, *)
(* has not refused this order and is within the load limit, however the    *)
(* passes, requests and administrators interleave.                         *)
SeatedWithinLimits ==
  [][\A o \in Order :
       LET p == order'[o].judge
       IN p \notin {None, order[o].judge} /\ ~order'[o].reminded =>
            /\ p # Author[o]
            /\ \A i \in DOMAIN order'[o].refused : order'[o].refused[i] # p
            /\ Cardinality(Undecided(order', p)) <= MaxPending]_vars

(* Every refusal is in the rating journal, once, under its own number: the *)
(* k-th judge who refused an order has the entry k of that order.          *)
RefusalsArePenalised ==
  \A o \in Stored(order) :
    /\ Len(order[o].refused) = order[o].no - 1
    /\ \A k \in DOMAIN order[o].refused :
         order[o].refused[k] \in alive =>
           \E e \in journal : e.player = order[o].refused[k] /\ e.about = o /\ e.no = k
    /\ \A e \in journal : e.about = o => e.no < order[o].no

(* A judge who has lost an order is not told of the assignment any more,   *)
(* unless the message was already on its way: a row never sent before is   *)
(* addressed to the judge of today.                                        *)
NewsIsForTheJudge ==
  \A k \in Key : k.kind = "assigned" /\ mail[k] = "new" /\ k.about \in Stored(order)
                   => order[k.about].judge = k.to /\ order[k.about].no = k.no

(* A decided order is never reminded of: the claim and the verdict meet on *)
(* the row.                                                                *)
NoReminderAfterVerdict ==
  [][\A k \in Key : k.kind = "reminder" /\ mail[k] = "none" /\ mail'[k] = "new"
       => order[k.about].stage = "open"]_vars

(* What the bot tells of an order is true when it is queued and while it   *)
(* waits: of its judge of today, and of an order still to be decided.      *)
TheTruthIsTold == []NewsIsForTheJudge /\ NoReminderAfterVerdict

-----------------------------------------------------------------------------
(* Liveness.                                                               *)

(* An order that waits while a judge is to be had gets one.                *)
WaitingIsSeated ==
  \A o \in Order : (Waiting(order, o) /\ Candidates(order, o) # {})
                     ~> ~(Waiting(order, o) /\ Candidates(order, o) # {})

(* A reminder that is due is dealt with.                                   *)
DueIsReminded == \A o \in Order : Due(o, now) ~> ~Due(o, now)

(* Nothing is forgotten: both.                                             *)
NothingIsForgotten == WaitingIsSeated /\ DueIsReminded

-----------------------------------------------------------------------------
(* Statements of the sources that the code does not keep.                  *)

(* rating_service.py: "two concurrent changes can never lose one".         *)
RatingIsJournal ==
  \A p \in alive :
    rating[p] = Rating - MapThenSumSet(LAMBDA e : e.applied, {e \in journal : e.player = p})
=============================================================================
