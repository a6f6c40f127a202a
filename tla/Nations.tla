------------------------------ MODULE Nations ------------------------------
(***************************************************************************)
(* Nations, provinces and nation applications (module 00_core): drafts,    *)
(* submissions with their reserve, decisions, the auto-accept pass, the    *)
(* direct creation of a nation, the administrator's transfers, deletions   *)
(* and the reset, together with the ownership journal of 01_map.           *)
(*                                                                         *)
(* Most operations read before they wait for the nations advisory lock and *)
(* decide and commit under it, so each is two steps: Begin.. reads, End..  *)
(* is the locked part up to the commit.  What a session has read as an ORM *)
(* object it keeps: a second SELECT of the same row leaves the loaded      *)
(* attributes as they are, only session.refresh and column queries see     *)
(* what other sessions committed meanwhile.  Deletions take no lock; their *)
(* End is the flush.  A step that commits overtakes every session that is  *)
(* between its two steps.                                                  *)
(*                                                                         *)
(* One name stands for the full name, the short name and the colour; the   *)
(* profile's text fields are left out.                                     *)
(***************************************************************************)
EXTENDS Integers, FiniteSets
LOCAL INSTANCE FiniteSetsExt

CONSTANTS
  Player,
  Admin,          \* the players who decide on applications
  Province,       \* land provinces
  Name,
  Wish,           \* the contents of a form: [name, picks, capital]
  Session,        \* requests that others may overtake
  Worker,         \* the applications worker
  MinProvinces,   \* nation.min_provinces_per_nation
  MaxProvinces,   \* nation.max_provinces_per_nation
  MaxNations,     \* bound: nations founded and applications pending
  MaxFiled,       \* bound: applications filed
  MaxNumber,      \* bound: submissions of one application
  MaxOrders,      \* bound: acts of the administration and failures of the worker
  MaxActs,        \* bound: all of these, the applications filed and the submissions
  MaxOvertaken    \* bound: kinds of requests that commit after being overtaken

ASSUME NationsAssumption ==
  /\ Admin \subseteq Player /\ Worker \notin Session /\ 0 \notin Session \cup {Worker}
  /\ Province \subseteq Nat \ {0} /\ IsFiniteSet(Province)
  /\ Wish \subseteq [name : Name, picks : SUBSET Province, capital : Province \cup {0}]
  /\ MinProvinces \in Nat /\ MaxProvinces \in Nat \ {0}
  /\ {MaxNations, MaxFiled, MaxNumber, MaxOrders, MaxActs, MaxOvertaken} \subseteq Nat

Client   == Session \cup {Worker}
Nation   == 1..MaxNations           \* nations.id, a fresh uuid each time
Filing   == 1..MaxFiled             \* nation_applications.id
Broken   == 0 - 1                   \* no owner
None     == 0                       \* SQL NULL where an id or a number may be

VARIABLES
  nation,      \* nations
  born,        \* nations founded so far
  holder,      \* provinces.nation_id
  journal,     \* what replaying map_ownership_log gives for each province
  app,         \* nation_applications with their provinces
  filed,       \* applications filed so far
  tx,          \* what each session has read
  overtaken,   \* fragile kinds of requests that committed after being overtaken
  orders       \* acts of the administration and failures of the worker left

worldVars == <<nation, born, holder, journal>>
appVars   == <<app, filed>>
vars == <<worldVars, appVars, tx, overtaken, orders>>

Rule == [owner : Player, name : Name, capital : Province \cup {None}]
NoNation == [owner |-> None]
Application ==
  [status : {"DRAFT", "PENDING", "ACCEPTED"}, owner : Player, name : Name,
   picks : SUBSET Province, capital : Province \cup {None}, reserved : BOOLEAN,
   reason : {"", "returned", "cancelled", "failed"}, due : BOOLEAN,
   number : 0..MaxNumber]
NoApplication == [status |-> "none", reserved |-> FALSE]

Ops == {"save", "submit", "accept", "return", "transfer",
        "delete", "evict", "pass", "auto"}
(* Those that act on what they have read even if it has changed.           *)
Fragile == {"save", "submit", "transfer", "delete", "evict", "auto"}
Idle == [op |-> "idle", stale |-> FALSE]

Init ==
  /\ nation = [n \in Nation |-> NoNation]
  /\ born = 0
  /\ holder = [p \in Province |-> None]
  /\ journal = [q \in Province |-> None]
  /\ app = [a \in Filing |-> NoApplication]
  /\ filed = 0
  /\ tx = [s \in Client |-> Idle]
  /\ overtaken = {}
  /\ orders = MaxOrders

-----------------------------------------------------------------------------
(* What the checks look at.                                                *)

Nations    == {n \in Nation : nation[n] # NoNation}
NationOf(p) == {n \in Nations : nation[n].owner = p}
HeldBy(n)  == {q \in Province : holder[q] = n}

With(status) == {a \in Filing : app[a].status = status}
Live(p)    == {a \in With("DRAFT") \cup With("PENDING") : app[a].owner = p}

(* _check_name_free: no nation and no other pending application has it.    *)
NameFree(x, a) ==
  /\ \A n \in Nations : nation[n].name # x
  /\ \A b \in With("PENDING") \ {a} : app[b].name # x

Reserved(q, a) == \E b \in Filing \ {a} : app[b].reserved /\ q \in app[b].picks

(* _load_available_provinces: free, and in no application's reserve but a's. *)
Available(Q, a) == \A q \in Q : holder[q] = None /\ ~Reserved(q, a)

RightCount(Q) == Cardinality(Q) \in MinProvinces..MaxProvinces

(* MaxNations also covers the nations the pending applications will make.  *)
RoomForNation == born + Cardinality(With("PENDING")) < MaxNations

RoomForAct ==
  filed + (MaxOrders - orders) < MaxActs
    - MapThenSumSet(LAMBDA a : app[a].number, {a \in Filing : app[a] # NoApplication})

-----------------------------------------------------------------------------
(* Sessions.                                                               *)

(* A read: nobody notices.                                                 *)
Begin(s, r) ==
  /\ tx[s] = Idle
  /\ tx' = [tx EXCEPT ![s] = r]
  /\ UNCHANGED <<worldVars, appVars, overtaken, orders>>

(* s commits (or a request of one step, None) and is left with r: whoever  *)
(* is between reading and committing has been overtaken.                   *)
Commit(s, r) ==
  /\ tx' = [t \in Client |-> IF t = s THEN r ELSE IF tx[t] = Idle THEN Idle
                             ELSE [tx[t] EXCEPT !.stale = TRUE]]
  /\ overtaken' = IF s # None /\ tx[s].stale
                  THEN overtaken \cup ({tx[s].op} \cap Fragile) ELSE overtaken

(* A refusal, an IntegrityError or a lost connection: nothing is written.  *)
Abort(s) ==
  /\ tx[s] # Idle
  /\ tx' = [tx EXCEPT ![s] = Idle]
  /\ UNCHANGED <<worldVars, appVars, overtaken, orders>>

Act == orders > 0 /\ RoomForAct /\ orders' = orders - 1

(* One journal row for each province of Q: from prev to n.  A row that does *)
(* not start from the owner the rows before it have left breaks the replay. *)
Announce(Q, prev, n) ==
  journal' = [q \in Province |->
    IF q \notin Q THEN journal[q] ELSE IF journal[q] = prev THEN n ELSE Broken]
Hand(Q, n) == holder' = [q \in Province |-> IF q \in Q THEN n ELSE holder[q]]

(* The nations row, its provinces and their journal rows, in one flush.    *)
Found(p, x, Q, c) ==
  /\ born' = born + 1
  /\ nation' = [nation EXCEPT ![born + 1] = [owner |-> p, name |-> x, capital |-> c]]
  /\ Hand(Q, born + 1)
  /\ Announce(Q, None, born + 1)

-----------------------------------------------------------------------------
(* The player's own application.                                           *)

(* save_draft.  A draft seen before the lock is written whatever it is now; *)
(* attributes equal to the ones seen are not part of the UPDATE.           *)
SaveOf(p) == [op |-> "save", stale |-> FALSE, who |-> p,
              seen |-> {<<a, app[a].name, app[a].capital>> : a \in Live(p)}]

SaveReads ==
  {SaveOf(p) : p \in {p \in Player : NationOf(p) = {} /\ Live(p) \subseteq With("DRAFT")}}

Draft(p, form) ==
  [status |-> "DRAFT", owner |-> p, name |-> form.name, picks |-> form.picks,
   capital |-> form.capital,
   reserved |-> FALSE, reason |-> "", due |-> FALSE, number |-> 0]

Save(r) ==
  /\ \E form \in Wish :
       LET known(a) == \E v \in r.seen : v[1] = a
           kept(a, i, value) == \E v \in r.seen : v[1] = a /\ v[i] = value
       IN \/ /\ Live(r.who) = {} /\ filed < MaxFiled /\ RoomForAct
             /\ filed' = filed + 1
             /\ app' = [app EXCEPT ![filed + 1] = Draft(r.who, form)]
          \/ \E a \in Live(r.who) :
               /\ known(a) \/ app[a].status = "DRAFT"
               /\ app' = [app EXCEPT
                    ![a].name = IF kept(a, 2, form.name) THEN @ ELSE form.name,
                    ![a].capital = IF kept(a, 3, form.capital) THEN @ ELSE form.capital,
                    ![a].picks = form.picks, ![a].reserved = FALSE]
               /\ UNCHANGED filed
  /\ UNCHANGED <<worldVars, orders>>

(* submit.  The provinces are read under the lock, the name, the capital   *)
(* and the number are those of the draft seen before it.                   *)
SubmitReads ==
  {[op |-> "submit", stale |-> FALSE, who |-> app[a].owner, app |-> a, seen |-> app[a]] :
   a \in {a \in With("DRAFT") : NationOf(app[a].owner) = {}}}

NextNumber(view) == view.number + 1

Submit(r) ==
  /\ RoomForNation
  /\ \E a \in Live(r.who) :
       LET view == IF a = r.app THEN r.seen ELSE app[a]
           Q    == app[a].picks
       IN /\ view.status = "DRAFT" /\ view.number < MaxNumber /\ RoomForAct
          /\ NameFree(view.name, a)
          /\ \A b \in With("PENDING") \ {a} : app[b].name # app[a].name  \* the index
          /\ Available(Q, None) /\ RightCount(Q) /\ view.capital \in Q
          /\ app' = [app EXCEPT ![a].status = "PENDING", ![a].reason = "",
                                ![a].due = FALSE, ![a].number = NextNumber(view),
                                ![a].reserved = TRUE]
  /\ UNCHANGED <<worldVars, filed, orders>>

\* a variant: a status the column does not have
BackToReturned(a, why) ==
  app' = [app EXCEPT ![a].status = "RETURNED", ![a].reason = why,
                     ![a].due = FALSE, ![a].reserved = FALSE]

\* a variant: the reserve is kept
BackToReserved(a, why) ==
  app' = [app EXCEPT ![a].status = "DRAFT", ![a].reason = why, ![a].due = FALSE]

BackToDraft(a, why) ==
  app' = [app EXCEPT ![a].status = "DRAFT", ![a].reason = why,
                     ![a].due = FALSE, ![a].reserved = FALSE]

(* cancel takes the lock first.                                            *)
Cancel(p) ==
  /\ \E a \in Live(p) \cap With("PENDING") : BackToDraft(a, "cancelled")
  /\ Commit(None, Idle)
  /\ UNCHANGED <<worldVars, filed, orders>>

-----------------------------------------------------------------------------
(* Decisions.                                                              *)

(* Another administrator than the applicant, and the row is pending.       *)
DecisionReads ==
  {[op |-> op, stale |-> FALSE, app |-> a] :
   op \in {"accept", "return"},
   a \in {a \in With("PENDING") : Admin \ {app[a].owner} # {}}}

Grantable(a) ==
  /\ NationOf(app[a].owner) = {}
  /\ NameFree(app[a].name, a)
  /\ Available(app[a].picks, a) /\ RightCount(app[a].picks)
  /\ app[a].capital \in app[a].picks

\* a variant: the row is not refreshed under the lock
AcceptableAsRead(a) == app[a] # NoApplication /\ Grantable(a)

(* accept, after session.refresh under the lock.                           *)
Acceptable(a) == app[a].status = "PENDING" /\ Grantable(a)

Accept(a) ==
  /\ Acceptable(a)
  /\ Found(app[a].owner, app[a].name, app[a].picks, app[a].capital)
  /\ app' = [app EXCEPT ![a].status = "ACCEPTED", ![a].reserved = FALSE]

Return(a) ==
  /\ app[a].status = "PENDING"
  /\ BackToDraft(a, "returned")
  /\ UNCHANGED worldVars

Decide(r) ==
  /\ (r.op = "accept" /\ Accept(r.app)) \/ (r.op = "return" /\ Return(r.app))
  /\ UNCHANGED <<filed, orders>>

(* The review deadline passes.                                             *)
Expire(a) ==
  /\ app[a].status = "PENDING" /\ ~app[a].due
  /\ app' = [app EXCEPT ![a].due = TRUE]
  /\ UNCHANGED <<worldVars, filed, tx, overtaken, orders>>

(* run_pass lists the overdue applications once, then takes them one by    *)
(* one, each in a transaction of its own.                                  *)
Overdue == {a \in With("PENDING") : app[a].due}

BeginPass ==
  /\ Overdue # {}
  /\ Begin(Worker, [op |-> "pass", stale |-> FALSE, left |-> Overdue])

Rest(Q, stale) == IF Q = {} THEN Idle ELSE [op |-> "pass", stale |-> stale, left |-> Q]

(* _auto_accept_guarded looks at the row: skipped unless it is pending.    *)
BeginAuto ==
  /\ tx[Worker].op = "pass"
  /\ \E a \in tx[Worker].left :
       tx' = [tx EXCEPT ![Worker] =
                IF app[a].status = "PENDING"
                THEN [op |-> "auto", stale |-> @.stale, app |-> a, left |-> @.left \ {a}]
                ELSE Rest(@.left \ {a}, @.stale)]
  /\ UNCHANGED <<worldVars, appVars, overtaken, orders>>

(* Accepted, or whatever refused the acceptance makes it a draft again -   *)
(* unless the unique index of live applications refuses that, or the row   *)
(* is gone: then only the log hears of it.                                 *)
Alone(a) == app[a].status # "none" /\ Live(app[a].owner) \subseteq {a}

\* a variant: a refused acceptance is only logged
IgnoreRefusal(a) == ~Acceptable(a) /\ UNCHANGED <<worldVars, app>>

Refused(a) ==
  /\ ~Acceptable(a)
  /\ IF Alone(a) THEN BackToDraft(a, "failed") ELSE UNCHANGED app
  /\ UNCHANGED worldVars

EndAuto ==
  /\ tx[Worker].op = "auto"
  /\ LET a == tx[Worker].app IN Accept(a) \/ Refused(a)
  /\ Commit(Worker, Rest(tx[Worker].left, tx[Worker].stale))
  /\ UNCHANGED <<filed, orders>>

(* The worker fails in the middle; the pass goes on or the loop pauses and *)
(* starts another one.                                                     *)
FailAuto ==
  /\ tx[Worker] # Idle /\ Act
  /\ \/ tx' = [tx EXCEPT ![Worker] = Idle]
     \/ tx' = [tx EXCEPT ![Worker] = Rest(@.left, @.stale)]
  /\ UNCHANGED <<worldVars, appVars, overtaken>>

-----------------------------------------------------------------------------
(* Nations and provinces.                                                  *)

(* NationService.create, the player's own and the administrator's.  All    *)
(* it reads before the lock is that the player has no nation, which the    *)
(* unique index looks at again: one step.                                  *)
Create(p) ==
  /\ RoomForNation
  /\ NationOf(p) = {}
  /\ \E form \in Wish :
       /\ NameFree(form.name, None)
       /\ Available(form.picks, None) /\ RightCount(form.picks)
       /\ form.capital \in form.picks
       /\ Found(p, form.name, form.picks, form.capital)
  /\ Commit(None, Idle)
  /\ UNCHANGED <<appVars, orders>>

(* NationService.update: only the other nations' names are looked at.      *)
Rename(n, x) ==
  /\ Act
  /\ \A m \in Nations \ {n} : nation[m].name # x
  /\ nation[n].name # x
  /\ nation' = [nation EXCEPT ![n].name = x]
  /\ Commit(None, Idle)
  /\ UNCHANGED <<born, holder, journal, appVars>>

(* transfer: the province is read before the lock and not again.           *)
TransferReads ==
  {[op |-> "transfer", stale |-> FALSE, province |-> q, to |-> n, was |-> holder[q]] :
   q \in Province, n \in Nations \cup {None}}

(* n is about to lose q: another of its provinces becomes the capital.     *)
MoveCapital(n, q) ==
  IF n \in Nations /\ nation[n].capital = q
  THEN \E c \in HeldBy(n) \ {q} : nation' = [nation EXCEPT ![n].capital = c]
  ELSE UNCHANGED nation

Transfer(r) ==
  /\ r.was # r.to /\ r.to \in Nations \cup {None}   \* the foreign key
  /\ ~Reserved(r.province, None)
  /\ r.was # None => Cardinality(HeldBy(r.was)) # 1
  /\ MoveCapital(r.was, r.province)
  /\ Hand({r.province}, r.to)
  /\ Announce({r.province}, r.was, r.to)
  /\ Act /\ UNCHANGED <<born, appVars>>

(* NationService.delete frees the provinces it has listed and those the    *)
(* ORM finds pointing to the nation at the flush; the listed ones are      *)
(* announced.                                                              *)
DeleteReads == {[op |-> "delete", stale |-> FALSE, nation |-> n, listed |-> HeldBy(n)] :
                n \in Nations}

\* a variant: nobody is told
RazeQuietly(n, Q) ==
  /\ nation' = [nation EXCEPT ![n] = NoNation]
  /\ Hand(Q \cup HeldBy(n), None)
  /\ UNCHANGED journal

Raze(n, Q) ==
  /\ nation' = [nation EXCEPT ![n] = NoNation]
  /\ Hand(Q \cup HeldBy(n), None)
  /\ Announce(Q, n, None)

Delete(r) == Raze(r.nation, r.listed) /\ Act /\ UNCHANGED <<born, appVars>>

(* delete_player: the nation, the applications, the player.  A nation made *)
(* meanwhile holds the player's row by its foreign key.  The player's own  *)
(* requests under way fail (Abort).                                        *)
EvictReads ==
  {[op |-> "evict", stale |-> FALSE, victim |-> p, nation |-> NationOf(p),
    listed |-> {q \in Province : holder[q] \in NationOf(p)}] : p \in Player \ Admin}

Requests(p) == {t \in Session : tx[t].op \in {"save", "submit"} /\ tx[t].who = p}

Without(p) == [a \in Filing |-> IF app[a] # NoApplication /\ app[a].owner = p
                                 THEN NoApplication ELSE app[a]]

Evict(r) ==
  /\ Requests(r.victim) = {}
  /\ NationOf(r.victim) \subseteq r.nation
  /\ IF r.nation = {} THEN UNCHANGED worldVars
     ELSE (\E n \in r.nation : Raze(n, r.listed)) /\ UNCHANGED born
  /\ app' = Without(r.victim)
  /\ Act /\ UNCHANGED filed

(* admin_reset of 00_core and of 01_map, in one transaction.               *)
Reset ==
  /\ Act
  /\ nation' = [n \in Nation |-> NoNation]
  /\ holder' = [q \in Province |-> None] /\ journal' = holder'
  /\ app' = [a \in Filing |-> NoApplication]
  /\ Commit(None, Idle)
  /\ UNCHANGED <<born, filed>>

-----------------------------------------------------------------------------
(* No request begins once MaxOvertaken fragile ones have been overtaken.   *)
Reads ==
  IF Cardinality(overtaken) >= MaxOvertaken THEN {}
  ELSE SaveReads \cup SubmitReads \cup DecisionReads
         \cup (IF orders = 0 \/ ~RoomForAct THEN {}
               ELSE TransferReads \cup DeleteReads \cup EvictReads)

(* The locked part of a request that has read r, up to the commit.         *)
Apply(r) ==
  \/ r.op = "save" /\ Save(r)
  \/ r.op = "submit" /\ Submit(r)
  \/ r.op \in {"accept", "return"} /\ Decide(r)
  \/ r.op = "transfer" /\ Transfer(r)
  \/ r.op = "delete" /\ Delete(r)
  \/ r.op = "evict" /\ Evict(r)

(* A request that somebody may overtake, and one that nobody does.         *)
Request(s) ==
  \/ \E r \in Reads : Begin(s, r)
  \/ Apply(tx[s]) /\ Commit(s, Idle)
  \/ Abort(s)
QuickRequest == \E r \in Reads : Apply(r) /\ Commit(None, Idle)

AtOnce ==
  \/ \E p \in Player : Cancel(p) \/ Create(p)
  \/ \E a \in Filing : Expire(a)
  \/ \E n \in Nations, x \in Name : Rename(n, x)
  \/ Reset

Pass == BeginPass \/ BeginAuto \/ EndAuto

Next == (\E s \in Session : Request(s)) \/ QuickRequest \/ AtOnce \/ Pass \/ FailAuto

Spec == Init /\ [][Next]_vars

(* The applications worker keeps making passes and every pass goes on.     *)
FairSpec == Spec /\ WF_vars(Pass)

-----------------------------------------------------------------------------
(* Properties.  What a request overtaken by another one may break is said  *)
(* by the kinds of overtaken requests each of them exempts.                *)

Unless(ops) == overtaken \cap ops = {}

TypeOK ==
  /\ nation \in [Nation -> Rule \cup {NoNation}] /\ born \in 0..MaxNations
  /\ holder \in [Province -> Nation \cup {None}]
  /\ journal \in [Province -> Nation \cup {None, Broken}]
  /\ app \in [Filing -> Application \cup {NoApplication}] /\ filed \in 0..MaxFiled
  /\ DOMAIN tx = Client
  /\ \A s \in Client : tx[s].op \in Ops \cup {"idle"} /\ tx[s].stale \in BOOLEAN
  /\ overtaken \subseteq Fragile
  /\ orders \in 0..MaxOrders

(* APP-1: whoever interferes, a province under reserve is free, in the     *)
(* reserve of one application only, and that application is pending.       *)
ReservedIsFree ==
  \A a \in Filing : app[a].reserved =>
    /\ app[a].status = "PENDING"
    /\ \A q \in app[a].picks : holder[q] = None /\ ~Reserved(q, a)

(* models.py: is_reserved is true exactly while the application is pending *)
(* - unless a save has written over a submission it did not see.           *)
PendingIsReserved ==
  Unless({"save"}) =>
    \A a \in With("PENDING") : app[a].reserved /\ RightCount(app[a].picks)

(* The reserve: both.                                                      *)
ReserveIsKept == ReservedIsFree /\ PendingIsReserved

(* INV-14 and LAST_PROVINCE: a nation always has a province and its        *)
(* capital is one of its own - unless a transfer or a deletion acts on an  *)
(* owner that has changed.                                                 *)
NationKeepsCapital ==
  Unless({"transfer", "delete", "evict"}) =>
    \A n \in Nations : holder[nation[n].capital] = n

(* INV-M7: every change of owner has its journal row, which names the      *)
(* former and the new owner: replaying the journal gives the map - unless  *)
(* a transfer or a deletion acts on an owner that has changed.             *)
OwnershipIsJournalled == Unless({"transfer", "delete", "evict"}) => journal = holder

(* The map and its journal: both.                                          *)
ProvincesAreAccounted == NationKeepsCapital /\ OwnershipIsJournalled

(* The reviewers decide on what was submitted: while an application is     *)
(* pending nothing is written over it - unless by a save that saw a draft. *)
PendingIsFrozen ==
  [][Unless({"save"})' =>
       \A a \in Filing :
         app[a].status = "PENDING" /\ app'[a].status = "PENDING" =>
           app'[a].picks = app[a].picks /\ app'[a].name = app[a].name]_vars

(* APP-3: decisions, cancellation and auto-accept race for the row and the *)
(* first one wins: what has been decided is not decided again.             *)
DecisionStands ==
  \A a \in Filing :
    /\ app[a].status = "ACCEPTED" => app'[a].status \in {"ACCEPTED", "none"}
    /\ app[a].status = "DRAFT" =>
         /\ app'[a].status # "ACCEPTED"
         /\ app'[a].status = "DRAFT" => app'[a].reason = app[a].reason
FirstDecisionWins == [][DecisionStands]_vars
FirstOtherDecisionWins == [][Unless({"auto"})' => DecisionStands]_vars

(* The worker accepts only what is overdue - unless the pass is older than *)
(* the submission.                                                         *)
AutoAcceptsOverdue ==
  [][Unless({"auto"})' /\ tx[Worker].op = "auto" /\ tx'[Worker].op # "auto" =>
         \A a \in Filing :
           app[a].status = "PENDING" /\ app'[a].status = "ACCEPTED" => app[a].due]_vars

(* Each submission has a number of its own, so the notices of two of them  *)
(* never share an event key.                                               *)
SubmissionsAreNumbered ==
  [][Unless({"submit"})' =>
       \A a \in Filing :
         app[a].status = "DRAFT" /\ app'[a].status = "PENDING"
           => app'[a].number > app[a].number]_vars

(* How an application is decided: as submitted, once, in its time, and     *)
(* under a number of its own.                                              *)
DecisionsAreSound ==
  /\ PendingIsFrozen /\ FirstOtherDecisionWins
  /\ AutoAcceptsOverdue /\ SubmissionsAreNumbered

(* APP-4: an overdue application does not wait for ever.                   *)
OverdueIsDecided ==
  \A a \in Filing : app[a].status = "PENDING" /\ app[a].due ~> app[a].status # "PENDING"

-----------------------------------------------------------------------------
(* Statements of the docs that the code does not keep.                     *)

(* 00_core_applications.md, APP-1: the names of a pending application are  *)
(* taken for everybody (a nation may be renamed to one).                   *)
PendingNameIsTaken ==
  \A a \in With("PENDING") : \A n \in Nations : nation[n].name # app[a].name
=============================================================================
