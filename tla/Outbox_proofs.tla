--------------------------- MODULE Outbox_proofs ---------------------------
(***************************************************************************)
(* Proofs about Outbox for every set of rows, processes, groups and lease  *)
(* tokens, every time to live and every bound.                             *)
(*                                                                         *)
(* One inductive invariant, OutboxInv.  Lease tokens are never shared, and *)
(* the rows under a token are rows of the group that carries it.  The rows *)
(* of a group that wait or are leased are in lockstep: they wait for the   *)
(* same moment and their lease runs out at the same moment.  So a group is *)
(* taken as a whole or never again; and what goes out under its random_id  *)
(* a second time is what went out the first time.                          *)
(***************************************************************************)
EXTENDS Outbox, FiniteSetTheorems, FunctionTheorems, NaturalsInduction,
        WellFoundedInduction, TLAPS

(***************************************************************************)
(* Fresh ids.                                                              *)
(***************************************************************************)

(* Where there are enough ids, Assign gives every element one of its own.  *)
LEMMA Assigned ==
  ASSUME NEW S, NEW ids, IsFiniteSet(S), IsFiniteSet(ids), Enough(S, ids)
  PROVE  /\ Assign(S, ids) \in [S -> ids]
         /\ \A a, b \in S : Assign(S, ids)[a] = Assign(S, ids)[b] => a = b
  <1> DEFINE m == Cardinality(S)  n == Cardinality(ids)
  <1>1. m \in Nat /\ n \in Nat /\ ExistsBijection(1..m, S) /\ ExistsBijection(1..n, ids)
    BY FS_CardinalityType
  <1>2. m <= n  BY DEF Enough
  <1> HIDE DEF m, n
  <1>3. ExistsInjection(1..m, 1..n)  BY <1>1, <1>2, Fun_NatInjLeq
  <1>4. ExistsInjection(S, 1..m) /\ ExistsInjection(1..n, ids)
    BY <1>1, Fun_ExistsBijEquiv
  <1>5. ExistsInjection(S, ids)  BY <1>3, <1>4, Fun_ExistsInjTransitive
  <1>6. PICK f \in Injection(S, ids) : TRUE  BY <1>5, Fun_ExistsInj
  <1>7. f \in [S -> ids] /\ \A a, b \in S : f[a] = f[b] => a = b
    BY <1>6, Fun_InjectionProperties
  <1> QED  BY <1>7 DEF Assign

(***************************************************************************)
(* What the writes do to a row.                                            *)
(***************************************************************************)
Unsettled(x) == x.status \in {"PENDING", "LEASED"}
Stored(x)    == x.status \notin {"absent", "deleted"}

LEMMA SettleFacts ==
  ASSUME NEW x \in RowType, NEW s \in Terminal
  PROVE  LET y == Settle(x, s)
         IN /\ y \in RowType /\ y.status = s /\ y.group = x.group
            /\ y.created = x.created /\ y.expires = x.expires
  BY DEF Settle, RowType, Statuses

LEMMA UnleasedFacts ==
  ASSUME NEW x \in RowType
  PROVE  LET y == Unleased(x)
         IN /\ y \in RowType /\ y.status = "PENDING" /\ y.group = x.group
            /\ y.created = x.created /\ y.expires = x.expires /\ y.next = x.next
            /\ y.until = 0 /\ y.token = None
  BY DEF Unleased, RowType, Statuses

LEMMA RefusedFacts ==
  ASSUME NEW x \in RowType
  PROVE  LET y == Refused(x)
         IN /\ y \in RowType /\ y.status = "PENDING" /\ y.group = x.group
            /\ y.created = x.created /\ y.expires = x.expires /\ y.next = x.next
            /\ y.until = 0 /\ y.token = None
  BY UnleasedFacts DEF Refused, RowType

LEMMA RetriedFacts ==
  ASSUME NEW x \in RowType, NEW at \in Nat
  PROVE  LET y == Retried(x, at)
         IN /\ y \in RowType /\ y.status = "PENDING" /\ y.group = x.group
            /\ y.created = x.created /\ y.expires = x.expires /\ y.next = at + Backoff
            /\ y.until = 0 /\ y.token = None
  <1>1. Backoff \in Nat  BY OutboxAssumption
  <1> QED  BY <1>1, RefusedFacts DEF Retried, RowType

LEMMA DissolvedFacts ==
  ASSUME NEW x \in RowType
  PROVE  LET y == Dissolved(x)
         IN /\ y \in RowType /\ y.status = "PENDING" /\ y.group = None
            /\ y.created = x.created /\ y.expires = x.expires
  BY UnleasedFacts DEF Dissolved, RowType

LEMMA DeletedFacts ==
  LET y == [NoRow EXCEPT !.status = "deleted"]
  IN NoRow \in RowType /\ y \in RowType /\ y.status = "deleted" /\ y.group = None /\ y.created = 0
  <1>1. NoRow \in RowType  BY DEF NoRow, RowType, Statuses
  <1>2. NoRow.group = None /\ NoRow.created = 0  BY DEF NoRow
  <1> QED  BY <1>1, <1>2 DEF RowType, Statuses

LEMMA EnqueuedFacts ==
  ASSUME NEW t \in Nat, NEW d \in Nat
  PROVE  LET y == [NoRow EXCEPT !.status = "PENDING", !.created = t, !.next = t,
                                !.expires = t + d]
         IN /\ y \in RowType /\ y.status = "PENDING" /\ y.group = None /\ y.created = t
            /\ y.expires = t + d
  <1>1. NoRow.group = None /\ t + d \in Nat  BY DEF NoRow
  <1>2. NoRow \in RowType  BY DeletedFacts
  <1> QED  BY <1>1, <1>2 DEF RowType, Statuses

LEMMA LeasedFacts ==
  ASSUME NEW x \in RowType, NEW u \in Nat, NEW k \in Token, NEW g \in Gid \cup {None}
  PROVE  LET y == [x EXCEPT !.status = "LEASED", !.attempts = @ + 1, !.until = u,
                            !.token = k, !.group = g]
         IN /\ y \in RowType /\ y.status = "LEASED" /\ y.until = u /\ y.token = k
            /\ y.group = g /\ y.created = x.created /\ y.expires = x.expires
            /\ y.next = x.next
  <1> DEFINE y == [x EXCEPT !.status = "LEASED", !.attempts = @ + 1, !.until = u,
                            !.token = k, !.group = g]
  <1>1. x.attempts + 1 \in Nat  BY DEF RowType
  <1>2. y \in RowType  BY <1>1 DEF RowType, Statuses
  <1>3. /\ y.status = "LEASED" /\ y.until = u /\ y.token = k
        /\ y.group = g /\ y.created = x.created /\ y.expires = x.expires
        /\ y.next = x.next
    BY DEF RowType, Statuses
  <1> QED  BY <1>2, <1>3

LEMMA SentFacts ==
  ASSUME NEW x \in RowType, NEW at \in Nat
  PROVE  LET y == [Settle(x, "SENT") EXCEPT !.sentAt = at, !.error = FALSE]
         IN /\ y \in RowType /\ y.status = "SENT" /\ y.group = x.group
            /\ y.created = x.created /\ y.expires = x.expires
  <1> DEFINE z == Settle(x, "SENT")
  <1>1. z \in RowType /\ z.status = "SENT" /\ z.group = x.group
        /\ z.created = x.created /\ z.expires = x.expires
    BY SettleFacts DEF Terminal
  <1> HIDE DEF z
  <1>2. [z EXCEPT !.sentAt = at, !.error = FALSE] \in RowType  BY <1>1 DEF RowType
  <1>3. LET y == [z EXCEPT !.sentAt = at, !.error = FALSE]
        IN /\ y.status = z.status /\ y.group = z.group
           /\ y.created = z.created /\ y.expires = z.expires
    BY <1>1 DEF RowType
  <1> QED  BY <1>1, <1>2, <1>3 DEF z

-----------------------------------------------------------------------------
(***************************************************************************)
(* Type correctness.                                                       *)
(***************************************************************************)
LEMMA Constants ==
  /\ IsFiniteSet(Row) /\ IsFiniteSet(Gid) /\ IsFiniteSet(Token)
  /\ Owner \in [Row -> Player] /\ Kind \in [Row -> Kinds] /\ Ttl \in [Row -> Nat]
  /\ Row \subseteq Nat /\ None \notin Gid /\ None \notin Token
  /\ Lease \in Nat /\ Backoff \in Nat /\ Backoff > 0 /\ MaxTime \in Nat /\ PurgeAfter \in Nat
  /\ MaxFaults \in Nat /\ MaxSkips \in Nat /\ MaxCrashes \in Nat /\ MaxSignals \in Nat
  /\ MaxTroubles \in Nat
  /\ \A r \in Row : 2 * Ttl[r] <= PurgeAfter
  BY OutboxAssumption

LEMMA SpendType ==
  ASSUME budget \in [Bounds -> Nat], NEW f \in Bounds, Spend(f)
  PROVE  budget' \in [Bounds -> Nat]
  BY DEF Spend, Bounds

LEMMA OutboxTypeInit == Init => TypeOK
  <1> SUFFICES ASSUME Init PROVE TypeOK  OBVIOUS
  <1>1. row \in [Row -> RowType]  BY DeletedFacts DEF Init
  <1>2. budget \in [Bounds -> Nat]  BY Constants DEF Init, Bounds
  <1> QED  BY <1>1, <1>2, Constants DEF Init, TypeOK

(* Stages of a send.                                                       *)
LEMMA TaskFacts ==
  ASSUME NEW k \in TaskType, NEW t \in Nat
  PROVE  /\ [k EXCEPT !.stage = "checked", !.at = t] \in TaskType
         /\ [k EXCEPT !.stage = "checked", !.at = t].group = k.group
         /\ [k EXCEPT !.stage = "sending"] \in TaskType
         /\ [k EXCEPT !.stage = "sending"].group = k.group
         /\ k.group \in Group /\ k.group.gid \in Gid /\ k.group.token \in Token
         /\ k.group.rows \in SUBSET Row /\ k.at \in Nat
  BY DEF TaskType, Group

(* The table the claim makes: what has expired or is exhausted is settled, *)
(* the rest is as it was.                                                  *)
LEMMA SweptFacts ==
  ASSUME row \in [Row -> RowType]
  PROVE  /\ Swept \in [Row -> RowType]
         /\ \A r \in Row :
              /\ Swept[r].group = row[r].group /\ Swept[r].created = row[r].created
              /\ Swept[r].expires = row[r].expires
              /\ Unsettled(Swept[r]) => Swept[r] = row[r]
              /\ ~Stored(Swept[r]) \/ ~Stored(row[r]) => Swept[r] = row[r]
              /\ \/ Swept[r] = row[r]
                 \/ Unsettled(row[r]) /\ Swept[r].status \in {"EXPIRED", "FAILED"}
  <1> DEFINE expired(x)   == IF Unsent(x) /\ x.expires <= now THEN Settle(x, "EXPIRED") ELSE x
             exhausted(x) == IF x.status = "PENDING" /\ x.attempts >= MaxAttempts
                             THEN Settle(x, "FAILED") ELSE x
  <1>1. ASSUME NEW r \in Row
        PROVE  LET y == exhausted(expired(row[r]))
               IN /\ y \in RowType
                  /\ y.group = row[r].group /\ y.created = row[r].created
                  /\ y.expires = row[r].expires
                  /\ Unsettled(y) => y = row[r]
                  /\ ~Stored(y) \/ ~Stored(row[r]) => y = row[r]
                  /\ \/ y = row[r]
                     \/ Unsettled(row[r]) /\ y.status \in {"EXPIRED", "FAILED"}
    <2>1. row[r] \in RowType  OBVIOUS
    <2>2. \A s \in {"EXPIRED", "FAILED"} :
            LET y == Settle(row[r], s)
            IN /\ y \in RowType /\ y.status = s /\ y.group = row[r].group
               /\ y.created = row[r].created /\ y.expires = row[r].expires
      BY <2>1, SettleFacts DEF Terminal
    <2>3. CASE Unsent(row[r]) /\ row[r].expires <= now
      BY <2>2, <2>3 DEF Unsettled, Stored, Unsent, LeaseLost
    <2>4. CASE ~(Unsent(row[r]) /\ row[r].expires <= now)
      BY <2>1, <2>2, <2>4 DEF Unsettled, Stored
    <2> QED  BY <2>3, <2>4
  <1>2. Swept = [r \in Row |-> exhausted(expired(row[r]))]  BY DEF Swept
  <1> HIDE DEF expired, exhausted
  <1> QED  BY <1>1, <1>2

-----------------------------------------------------------------------------
(***************************************************************************)
(* The inductive invariant.                                                *)
(***************************************************************************)
Alive(r)   == Unsettled(row[r]) /\ row[r].expires > now
Mate(r, s) == row[r].group # None /\ row[r].group = row[s].group
Members(g) == {r \in Row : row[r].group = g}

(* A message is somewhere on its way: claimed, at VK or in the chat.       *)
Said(g, R) == \/ \E w \in Worker : \E k \in task[w] : k.group.gid = g /\ k.group.rows = R
              \/ \E q \in wire : q.gid = g /\ q.rows = R
              \/ \E a \in accepted : a.gid = g /\ a.rows = R

(* When a row was made and until when it is worth sending.                 *)
Times ==
  \A r \in Row :
    /\ row[r].created <= now
    /\ Stored(row[r]) => row[r].expires = row[r].created + Ttl[r]
    /\ ~Stored(row[r]) => row[r].group = None

(* Rows of one group are of one player and were alive together.            *)
Kin ==
  \A r, s \in Row :
    Mate(r, s) => Owner[r] = Owner[s] /\ row[r].created < row[s].expires

(* The rows of a group that are not settled wait and are leased together.  *)
Lockstep ==
  \A r, s \in Row :
    Mate(r, s) /\ Unsettled(row[r]) /\ Unsettled(row[s]) =>
      /\ row[r].status = row[s].status /\ row[r].token = row[s].token
      /\ row[r].until = row[s].until
      /\ row[r].next = row[s].next \/ (row[r].next <= now /\ row[s].next <= now)

OneContent ==
  \A g \in Gid : \A R, S \in SUBSET Row : Said(g, R) /\ Said(g, S) => R = S

(* A group all of whose rows can still be sent is the group that was said. *)
WholeGroup ==
  \A g \in Gid : \A R \in SUBSET Row :
    Said(g, R) /\ Members(g) # {} /\ (\A r \in Members(g) : Alive(r))
      => Members(g) = R

(* What VK has accepted is in the chat, and only stored rows are sent.     *)
Delivered ==
  /\ \A a \in accepted : \A r \in a.rows : copies[r] > 0
  /\ \A g \in Gid : \A R \in SUBSET Row :
       Said(g, R) => \A r \in R : row[r].status # "absent"

OutboxInv ==
  /\ TypeOK /\ Times /\ Kin /\ Lockstep /\ OneContent /\ WholeGroup /\ LeaseHasOneHolder
  /\ Delivered

-----------------------------------------------------------------------------
(***************************************************************************)
(* How the status of a row changes; and a quiet step, which leases nothing *)
(* and says nothing new: what is leased after                              *)
(* it was leased before, nobody joins a group, and a group that loses a    *)
(* row has nobody left or somebody who will never be sent; a row that goes *)
(* on without its group was not alone in it.                               *)
(***************************************************************************)
Moved(r) ==
  \/ row'[r].status = row[r].status
  \/ Unsettled(row[r]) /\ Unsettled(row'[r])
  \/ row[r].status = "absent" /\ row'[r].status = "PENDING"
  \/ /\ Unsettled(row[r]) /\ row'[r].status \in Terminal
     /\ row'[r].status = "SENT" => copies[r] > 0
  \/ row'[r].status = "deleted"

QuietRow(r) ==
  /\ Moved(r)
  /\ row'[r].status = "LEASED" => row'[r] = row[r]
  /\ row'[r].group \in {row[r].group, None}
  /\ row'[r].group # None =>
       /\ row'[r].created = row[r].created /\ row'[r].expires = row[r].expires
       /\ Unsettled(row'[r]) => Unsettled(row[r])
  /\ row'[r].created <= now'
  /\ IF Stored(row'[r]) THEN row'[r].expires = row'[r].created + Ttl[r]
     ELSE row'[r].group = None

Returned(r) == row'[r].status = "PENDING" /\ row'[r].until = 0 /\ row'[r].token = None

QuietMates(r, s) ==
  \/ row'[r] = row[r] /\ row'[s] = row[s]
  \/ /\ Returned(r) /\ Returned(s)
     /\ \/ row'[r].next = row[r].next /\ row'[s].next = row[s].next
        \/ row'[r].next = row'[s].next

Left(r) ==
  /\ \/ \A s \in Row : row'[s].group # row[r].group
     \/ \E s \in Row : /\ row'[s].group = row[r].group
                       /\ ~(Unsettled(row'[s]) /\ row'[s].expires > now')
  /\ Unsettled(row'[r]) => \E s \in Row \ {r} : Mate(r, s)

QuietRows ==
  /\ \A r \in Row : QuietRow(r)
  /\ \A r, s \in Row :
       Mate(r, s) /\ row'[r].group # None /\ row'[s].group # None
         /\ Unsettled(row'[r]) /\ Unsettled(row'[s]) => QuietMates(r, s)
  /\ \A r \in Row : row[r].group # None /\ row'[r].group = None => Left(r)

QuietSender ==
  /\ \A w \in Worker : \A k \in task'[w] : \E j \in task[w] : j.group = k.group
  /\ \A w \in Worker : \A j, k \in task'[w] : j.group = k.group => j = k
  /\ \A g \in wire' : g \in wire \/ \E w \in Worker : \E k \in task[w] : k.group = g
  /\ \A a \in accepted' : \/ a \in accepted
                         \/ /\ \E g \in wire : a.gid = g.gid /\ a.rows = g.rows
                            /\ \A r \in a.rows : copies'[r] > 0
  /\ \A r \in Row : copies[r] > 0 => copies'[r] > 0

Quiet == now <= now' /\ QuietRows /\ QuietSender

LEMMA QuietSaid ==
  ASSUME QuietSender, NEW g, NEW R, Said(g, R)'
  PROVE  Said(g, R)
  <1>1. CASE \E w \in Worker : \E k \in task'[w] : k.group.gid = g /\ k.group.rows = R
    <2>0. PICK w \in Worker : \E k \in task'[w] : k.group.gid = g /\ k.group.rows = R
      BY <1>1
    <2>1. PICK k \in task'[w] : k.group.gid = g /\ k.group.rows = R
      BY <2>0
    <2>2. PICK j \in task[w] : j.group = k.group  BY DEF QuietSender
    <2> QED  BY <2>1, <2>2 DEF Said
  <1>2. CASE \E q \in wire' : q.gid = g /\ q.rows = R
    BY <1>2 DEF QuietSender, Said
  <1>3. CASE \E a \in accepted' : a.gid = g /\ a.rows = R
    <2>1. PICK a \in accepted' : a.gid = g /\ a.rows = R  BY <1>3
    <2>2. a \in accepted \/ \E q \in wire : a.gid = q.gid /\ a.rows = q.rows
      BY DEF QuietSender
    <2> QED  BY <2>1, <2>2 DEF Said
  <1> QED  BY <1>1, <1>2, <1>3 DEF Said

(* The invariant survives a quiet step.                                    *)
LEMMA QuietStep ==
  ASSUME OutboxInv, TypeOK', Quiet
  PROVE  OutboxInv'
  <1> USE DEF Quiet
  <1>0. /\ now \in Nat /\ now' \in Nat /\ now <= now'
        /\ row \in [Row -> RowType] /\ row' \in [Row -> RowType]
        /\ \A r \in Row : QuietRow(r)
    BY DEF OutboxInv, TypeOK, QuietRows
  <1>1. Times'
    BY <1>0 DEF QuietRow, OutboxInv, Times
  <1>2. \A r, s \in Row : Mate(r, s)' => Mate(r, s) /\ row'[r].group # None /\ row'[s].group # None
    BY <1>0 DEF QuietRow, Mate
  <1>3. Kin'
    BY <1>0, <1>2 DEF QuietRow, OutboxInv, Kin
  <1>4. Lockstep'
    <2> SUFFICES ASSUME NEW r \in Row, NEW s \in Row, Mate(r, s)',
                        Unsettled(row'[r]), Unsettled(row'[s])
                 PROVE  /\ row'[r].status = row'[s].status /\ row'[r].token = row'[s].token
                        /\ row'[r].until = row'[s].until
                        /\ \/ row'[r].next = row'[s].next
                           \/ row'[r].next <= now' /\ row'[s].next <= now'
      BY DEF Lockstep
    <2>1. Mate(r, s) /\ row'[r].group # None /\ row'[s].group # None  BY <1>2
    <2>2. Unsettled(row[r]) /\ Unsettled(row[s])  BY <1>0, <2>1 DEF QuietRow
    <2>3. /\ row[r].status = row[s].status /\ row[r].token = row[s].token
          /\ row[r].until = row[s].until
          /\ row[r].next = row[s].next \/ (row[r].next <= now /\ row[s].next <= now)
      BY <2>1, <2>2 DEF OutboxInv, Lockstep
    <2>4. QuietMates(r, s)  BY <2>1 DEF QuietRows
    <2>5. row[r].next \in Nat /\ row[s].next \in Nat  BY <1>0 DEF RowType
    <2> QED  BY <1>0, <2>3, <2>4, <2>5 DEF QuietMates, Returned
  <1>5. OneContent'
    BY QuietSaid DEF OutboxInv, OneContent
  <1>6. WholeGroup'
    <2> SUFFICES ASSUME NEW g \in Gid, NEW R \in SUBSET Row, Said(g, R)', Members(g)' # {},
                        \A r \in Members(g)' : Alive(r)'
                 PROVE  Members(g)' = R
      BY DEF WholeGroup
    <2>1. Said(g, R)  BY QuietSaid
    <2>2. g # None  BY Constants
    <2>3. Members(g)' \subseteq Members(g)  BY <1>0, <2>2 DEF Members, QuietRow
    <2>4. Members(g) \subseteq Members(g)'
      <3> SUFFICES ASSUME NEW r \in Row, row[r].group = g, row'[r].group # g PROVE FALSE
        BY DEF Members
      <3>1. row'[r].group = None  BY <1>0 DEF QuietRow
      <3>2. Left(r)  BY <2>2, <3>1 DEF QuietRows
      <3> QED  BY <3>2 DEF Left, Members, Alive
    <2>5. \A r \in Members(g) : Alive(r)
      <3> SUFFICES ASSUME NEW r \in Row, row[r].group = g PROVE Alive(r)
        BY DEF Members
      <3>1. row'[r].group = g /\ Unsettled(row'[r]) /\ row'[r].expires > now'
        BY <2>4 DEF Members, Alive
      <3>2. Unsettled(row[r]) /\ row'[r].expires = row[r].expires
        BY <1>0, <2>2, <3>1 DEF QuietRow
      <3>3. row[r].expires \in Nat  BY <1>0 DEF RowType
      <3> QED  BY <1>0, <3>1, <3>2, <3>3 DEF Alive
    <2> QED  BY <2>1, <2>3, <2>4, <2>5 DEF OutboxInv, WholeGroup
  <1>7. LeaseHasOneHolder'
    <2>1. ASSUME NEW v \in Worker, NEW w \in Worker, NEW j \in task'[v], NEW k \in task'[w],
                 j.group.token = k.group.token
          PROVE  v = w /\ j = k
      <3>1. PICK i \in task[v] : i.group = j.group  BY DEF QuietSender
      <3>2. PICK l \in task[w] : l.group = k.group  BY DEF QuietSender
      <3>3. v = w /\ i = l  BY <2>1, <3>1, <3>2 DEF OutboxInv, LeaseHasOneHolder
      <3> QED  BY <3>1, <3>2, <3>3 DEF QuietSender
    <2>2. ASSUME NEW w \in Worker, NEW k \in task'[w], NEW r \in Row,
                 row'[r].status = "LEASED", row'[r].token = k.group.token,
                 row'[r].group = k.group.gid
          PROVE  r \in k.group.rows
      <3>1. PICK j \in task[w] : j.group = k.group  BY DEF QuietSender
      <3>2. row'[r] = row[r]  BY <1>0, <2>2 DEF QuietRow
      <3>3. r \in Held(j.group)  BY <2>2, <3>1, <3>2 DEF Held
      <3> QED  BY <3>1, <3>3 DEF OutboxInv, LeaseHasOneHolder
    <2> QED  BY <2>1, <2>2 DEF LeaseHasOneHolder, Held
  <1>8. Delivered'
    <2>1. \A a \in accepted' : \A r \in a.rows : copies'[r] > 0
      <3> SUFFICES ASSUME NEW a \in accepted', NEW r \in a.rows PROVE copies'[r] > 0
        OBVIOUS
      <3>1. r \in Row  BY DEF TypeOK
      <3> QED  BY <3>1 DEF QuietSender, OutboxInv, Delivered
    <2>2. \A r \in Row : row'[r].status = "absent" => row[r].status = "absent"
      BY <1>0 DEF QuietRow, Moved, Unsettled, Terminal
    <2> QED  BY <2>1, <2>2, QuietSaid DEF OutboxInv, Delivered
  <1> QED  BY <1>1, <1>3, <1>4, <1>5, <1>6, <1>7, <1>8 DEF OutboxInv

-----------------------------------------------------------------------------
(***************************************************************************)
(* The four ways a quiet step writes rows, and the two ways it moves tasks.*)
(***************************************************************************)
LEMMA RowsOf ==
  ASSUME OutboxInv
  PROVE  /\ now \in Nat /\ row \in [Row -> RowType]
         /\ \A r \in Row :
              /\ row[r].created \in Nat /\ row[r].expires \in Nat /\ row[r].next \in Nat
              /\ row[r].group \in Gid \cup {None} /\ row[r].created <= now
              /\ IF Stored(row[r]) THEN row[r].expires = row[r].created + Ttl[r]
                 ELSE row[r].group = None
  BY DEF OutboxInv, TypeOK, Times, RowType

LEMMA RowsStay ==
  ASSUME OutboxInv, row' = row, now' \in Nat, now <= now'
  PROVE  QuietRows
  <1>1. \A r \in Row : QuietRow(r)  BY RowsOf DEF QuietRow, Moved
  <1> QED  BY <1>1 DEF QuietRows, QuietMates

(* Rows that are settled keep their group, the others are as they were.    *)
LEMMA RowsSettle ==
  ASSUME OutboxInv, now' = now,
         \A r \in Row : \/ row'[r] = row[r]
                        \/ /\ Unsettled(row[r])
                           /\ row'[r].status = "SENT" => copies[r] > 0
                           /\ row'[r].status \in Terminal /\ row'[r].group = row[r].group
                           /\ row'[r].created = row[r].created
                           /\ row'[r].expires = row[r].expires
  PROVE  QuietRows
  <1>1. \A r \in Row : QuietRow(r)  BY RowsOf DEF QuietRow, Moved, Terminal, Unsettled, Stored
  <1>2. \A r \in Row : Unsettled(row'[r]) => row'[r] = row[r]  BY DEF Terminal, Unsettled
  <1>3. \A r \in Row : row'[r].group = row[r].group  OBVIOUS
  <1> QED  BY <1>1, <1>2, <1>3 DEF QuietRows, QuietMates

(* Leased rows are returned together with those of their group, at once or *)
(* all for the same moment.                                                *)
LEMMA RowsReturn ==
  ASSUME OutboxInv, now' = now, NEW X \in SUBSET Row, NEW n,
         \A r \in Row \ X : row'[r] = row[r],
         \A r \in X : /\ row[r].status = "LEASED" /\ Returned(r)
                      /\ row'[r].group = row[r].group /\ row'[r].created = row[r].created
                      /\ row'[r].expires = row[r].expires,
         \/ \A r \in X : row'[r].next = row[r].next
         \/ \A r \in X : row'[r].next = n,
         \A r \in X, s \in Row : Mate(r, s) /\ Unsettled(row[s]) => s \in X
  PROVE  QuietRows
  <1>1. \A r \in Row : QuietRow(r)
    <2> SUFFICES ASSUME NEW r \in Row PROVE QuietRow(r)  OBVIOUS
    <2>1. CASE r \in X  BY <2>1, RowsOf DEF QuietRow, Moved, Returned, Unsettled, Stored
    <2>2. CASE r \notin X  BY <2>2, RowsOf DEF QuietRow, Moved
    <2> QED  BY <2>1, <2>2
  <1>2. \A r \in Row : row'[r].group = row[r].group  OBVIOUS
  <1>3. ASSUME NEW r \in Row, NEW s \in Row, Mate(r, s), Unsettled(row'[r]), Unsettled(row'[s])
        PROVE  QuietMates(r, s)
    <2>1. CASE r \in X
      <3>1. s \in X  BY <1>3, <2>1 DEF Unsettled
      <3> QED  BY <2>1, <3>1 DEF QuietMates
    <2>2. CASE r \notin X
      <3>1. s \notin X  BY <1>3, <2>2 DEF Unsettled, Mate
      <3> QED  BY <2>2, <3>1 DEF QuietMates
    <2> QED  BY <2>1, <2>2
  <1> QED  BY <1>1, <1>2, <1>3 DEF QuietRows

(* What is held of a group is all of it that is not settled.               *)
LEMMA HeldTogether ==
  ASSUME OutboxInv, NEW g \in Group, NEW r \in Held(g), NEW s \in Row, Mate(r, s),
         Unsettled(row[s])
  PROVE  s \in Held(g)
  BY DEF OutboxInv, Lockstep, Held, Mate, Unsettled

LEMMA SenderDrops ==
  ASSUME OutboxInv, \A w \in Worker : task'[w] \subseteq task[w], wire' \subseteq wire,
         accepted' = accepted, copies' = copies
  PROVE  QuietSender
  <1>1. \A w \in Worker : \A j, k \in task'[w] : j.group = k.group => j = k
    BY DEF OutboxInv, LeaseHasOneHolder
  <1> QED  BY <1>1 DEF QuietSender

LEMMA SenderMoves ==
  ASSUME OutboxInv, NEW w \in Worker, NEW k \in task[w], NEW j, j.group = k.group,
         task' = [task EXCEPT ![w] = (@ \ {k}) \cup {j}],
         wire' \subseteq wire \cup {k.group}, accepted' = accepted, copies' = copies
  PROVE  QuietSender
  <1>0. task \in [Worker -> SUBSET TaskType]  BY DEF OutboxInv, TypeOK
  <1>1. task'[w] = (task[w] \ {k}) \cup {j} /\ \A v \in Worker \ {w} : task'[v] = task[v]
    BY <1>0
  <1>2. \A v \in Worker : \A a, b \in task[v] : a.group = b.group => a = b
    BY DEF OutboxInv, LeaseHasOneHolder
  <1>3. \A v \in Worker : \A a, b \in task'[v] : a.group = b.group => a = b
    BY <1>1, <1>2
  <1>4. \A v \in Worker : \A a \in task'[v] : \E b \in task[v] : b.group = a.group
    BY <1>1
  <1> QED  BY <1>3, <1>4 DEF QuietSender

-----------------------------------------------------------------------------
(***************************************************************************)
(* Every step but the claim is well typed and quiet.                       *)
(***************************************************************************)
QuietGood == TypeOK' /\ Quiet

LEMMA TickQuiet == ASSUME OutboxInv, Tick PROVE QuietGood
  <1>1. TypeOK'  BY Constants DEF OutboxInv, TypeOK, Tick, queueVars, senderVars, vkVars
  <1>2. now' = now + 1 /\ now \in Nat  BY DEF Tick, OutboxInv, TypeOK
  <1>3. QuietRows  BY <1>2, RowsStay DEF Tick, queueVars
  <1>4. QuietSender  BY SenderDrops DEF Tick, senderVars, vkVars
  <1> QED  BY <1>1, <1>2, <1>3, <1>4 DEF QuietGood, Quiet

LEMMA EnqueueQuiet == ASSUME OutboxInv, NEW r \in Row, Enqueue(r) PROVE QuietGood
  <1> DEFINE y == [NoRow EXCEPT !.status = "PENDING", !.created = now,
                                !.next = now, !.expires = now + Ttl[r]]
  <1>0. row' = [row EXCEPT ![r] = y] /\ row[r].status = "absent" /\ now' = now
    BY DEF Enqueue
  <1>1. Ttl[r] \in Nat /\ now \in Nat  BY Constants, RowsOf
  <1>2. /\ y \in RowType /\ y.status = "PENDING" /\ y.group = None /\ y.created = now
        /\ y.expires = now + Ttl[r]
    BY <1>1, EnqueuedFacts
  <1> HIDE DEF y
  <1>3. TypeOK'  BY <1>0, <1>2 DEF Enqueue, OutboxInv, TypeOK, senderVars, vkVars
  <1>4. row'[r] = y /\ \A s \in Row \ {r} : row'[s] = row[s]  BY <1>0, RowsOf
  <1>5. row[r].group = None  BY <1>0, RowsOf DEF Stored
  <1>6. \A s \in Row : QuietRow(s)  BY <1>0, <1>2, <1>4, <1>5, RowsOf DEF QuietRow, Moved, Stored
  <1>7. QuietRows  BY <1>2, <1>4, <1>5, <1>6 DEF QuietRows, QuietMates, Mate
  <1>8. QuietSender  BY SenderDrops DEF Enqueue, senderVars, vkVars
  <1> QED  BY <1>0, <1>1, <1>3, <1>7, <1>8 DEF QuietGood, Quiet

LEMMA CancelQuiet == ASSUME OutboxInv, NEW r \in Row, Cancel(r) PROVE QuietGood
  <1>0. row' = [row EXCEPT ![r] = Settle(row[r], "DROPPED")] /\ now' = now  BY RowsOf DEF Cancel
  <1>1. row[r] \in RowType  BY RowsOf
  <1>2. budget' \in [Bounds -> Nat]  BY SpendType DEF Cancel, OutboxInv, TypeOK, Bounds
  <1>3. Settle(row[r], "DROPPED") \in RowType  BY <1>1, SettleFacts DEF Terminal
  <1>4. TypeOK'  BY <1>0, <1>2, <1>3 DEF Cancel, OutboxInv, TypeOK, senderVars, vkVars
  <1>5. Unsettled(row[r])  BY DEF Cancel, Unsent, LeaseLost, Unsettled
  <1>8. \A s \in Row : \/ row'[s] = row[s]
                       \/ /\ Unsettled(row[s]) /\ row'[s].status = "DROPPED" /\ row'[s].group = row[s].group
                          /\ row'[s].created = row[s].created
                          /\ row'[s].expires = row[s].expires
    BY <1>0, <1>1, <1>5, SettleFacts, RowsOf DEF Terminal
  <1>6. QuietRows  BY <1>0, <1>8, RowsSettle DEF Terminal
  <1>7. QuietSender  BY SenderDrops DEF Cancel, senderVars, vkVars
  <1> QED  BY <1>0, <1>4, <1>6, <1>7, RowsOf DEF QuietGood, Quiet

LEMMA DenialFacts ==
  ASSUME NEW t \in [Row -> RowType], NEW p
  PROVE  /\ AfterDenial(p, t) \in [Row -> RowType]
         /\ \A r \in Row :
              \/ AfterDenial(p, t)[r] = t[r]
              \/ /\ Unsettled(t[r]) /\ AfterDenial(p, t)[r].status = "DROPPED"
                 /\ AfterDenial(p, t)[r].group = t[r].group
                 /\ AfterDenial(p, t)[r].created = t[r].created
                 /\ AfterDenial(p, t)[r].expires = t[r].expires
  <1>1. \A r \in Row :
          LET y == Settle(t[r], "DROPPED")
          IN /\ y \in RowType /\ y.status = "DROPPED" /\ y.group = t[r].group
             /\ y.created = t[r].created /\ y.expires = t[r].expires
    BY SettleFacts DEF Terminal
  <1> QED  BY <1>1 DEF AfterDenial, Unsettled

LEMMA PlayerQuiet ==
  ASSUME OutboxInv, NEW p \in Player, Allow(p) \/ Deny(p) \/ LoseNation(p)
  PROVE  QuietGood
  <1>0. now' = now /\ now \in Nat  BY RowsOf DEF Allow, Deny, LoseNation
  <1>1. budget' \in [Bounds -> Nat]
    BY SpendType DEF Allow, Deny, LoseNation, OutboxInv, TypeOK, Bounds
  <1>2. QuietSender
    BY SenderDrops DEF Allow, Deny, LoseNation, senderVars, vkVars
  <1>3. CASE Allow(p)
    <2>1. TypeOK'  BY <1>1, <1>3 DEF Allow, OutboxInv, TypeOK, senderVars, vkVars
    <2>2. QuietRows  BY <1>0, <1>3, RowsStay DEF Allow
    <2> QED  BY <1>0, <1>2, <2>1, <2>2 DEF QuietGood, Quiet
  <1>4. CASE LoseNation(p)
    <2>1. TypeOK'  BY <1>1, <1>4 DEF LoseNation, OutboxInv, TypeOK, senderVars, vkVars
    <2>2. QuietRows  BY <1>0, <1>4, RowsStay DEF LoseNation
    <2> QED  BY <1>0, <1>2, <2>1, <2>2 DEF QuietGood, Quiet
  <1>5. CASE Deny(p)
    <2>1. row' = AfterDenial(p, row)  BY <1>5 DEF Deny
    <2>2. row' \in [Row -> RowType]  BY <2>1, DenialFacts, RowsOf
    <2>3. TypeOK'  BY <1>1, <1>5, <2>2 DEF Deny, OutboxInv, TypeOK, senderVars, vkVars
    <2>4. QuietRows  BY <1>0, <2>1, DenialFacts, RowsOf, RowsSettle DEF Terminal
    <2> QED  BY <1>0, <1>2, <2>3, <2>4 DEF QuietGood, Quiet
  <1> QED  BY <1>3, <1>4, <1>5

LEMMA ResetQuiet == ASSUME OutboxInv, Reset PROVE QuietGood
  <1> DEFINE y == [NoRow EXCEPT !.status = "deleted"]
  <1>0. row' = [r \in Row |-> y] /\ now' = now  BY DEF Reset
  <1>1. y \in RowType /\ y.status = "deleted" /\ y.group = None /\ y.created = 0
    BY DeletedFacts
  <1> HIDE DEF y
  <1>2. budget' \in [Bounds -> Nat]  BY SpendType DEF Reset, OutboxInv, TypeOK, Bounds
  <1>3. TypeOK'  BY <1>0, <1>1, <1>2 DEF Reset, OutboxInv, TypeOK, senderVars, vkVars
  <1>4. \A r \in Row : QuietRow(r)  BY <1>0, <1>1, RowsOf DEF QuietRow, Moved, Stored
  <1>5. QuietRows  BY <1>0, <1>1, <1>4 DEF QuietRows, Left, Unsettled
  <1>6. QuietSender  BY SenderDrops DEF Reset, senderVars, vkVars
  <1> QED  BY <1>0, <1>3, <1>5, <1>6, RowsOf DEF QuietGood, Quiet

LEMMA TaskKnown ==
  ASSUME OutboxInv, NEW w \in Worker, NEW k \in task[w]
  PROVE  /\ k \in TaskType /\ k.group \in Group /\ k.at \in Nat
         /\ task \in [Worker -> SUBSET TaskType]
  BY TaskFacts, RowsOf DEF OutboxInv, TypeOK

LEMMA SkipQuiet ==
  ASSUME OutboxInv, NEW w \in Worker, NEW k \in task[w], Skip(w, k) PROVE QuietGood
  <1>0. now' = now /\ row' = row /\ now \in Nat  BY RowsOf DEF Skip, queueVars
  <1>1. budget' \in [Bounds -> Nat]  BY SpendType DEF Skip, OutboxInv, TypeOK, Bounds
  <1>2. task' = [task EXCEPT ![w] = @ \ {k}]  BY DEF Skip
  <1>3. TypeOK'  BY <1>1, <1>2, TaskKnown DEF Skip, OutboxInv, TypeOK, queueVars, vkVars
  <1>4. QuietRows  BY <1>0, RowsStay
  <1>5. QuietSender  BY <1>2, TaskKnown, SenderDrops DEF Skip, vkVars
  <1> QED  BY <1>0, <1>3, <1>4, <1>5 DEF QuietGood, Quiet

LEMMA SendQuiet ==
  ASSUME OutboxInv, NEW w \in Worker, NEW k \in task[w], Send(w, k) PROVE QuietGood
  <1> DEFINE j == [k EXCEPT !.stage = "sending"]
  <1>0. now' = now /\ row' = row /\ now \in Nat  BY RowsOf DEF Send, queueVars
  <1>1. j \in TaskType /\ j.group = k.group  BY <1>0, TaskKnown, TaskFacts
  <1>2. task' = [task EXCEPT ![w] = (@ \ {k}) \cup {j}] /\ wire' = wire \cup {k.group}
    BY DEF Send
  <1> HIDE DEF j
  <1>3. TypeOK'  BY <1>1, <1>2, TaskKnown DEF Send, OutboxInv, TypeOK, queueVars
  <1>4. QuietRows  BY <1>0, RowsStay
  <1>5. QuietSender  BY <1>1, <1>2, SenderMoves DEF Send
  <1> QED  BY <1>0, <1>3, <1>4, <1>5 DEF QuietGood, Quiet

(* A lost lease or an expired row: the expired ones stay in the group, so  *)
(* that the rest of it may leave.                                          *)
LEMMA RecheckQuiet ==
  ASSUME OutboxInv, NEW w \in Worker, NEW k \in task[w], Recheck(w, k) PROVE QuietGood
  <1> DEFINE held    == Held(k.group)
             expired == {r \in held : row[r].expires <= now}
             j       == [k EXCEPT !.stage = "checked", !.at = now]
  <1>0. now' = now /\ now \in Nat  BY RowsOf DEF Recheck
  <1>1. CASE /\ task' = [task EXCEPT ![w] = (@ \ {k}) \cup {j}]
             /\ UNCHANGED row
    <2>1. j \in TaskType /\ j.group = k.group  BY <1>0, TaskKnown, TaskFacts
    <2> HIDE DEF j
    <2>2. TypeOK'  BY <1>1, <2>1, TaskKnown DEF Recheck, OutboxInv, TypeOK, vkVars
    <2>3. QuietRows  BY <1>0, <1>1, RowsStay
    <2>4. QuietSender  BY <1>1, <2>1, SenderMoves DEF Recheck, vkVars
    <2> QED  BY <1>0, <2>2, <2>3, <2>4 DEF QuietGood, Quiet
  <1>2. CASE /\ held = {} \/ expired # {}
             /\ task' = [task EXCEPT ![w] = @ \ {k}]
             /\ row' = [r \in Row |-> IF r \in expired THEN Settle(row[r], "EXPIRED")
                                      ELSE IF r \in held THEN Dissolved(row[r])
                                      ELSE row[r]]
    <2>1. \A r \in held : r \in Row /\ row[r].status = "LEASED" /\ row[r].group = k.group.gid
      BY DEF Held
    <2>2. k.group.gid # None  BY TaskKnown, Constants DEF Group
    <2>3. expired \subseteq held /\ \A r \in expired : row[r].expires <= now  OBVIOUS
    <2> HIDE DEF held, expired
    <2>4. \A r \in expired : /\ row'[r] \in RowType /\ row'[r].status = "EXPIRED"
                             /\ row'[r].group = row[r].group
                             /\ row'[r].created = row[r].created
                             /\ row'[r].expires = row[r].expires
      BY <1>2, <2>1, <2>3, SettleFacts, RowsOf DEF Terminal
    <2>5. \A r \in held \ expired : /\ row'[r] \in RowType /\ row'[r].status = "PENDING"
                                    /\ row'[r].group = None
                                    /\ row'[r].created = row[r].created
                                    /\ row'[r].expires = row[r].expires
      BY <1>2, <2>1, DissolvedFacts, RowsOf
    <2>6. \A r \in Row \ held : row'[r] = row[r]  BY <1>2, <2>3
    <2>7. TypeOK'
      <3>1. row' \in [Row -> RowType]
        BY <1>2, <2>1, <2>4, <2>5, <2>6, RowsOf
      <3> QED  BY <3>1, <1>2, TaskKnown DEF Recheck, OutboxInv, TypeOK, vkVars
    <2>8. \A r \in Row : QuietRow(r)
      <3> SUFFICES ASSUME NEW r \in Row PROVE QuietRow(r)  OBVIOUS
      <3>1. CASE r \in expired  BY <1>0, <2>1, <2>3, <2>4, <3>1, RowsOf DEF QuietRow, Moved, Unsettled, Stored, Terminal
      <3>2. CASE r \in held \ expired  BY <1>0, <2>1, <2>5, <3>2, RowsOf DEF QuietRow, Moved, Unsettled, Stored
      <3>3. CASE r \in Row \ held  BY <1>0, <2>6, <3>3, RowsOf DEF QuietRow, Moved
      <3> QED  BY <3>1, <3>2, <3>3, <2>3
    <2>9. \A r \in Row : row'[r].group # None /\ Unsettled(row'[r]) => row'[r] = row[r]
      BY <2>4, <2>5, <2>6 DEF Unsettled
    <2>10. ASSUME NEW r \in Row, row[r].group # None, row'[r].group = None PROVE Left(r)
      <3>1. r \in held \ expired  BY <2>4, <2>6, <2>10
      <3>2. PICK e \in expired : TRUE  BY <1>2, <3>1
      <3>3. row'[e].group = row[r].group /\ ~Unsettled(row'[e])
        BY <2>1, <2>3, <2>4, <3>1, <3>2 DEF Unsettled
      <3>4. e # r /\ Mate(r, e)  BY <2>1, <2>2, <2>3, <3>1, <3>2 DEF Mate
      <3> QED  BY <3>3, <3>4, <2>1, <2>3, <3>2 DEF Left
    <2>11. QuietRows  BY <2>8, <2>9, <2>10 DEF QuietRows, QuietMates
    <2>12. QuietSender  BY <1>2, TaskKnown, SenderDrops DEF Recheck, vkVars
    <2> QED  BY <1>0, <2>7, <2>11, <2>12 DEF QuietGood, Quiet
  <1> QED  BY <1>1, <1>2 DEF Recheck

LEMMA HeldRows ==
  ASSUME OutboxInv, NEW w \in Worker, NEW k \in task[w]
  PROVE  /\ Held(k.group) \in SUBSET Row
         /\ \A r \in Held(k.group) : row[r] \in RowType /\ row[r].status = "LEASED"
         /\ \A r \in Held(k.group), s \in Row :
              Mate(r, s) /\ Unsettled(row[s]) => s \in Held(k.group)
  BY RowsOf, TaskKnown, HeldTogether DEF Held

LEMMA RecordSentQuiet ==
  ASSUME OutboxInv, NEW w \in Worker, NEW k \in task[w], RecordSent(w, k) PROVE QuietGood
  <1> DEFINE sent(x) == [Settle(x, "SENT") EXCEPT !.sentAt = k.at, !.error = FALSE]
  <1>0. /\ now' = now /\ now \in Nat
        /\ row' = [r \in Row |-> IF r \in Held(k.group) THEN sent(row[r]) ELSE row[r]]
        /\ task' = [task EXCEPT ![w] = @ \ {k}]
    BY RowsOf DEF RecordSent, Write, Rewrite, Done
  <1>1. \A r \in Row :
          /\ sent(row[r]) \in RowType /\ sent(row[r]).status = "SENT"
          /\ sent(row[r]).group = row[r].group /\ sent(row[r]).created = row[r].created
          /\ sent(row[r]).expires = row[r].expires
    BY SentFacts, TaskKnown, RowsOf
  <1> HIDE DEF sent
  <1>2. row' \in [Row -> RowType]  BY <1>0, <1>1, RowsOf
  <1>3. TypeOK'  BY <1>0, <1>2, TaskKnown DEF RecordSent, OutboxInv, TypeOK, vkVars
  <1>4. \A r \in Held(k.group) : copies[r] > 0
    <2>1. PICK a \in accepted : a.gid = k.group.gid  BY DEF RecordSent
    <2>2. k.group.gid \in Gid /\ k.group.rows \in SUBSET Row  BY TaskKnown DEF Group
    <2>3. a.rows \in SUBSET Row  BY DEF OutboxInv, TypeOK
    <2>4. Said(k.group.gid, a.rows) /\ Said(k.group.gid, k.group.rows)
      BY <2>1, <2>2, <2>3 DEF Said
    <2>5. a.rows = k.group.rows  BY <2>2, <2>3, <2>4 DEF OutboxInv, OneContent
    <2>6. Held(k.group) \subseteq k.group.rows  BY DEF OutboxInv, LeaseHasOneHolder
    <2> QED  BY <2>5, <2>6 DEF OutboxInv, Delivered
  <1>6. QuietRows  BY <1>0, <1>1, <1>4, HeldRows, RowsSettle DEF Terminal, Unsettled
  <1>5. QuietSender  BY <1>0, TaskKnown, SenderDrops DEF RecordSent, vkVars
  <1> QED  BY <1>0, <1>3, <1>5, <1>6 DEF QuietGood, Quiet

LEMMA RecordRetryQuiet ==
  ASSUME OutboxInv, NEW w \in Worker, NEW k \in task[w], RecordRetry(w, k) PROVE QuietGood
  <1> DEFINE y(r) == Retried(row[r], k.at)
  <1>0. /\ now' = now /\ now \in Nat
        /\ row' = [r \in Row |-> IF r \in Held(k.group) THEN y(r) ELSE row[r]]
        /\ task' = [task EXCEPT ![w] = @ \ {k}]
    BY RowsOf DEF RecordRetry, Write, Rewrite, Done
  <1>1. \A r \in Row :
          /\ y(r) \in RowType /\ y(r).status = "PENDING" /\ y(r).group = row[r].group
          /\ y(r).created = row[r].created /\ y(r).expires = row[r].expires
          /\ y(r).next = k.at + Backoff /\ y(r).until = 0 /\ y(r).token = None
    BY RetriedFacts, TaskKnown, RowsOf
  <1> HIDE DEF y
  <1>2. row' \in [Row -> RowType]  BY <1>0, <1>1, RowsOf
  <1>3. budget' \in [Bounds -> Nat]  BY SpendType DEF RecordRetry, OutboxInv, TypeOK, Bounds
  <1>4. TypeOK'  BY <1>0, <1>2, <1>3, TaskKnown DEF RecordRetry, OutboxInv, TypeOK, vkVars
  <1>5. QuietRows
    <2> DEFINE X == Held(k.group)  n == k.at + Backoff
    <2>1. /\ X \in SUBSET Row /\ \A r \in X : row[r].status = "LEASED"
          /\ \A r \in X, s \in Row : Mate(r, s) /\ Unsettled(row[s]) => s \in X
      BY HeldRows
    <2> HIDE DEF X
    <2>2. \A r \in Row \ X : row'[r] = row[r]  BY <1>0 DEF X
    <2>3. \A r \in X : /\ Returned(r) /\ row'[r].next = n
                      /\ row'[r].group = row[r].group /\ row'[r].created = row[r].created
                      /\ row'[r].expires = row[r].expires
      BY <1>0, <1>1, <2>1 DEF X, Returned
    <2> HIDE DEF n
    <2>4. \/ \A r \in X : row'[r].next = row[r].next
          \/ \A r \in X : row'[r].next = n
      BY <2>3
    <2>5. \A r \in X : /\ row[r].status = "LEASED" /\ Returned(r)
                      /\ row'[r].group = row[r].group /\ row'[r].created = row[r].created
                      /\ row'[r].expires = row[r].expires
      BY <2>1, <2>3
    <2> QED  BY ONLY OutboxInv, <1>0, <2>1, <2>2, <2>4, <2>5, RowsReturn
  <1>6. QuietSender  BY <1>0, TaskKnown, SenderDrops DEF RecordRetry, vkVars
  <1> QED  BY <1>0, <1>4, <1>5, <1>6 DEF QuietGood, Quiet

LEMMA RecordAuthQuiet ==
  ASSUME OutboxInv, NEW w \in Worker, NEW k \in task[w], RecordAuth(w, k) PROVE QuietGood
  <1> DEFINE y(r) == Refused(row[r])
  <1>0. /\ now' = now /\ now \in Nat
        /\ row' = [r \in Row |-> IF r \in Held(k.group) THEN y(r) ELSE row[r]]
        /\ task' = [task EXCEPT ![w] = @ \ {k}]
    BY RowsOf DEF RecordAuth, Write, Rewrite, Done
  <1>1. \A r \in Row :
          /\ y(r) \in RowType /\ y(r).status = "PENDING" /\ y(r).group = row[r].group
          /\ y(r).created = row[r].created /\ y(r).expires = row[r].expires
          /\ y(r).next = row[r].next /\ y(r).until = 0 /\ y(r).token = None
    BY RefusedFacts, RowsOf
  <1> HIDE DEF y
  <1>2. row' \in [Row -> RowType]  BY <1>0, <1>1, RowsOf
  <1>3. budget' \in [Bounds -> Nat]  BY SpendType DEF RecordAuth, OutboxInv, TypeOK, Bounds
  <1>4. TypeOK'  BY <1>0, <1>2, <1>3, TaskKnown DEF RecordAuth, OutboxInv, TypeOK
  <1>5. QuietRows  BY <1>0, <1>1, HeldRows, RowsReturn DEF Returned
  <1>6. QuietSender  BY <1>0, TaskKnown, SenderDrops DEF RecordAuth
  <1> QED  BY <1>0, <1>4, <1>5, <1>6 DEF QuietGood, Quiet

LEMMA RecordConsentLostQuiet ==
  ASSUME OutboxInv, NEW w \in Worker, NEW k \in task[w], RecordConsentLost(w, k)
  PROVE  QuietGood
  <1> DEFINE H == Held(k.group)
             p == Owner[CHOOSE r \in k.group.rows : TRUE]
             dropped == [r \in Row |-> IF r \in H THEN Settle(row[r], "DROPPED") ELSE row[r]]
  <1>0. /\ now' = now /\ now \in Nat /\ wire' = wire \ {k.group}
        /\ task' = [task EXCEPT ![w] = @ \ {k}]
    BY RowsOf DEF RecordConsentLost, Done
  <1>1. budget' \in [Bounds -> Nat]
    BY SpendType DEF RecordConsentLost, OutboxInv, TypeOK, Bounds
  <1>2. QuietSender  BY <1>0, TaskKnown, SenderDrops DEF RecordConsentLost
  <1>3. CASE row' = row /\ consent' = consent
    <2>1. TypeOK'  BY <1>0, <1>1, <1>3, TaskKnown DEF RecordConsentLost, OutboxInv, TypeOK
    <2>2. QuietRows  BY <1>0, <1>3, RowsStay
    <2> QED  BY <1>0, <1>2, <2>1, <2>2 DEF QuietGood, Quiet
  <1>4. CASE /\ H # {} /\ row' = AfterDenial(p, dropped)
             /\ consent' = [consent EXCEPT ![p] = "DENIED"]
    <2>1. \A r \in Row :
            LET y == Settle(row[r], "DROPPED")
            IN /\ y \in RowType /\ y.status = "DROPPED" /\ y.group = row[r].group
               /\ y.created = row[r].created /\ y.expires = row[r].expires
      BY SettleFacts, RowsOf DEF Terminal
    <2>2. dropped \in [Row -> RowType]  BY <2>1, RowsOf
    <2>3. \A r \in Row : \/ dropped[r] = row[r]
                         \/ /\ Unsettled(row[r]) /\ dropped[r].status = "DROPPED"
                            /\ dropped[r].group = row[r].group
                            /\ dropped[r].created = row[r].created
                            /\ dropped[r].expires = row[r].expires
      BY <2>1, HeldRows DEF Unsettled
    <2> HIDE DEF dropped, p
    <2>4. row' \in [Row -> RowType]  BY <1>4, <2>2, DenialFacts
    <2>5. \A r \in Row : \/ row'[r] = dropped[r]
                         \/ /\ Unsettled(dropped[r]) /\ row'[r].status = "DROPPED"
                            /\ row'[r].group = dropped[r].group
                            /\ row'[r].created = dropped[r].created
                            /\ row'[r].expires = dropped[r].expires
      BY <1>4, <2>2, DenialFacts
    <2>6. TypeOK'
      BY <1>0, <1>1, <1>4, <2>4, TaskKnown DEF RecordConsentLost, OutboxInv, TypeOK
    <2>7. \A r \in Row : \/ row'[r] = row[r]
                         \/ /\ Unsettled(row[r]) /\ row'[r].status = "DROPPED" /\ row'[r].group = row[r].group
                            /\ row'[r].created = row[r].created
                            /\ row'[r].expires = row[r].expires
      BY <2>3, <2>5 DEF Terminal, Unsettled
    <2>8. QuietRows  BY <1>0, <2>7, RowsSettle DEF Terminal
    <2> QED  BY <1>0, <1>2, <2>6, <2>8 DEF QuietGood, Quiet
  <1>5. \/ row' = row /\ consent' = consent
        \/ /\ H # {} /\ row' = AfterDenial(p, dropped)
           /\ consent' = [consent EXCEPT ![p] = "DENIED"]
    BY DEF RecordConsentLost
  <1> HIDE DEF H, p, dropped
  <1> QED  BY <1>3, <1>4, <1>5

LEMMA RecordBadQuiet ==
  ASSUME OutboxInv, NEW w \in Worker, NEW k \in task[w], RecordBad(w, k) PROVE QuietGood
  <1> DEFINE y(r) == Settle(row[r], "DROPPED")
  <1>0. /\ now' = now /\ now \in Nat
        /\ row' = [r \in Row |-> IF r \in Held(k.group) THEN y(r) ELSE row[r]]
        /\ task' = [task EXCEPT ![w] = @ \ {k}]
    BY RowsOf DEF RecordBad, Write, Rewrite, Done
  <1>1. \A r \in Row : /\ y(r) \in RowType /\ y(r).status = "DROPPED"
                       /\ y(r).group = row[r].group /\ y(r).created = row[r].created
                       /\ y(r).expires = row[r].expires
    BY SettleFacts, RowsOf DEF Terminal
  <1> HIDE DEF y
  <1>2. row' \in [Row -> RowType]  BY <1>0, <1>1, RowsOf
  <1>3. budget' \in [Bounds -> Nat]  BY SpendType DEF RecordBad, OutboxInv, TypeOK, Bounds
  <1>4. TypeOK'  BY <1>0, <1>2, <1>3, TaskKnown DEF RecordBad, OutboxInv, TypeOK
  <1>5. QuietRows  BY <1>0, <1>1, HeldRows, RowsSettle DEF Terminal, Unsettled
  <1>6. QuietSender  BY <1>0, TaskKnown, SenderDrops DEF RecordBad
  <1> QED  BY <1>0, <1>4, <1>5, <1>6 DEF QuietGood, Quiet

LEMMA VkQuiet ==
  ASSUME OutboxInv, NEW g \in wire, VkAccept(g) \/ VkLose(g) PROVE QuietGood
  <1>0. now' = now /\ row' = row /\ task' = task /\ wire' = wire \ {g} /\ now \in Nat
    BY RowsOf DEF VkAccept, VkLose, queueVars, senderVars
  <1>1. QuietRows  BY <1>0, RowsStay
  <1>2. g \in Group  BY DEF OutboxInv, TypeOK
  <1>3. CASE VkAccept(g) /\ ~(\E a \in accepted : a.gid = g.gid)
    <2>1. accepted' = accepted \cup {[gid |-> g.gid, rows |-> g.rows]}  BY <1>3 DEF VkAccept
    <2>2. copies' \in [Row -> Nat]  BY <1>3 DEF VkAccept, OutboxInv, TypeOK
    <2>3. TypeOK'
      BY <1>0, <1>2, <1>3, <2>1, <2>2
      DEF VkAccept, OutboxInv, TypeOK, queueVars, senderVars, Group
    <2>4. \A w \in Worker : \A j, k \in task[w] : j.group = k.group => j = k
      BY DEF OutboxInv, LeaseHasOneHolder
    <2>5. \A r \in Row : copies[r] \in Nat /\ copies'[r] = IF r \in g.rows THEN copies[r] + 1
                                                           ELSE copies[r]
      BY <1>3 DEF VkAccept, OutboxInv, TypeOK
    <2>6. \A r \in Row : (copies[r] > 0 => copies'[r] > 0) /\ (r \in g.rows => copies'[r] > 0)
      <3> SUFFICES ASSUME NEW r \in Row
                   PROVE  (copies[r] > 0 => copies'[r] > 0) /\ (r \in g.rows => copies'[r] > 0)
        OBVIOUS
      <3> DEFINE c == copies[r]  d == copies'[r]
      <3>1. c \in Nat /\ d = IF r \in g.rows THEN c + 1 ELSE c  BY <2>5
      <3> HIDE DEF c, d
      <3>2. (c > 0 => d > 0) /\ (r \in g.rows => d > 0)  BY <3>1
      <3> QED  BY <3>2 DEF c, d
    <2> DEFINE e == [gid |-> g.gid, rows |-> g.rows]
    <2>7. e.gid = g.gid /\ e.rows = g.rows /\ g.rows \subseteq Row
      BY <1>2 DEF Group
    <2> HIDE DEF e
    <2>9. \A a \in accepted' : a \in accepted \/ a = e  BY <2>1 DEF e
    <2>10. \A r \in e.rows : copies'[r] > 0  BY <2>6, <2>7
    <2>11. /\ \A w \in Worker : \A k \in task'[w] : \E j \in task[w] : j.group = k.group
           /\ \A w \in Worker : \A j, k \in task'[w] : j.group = k.group => j = k
           /\ \A q \in wire' : q \in wire
      BY <1>0, <2>4
    <2>12. \A a \in accepted' : \/ a \in accepted
                               \/ /\ a.gid = g.gid /\ a.rows = g.rows
                                  /\ \A r \in a.rows : copies'[r] > 0
      BY <2>7, <2>9, <2>10
    <2>8. QuietSender  BY <2>6, <2>11, <2>12 DEF QuietSender
    <2> QED  BY <1>0, <1>1, <2>3, <2>8 DEF QuietGood, Quiet
  <1>4. CASE accepted' = accepted /\ copies' = copies
    <2>1. TypeOK'
      BY <1>0, <1>4 DEF VkAccept, VkLose, OutboxInv, TypeOK, queueVars, senderVars
    <2>2. QuietSender  BY <1>0, <1>4, SenderDrops
    <2> QED  BY <1>0, <1>1, <2>1, <2>2 DEF QuietGood, Quiet
  <1> QED  BY <1>3, <1>4 DEF VkAccept, VkLose

LEMMA StartQuiet == ASSUME OutboxInv, NEW w \in Worker, Start(w) PROVE QuietGood
  <1>0. now' = now /\ row' = row /\ task' = task /\ now \in Nat
    BY RowsOf DEF Start, queueVars
  <1>1. TypeOK'  BY <1>0 DEF Start, OutboxInv, TypeOK, queueVars, vkVars
  <1>2. QuietRows  BY <1>0, RowsStay
  <1>3. QuietSender  BY <1>0, SenderDrops DEF Start, vkVars
  <1> QED  BY <1>0, <1>1, <1>2, <1>3 DEF QuietGood, Quiet

LEMMA CrashQuiet == ASSUME OutboxInv, NEW w \in Worker, Crash(w) PROVE QuietGood
  <1>0. now' = now /\ row' = row /\ task' = [task EXCEPT ![w] = {}] /\ now \in Nat
    BY RowsOf DEF Crash, queueVars
  <1>1. budget' \in [Bounds -> Nat]  BY SpendType DEF Crash, OutboxInv, TypeOK, Bounds
  <1>2. TypeOK'  BY <1>0, <1>1 DEF Crash, OutboxInv, TypeOK, queueVars, vkVars
  <1>3. QuietRows  BY <1>0, RowsStay
  <1>4. \A v \in Worker : task'[v] \subseteq task[v]  BY <1>0 DEF OutboxInv, TypeOK
  <1>5. QuietSender  BY <1>4, SenderDrops DEF Crash, vkVars
  <1> QED  BY <1>0, <1>2, <1>3, <1>5 DEF QuietGood, Quiet

LEMMA StopQuiet == ASSUME OutboxInv, NEW w \in Worker, Stop(w) PROVE QuietGood
  <1> DEFINE X == {r \in Row : row[r].status = "LEASED"}
             y(r) == Unleased(row[r])
  <1>0. /\ now' = now /\ task' = [task EXCEPT ![w] = {}] /\ now \in Nat
        /\ row' = [r \in Row |-> IF r \in X THEN y(r) ELSE row[r]]
    BY RowsOf DEF Stop, Rewrite
  <1>1. \A r \in Row :
          /\ y(r) \in RowType /\ y(r).status = "PENDING" /\ y(r).group = row[r].group
          /\ y(r).created = row[r].created /\ y(r).expires = row[r].expires
          /\ y(r).next = row[r].next /\ y(r).until = 0 /\ y(r).token = None
    BY UnleasedFacts, RowsOf
  <1>2. \A r \in X, s \in Row : Mate(r, s) /\ Unsettled(row[s]) => s \in X
    BY DEF OutboxInv, Lockstep, Unsettled
  <1>3. X \in SUBSET Row /\ \A r \in X : row[r].status = "LEASED"  OBVIOUS
  <1> HIDE DEF y, X
  <1>4. row' \in [Row -> RowType]  BY <1>0, <1>1, RowsOf
  <1>5. budget' \in [Bounds -> Nat]  BY SpendType DEF Stop, OutboxInv, TypeOK, Bounds
  <1>6. TypeOK'  BY <1>0, <1>4, <1>5 DEF Stop, OutboxInv, TypeOK, vkVars
  <1>7. \A r \in Row \ X : row'[r] = row[r]  BY <1>0
  <1>8. \A r \in X : /\ row[r].status = "LEASED" /\ Returned(r)
                     /\ row'[r].group = row[r].group /\ row'[r].created = row[r].created
                     /\ row'[r].expires = row[r].expires
    BY <1>0, <1>1, <1>3 DEF Returned
  <1>9. \A r \in X : row'[r].next = row[r].next  BY <1>0, <1>1, <1>3
  <1>10. QuietRows  BY <1>0, <1>2, <1>3, <1>7, <1>8, <1>9, RowsReturn
  <1>11. \A v \in Worker : task'[v] \subseteq task[v]  BY <1>0 DEF OutboxInv, TypeOK
  <1>12. QuietSender  BY <1>11, SenderDrops DEF Stop, vkVars
  <1> QED  BY <1>0, <1>6, <1>10, <1>12 DEF QuietGood, Quiet

(* A row is purged so late that every row of its group has expired.        *)
LEMMA JanitorQuiet == ASSUME OutboxInv, NEW w \in Worker, Janitor(w) PROVE QuietGood
  <1> DEFINE old(r)  == row[r].status \in Terminal /\ row[r].created + PurgeAfter <= now
             lost(r) == LeaseLost(row[r])
             gone    == [NoRow EXCEPT !.status = "deleted"]
             back(r) == Unleased(row[r])
  <1>0. /\ now' = now /\ now \in Nat
        /\ row' = [r \in Row |-> IF old(r) THEN gone
                                 ELSE IF lost(r) THEN back(r) ELSE row[r]]
    BY RowsOf DEF Janitor
  <1>1. /\ gone \in RowType /\ ~Stored(gone) /\ ~Unsettled(gone) /\ gone.status = "deleted"
        /\ gone.group = None /\ gone.created = 0
    BY DeletedFacts DEF Stored, Unsettled
  <1>2. \A r \in Row :
          /\ back(r) \in RowType /\ back(r).status = "PENDING" /\ back(r).group = row[r].group
          /\ back(r).created = row[r].created /\ back(r).expires = row[r].expires
          /\ back(r).next = row[r].next /\ back(r).until = 0 /\ back(r).token = None
    BY UnleasedFacts, RowsOf
  <1>3. \A r \in Row : lost(r) => row[r].status = "LEASED" /\ ~old(r)
    BY DEF LeaseLost, Terminal
  <1>4. \A r, s \in Row :
          Mate(r, s) /\ Unsettled(row[r]) /\ Unsettled(row[s]) => (lost(r) <=> lost(s))
    BY DEF OutboxInv, Lockstep, LeaseLost
  <1>5. ASSUME NEW r \in Row, NEW s \in Row, Mate(r, s), old(r) PROVE row[s].expires <= now
    <2>1. row[r].expires = row[r].created + Ttl[r] /\ row[s].expires = row[s].created + Ttl[s]
      BY <1>5, RowsOf DEF Mate
    <2>2. row[s].created < row[r].expires
      BY <1>5 DEF OutboxInv, Kin, Mate
    <2>3. Ttl[r] \in Nat /\ Ttl[s] \in Nat /\ 2 * Ttl[r] <= PurgeAfter /\ 2 * Ttl[s] <= PurgeAfter
      BY Constants
    <2>4. row[r].created \in Nat /\ row[s].created \in Nat /\ PurgeAfter \in Nat
      BY RowsOf, Constants
    <2> QED  BY <1>0, <1>5, <2>1, <2>2, <2>3, <2>4
  <1>6. \A r \in Row : Unsettled(row[r]) => ~old(r)  BY DEF Unsettled, Terminal
  <1> HIDE DEF old, lost, gone, back
  <1>7. row' \in [Row -> RowType]  BY <1>0, <1>1, <1>2, RowsOf
  <1>8. \A r \in Row : /\ old(r) => row'[r] = gone
                       /\ lost(r) => row'[r] = back(r)
                       /\ ~old(r) /\ ~lost(r) => row'[r] = row[r]
    BY <1>0, <1>3
  <1>9. TypeOK'  BY <1>0, <1>7 DEF Janitor, OutboxInv, TypeOK, senderVars, vkVars
  <1>10. \A r \in Row : QuietRow(r)
    <2> SUFFICES ASSUME NEW r \in Row PROVE QuietRow(r)  OBVIOUS
    <2>1. CASE old(r)  BY <1>0, <1>1, <1>8, <2>1 DEF QuietRow, Moved
    <2>2. CASE lost(r)  BY <1>0, <1>2, <1>3, <1>8, <2>2, RowsOf DEF QuietRow, Moved, Unsettled, Stored
    <2>3. CASE ~old(r) /\ ~lost(r)  BY <1>0, <1>8, <2>3, RowsOf DEF QuietRow, Moved
    <2> QED  BY <2>1, <2>2, <2>3
  <1>11. ASSUME NEW r \in Row, NEW s \in Row, Mate(r, s), row'[r].group # None,
                row'[s].group # None, Unsettled(row'[r]), Unsettled(row'[s])
         PROVE  QuietMates(r, s)
    <2>1. ~old(r) /\ ~old(s)  BY <1>1, <1>8, <1>11
    <2>2. Unsettled(row[r]) /\ Unsettled(row[s])
      BY <1>3, <1>8, <1>11, <2>1 DEF Unsettled
    <2>3. lost(r) <=> lost(s)  BY <1>4, <1>11, <2>2
    <2> QED  BY <1>2, <1>8, <2>1, <2>3 DEF QuietMates, Returned
  <1>12. ASSUME NEW r \in Row, row[r].group # None, row'[r].group = None PROVE Left(r)
    <2>1. old(r)  BY <1>2, <1>8, <1>12
    <2>0. ~Unsettled(row'[r])  BY <1>1, <1>8, <2>1 DEF Unsettled
    <2>2. SUFFICES ASSUME NEW s \in Row, row'[s].group = row[r].group PROVE Left(r)
      BY <2>0 DEF Left
    <2>3. ~old(s)  BY <1>1, <1>8, <1>12, <2>2
    <2>4. row'[s].expires = row[s].expires /\ row[s].group = row[r].group
      BY <1>2, <1>8, <2>2, <2>3
    <2>5. row[s].expires <= now  BY <1>5, <1>12, <2>1, <2>4 DEF Mate
    <2> QED  BY <1>0, <2>0, <2>2, <2>4, <2>5, RowsOf DEF Left
  <1>13. QuietRows  BY <1>10, <1>11, <1>12 DEF QuietRows
  <1>14. QuietSender  BY SenderDrops DEF Janitor, senderVars, vkVars
  <1> QED  BY <1>0, <1>9, <1>13, <1>14 DEF QuietGood, Quiet

-----------------------------------------------------------------------------
(***************************************************************************)
(* The claim.  Its LET definitions by name, for a choice C of players.     *)
(***************************************************************************)
Locked(C)     == UNION {ReadyOf(Swept, p) : p \in C}
Live(C)       == {r \in Locked(C) : Welcome(r)}
KeptIn(C)     == Kept(Swept, Live(C))
Loose(C)      == Live(C) \ UNION KeptIn(C)
LooseOf(C, p) == {r \in Loose(C) : Owner[r] = p}
Fresh(C)      == UNION {Compose(Swept, LooseOf(C, p), FreeSlots(Swept, p)) : p \in C}
Leased(C)     == KeptIn(C) \cup Fresh(C)
NewGid(C)     == Assign(Fresh(C), Gid \ GidsInUse)
NewToken(C)   == NewTokens(Leased(C))
GidOf(C, m)   == IF m \in Fresh(C) THEN NewGid(C)[m]
                 ELSE Swept[CHOOSE r \in m : TRUE].group
GroupOf(C, r) == CHOOSE m \in Leased(C) : r \in m
LeasedRow(C, r) ==
  [Swept[r] EXCEPT !.status = "LEASED", !.attempts = @ + 1, !.until = now + Lease,
                   !.token = NewToken(C)[GroupOf(C, r)], !.group = GidOf(C, GroupOf(C, r))]

LEMMA ClaimEffect ==
  ASSUME NEW w \in Worker, Claim(w)
  PROVE  /\ up[w] /\ task[w] = {}
         /\ now' = now /\ consent' = consent /\ nation' = nation /\ up' = up
         /\ halted' = halted /\ wire' = wire /\ copies' = copies /\ budget' = budget
         /\ \E C \in Chosen(Swept) :
              /\ Enough(Fresh(C), Gid \ GidsInUse)
              /\ Enough(Leased(C), Token \ TokensInUse)
              /\ row' = [r \in Row |->
                   IF r \in Locked(C) \ Live(C) THEN Settle(Swept[r], "DROPPED")
                   ELSE IF r \in UNION Leased(C) THEN LeasedRow(C, r)
                   ELSE IF r \in Loose(C) THEN Dissolved(Swept[r])
                   ELSE Swept[r]]
              /\ task' = [task EXCEPT ![w] =
                   {[group |-> [gid |-> GidOf(C, m), token |-> NewToken(C)[m], rows |-> m],
                     stage |-> "queued", at |-> 0] : m \in Leased(C)}]
              /\ accepted' = {a \in accepted : \A m \in Fresh(C) : NewGid(C)[m] # a.gid}
  BY DEF Claim, Locked, Live, KeptIn, Loose, LooseOf, Fresh, Leased, NewGid, NewToken,
         GidOf, GroupOf, LeasedRow

(* The messages composed of R are sets of rows of R, and no two overlap;   *)
(* only rows that count toward the cap share one.                          *)
LEMMA ComposeParts ==
  ASSUME NEW t, NEW R \in SUBSET Row, NEW free
  PROVE  /\ Compose(t, R, free) \subseteq SUBSET R
         /\ \A m, n \in Compose(t, R, free) : m # n => m \cap n = {}
         /\ \A m \in Compose(t, R, free) : \A r, s \in m : r # s => Capped(r)
  <1> DEFINE merged  == {r \in R : Kind[r] = "MERGED"}
             head    == {{r} : r \in {s \in R : ~Capped(s)}}
             singles == {{r} : r \in {s \in R : Kind[s] = "SINGLE"}}
             capped  == singles \cup (IF merged = {} THEN {} ELSE {merged})
             before(m) == {n \in capped : Older(t, Oldest(t, n), Oldest(t, m))}
             asTheyAre == {m \in capped : Cardinality(before(m)) < free - 1}
             most(A) == A \cup {UNION (capped \ A)}
  <1>1. \A m \in head : m \subseteq R /\ \A r \in m : ~Capped(r) /\ m = {r}  OBVIOUS
  <1>2. \A m \in capped : m \subseteq R /\ \A r \in m : Capped(r)
    <2>1. merged \subseteq R /\ \A r \in merged : Capped(r)  BY DEF Capped
    <2>2. \A m \in singles : m \subseteq R /\ \A r \in m : Capped(r)  BY DEF Capped
    <2>3. \A m \in capped : m \in singles \/ m = merged  OBVIOUS
    <2> HIDE DEF singles, merged, capped
    <2> QED  BY <2>1, <2>2, <2>3
  <1>3. \A m, n \in head : m # n => m \cap n = {}  OBVIOUS
  <1>4. \A m, n \in capped : m # n => m \cap n = {}
    <2>1. \A m, n \in singles : m # n => m \cap n = {}  OBVIOUS
    <2>2. \A m \in singles : m \cap merged = {}  OBVIOUS
    <2>3. \A m \in capped : m \in singles \/ m = merged  OBVIOUS
    <2> HIDE DEF singles, merged, capped
    <2> QED  BY <2>1, <2>2, <2>3
  <1>5. asTheyAre \subseteq capped  OBVIOUS
  <1>6. /\ \A m \in most(asTheyAre) : m \subseteq R /\ \A r \in m : Capped(r)
        /\ \A m, n \in most(asTheyAre) : m # n => m \cap n = {}
    <2> DEFINE U == UNION (capped \ asTheyAre)
    <2> HIDE DEF capped, asTheyAre
    <2>1. U \subseteq R /\ \A r \in U : Capped(r)  BY <1>2
    <2>2. \A m \in asTheyAre : m \cap U = {}
      <3> SUFFICES ASSUME NEW m \in asTheyAre, NEW n \in capped \ asTheyAre PROVE m \cap n = {}
        OBVIOUS
      <3> QED  BY <1>4, <1>5
    <2>3. \A m \in asTheyAre : m \in capped  BY <1>5
    <2>4. \A m \in most(asTheyAre) : m \in asTheyAre \/ m = U  OBVIOUS
    <2> HIDE DEF U, most
    <2> QED  BY <1>2, <1>4, <2>1, <2>2, <2>3, <2>4
  <1> DEFINE K == IF Cardinality(capped) <= free THEN capped
                  ELSE IF free = 0 THEN {} ELSE most(asTheyAre)
  <1>7. Compose(t, R, free) = head \cup K  BY DEF Compose
  <1> HIDE DEF head, capped, most
  <1>8. /\ \A m \in K : m \subseteq R /\ \A r \in m : Capped(r)
        /\ \A m, n \in K : m # n => m \cap n = {}
    BY <1>2, <1>4, <1>6
  <1> HIDE DEF K
  <1> QED  BY <1>1, <1>3, <1>7, <1>8

(* Sizes.                                                                  *)
LEMMA ImageSize ==
  ASSUME NEW S, IsFiniteSet(S), NEW T, NEW f \in [S -> T], \A y \in T : \E x \in S : f[x] = y
  PROVE  IsFiniteSet(T) /\ Cardinality(T) <= Cardinality(S)
  <1>1. f \in Surjection(S, T)  BY DEF Surjection
  <1> QED  BY <1>1, FS_Surjection

LEMMA LeastNumber ==
  ASSUME NEW T \in SUBSET Nat, T # {}
  PROVE  \E x \in T : \A y \in T : x <= y
  <1>1. \A x, y \in Nat : y < x => <<y, x>> \in OpToRel(<, Nat)  BY DEF OpToRel
  <1>2. PICK R : IsWellFoundedOn(R, Nat) /\ \A x, y \in Nat : y < x => <<y, x>> \in R
    BY <1>1, NatLessThanWellFounded, Zenon
  <1>3. PICK x \in T : \A y \in T : ~(<<y, x>> \in R)  BY <1>2, WFMin
  <1>4. \A y \in T : y \in Nat /\ x \in Nat /\ ~(y < x)  BY <1>2, <1>3, Zenon
  <1> QED  BY <1>4

(* Of equally old rows the lesser id is first, so a set of rows has one    *)
(* oldest.                                                                 *)
LEMMA OldestIsThere ==
  ASSUME NEW t, \A r \in Row : t[r].created \in Nat, NEW R \in SUBSET Row, R # {}
  PROVE  Oldest(t, R) \in R
  <1> DEFINE T == {t[r].created : r \in R}
  <1>1. T \in SUBSET Nat /\ T # {}  OBVIOUS
  <1>2. PICK c \in T : \A d \in T : c <= d  BY <1>1, LeastNumber
  <1> DEFINE S == {r \in R : t[r].created = c}
  <1>3. S \in SUBSET Nat /\ S # {}  BY <1>2, Constants
  <1>4. PICK r \in S : \A s \in S : r <= s  BY <1>3, LeastNumber
  <1>5. ASSUME NEW s \in R, s # r PROVE Older(t, r, s)
    <2>1. t[r].created = c /\ c <= t[s].created /\ r \in Nat /\ s \in Nat
          /\ t[r].created \in Nat /\ t[s].created \in Nat
      BY <1>2, <1>4, Constants
    <2>2. t[s].created = c => r <= s  BY <1>4
    <2> QED  BY <1>5, <2>1, <2>2 DEF Older
  <1> QED  BY <1>4, <1>5 DEF Oldest

LEMMA OlderIsAnOrder ==
  ASSUME NEW t, \A r \in Row : t[r].created \in Nat
  PROVE  /\ \A r \in Row : ~Older(t, r, r)
         /\ \A r, s \in Row : r # s => Older(t, r, s) \/ Older(t, s, r)
         /\ \A q, r, s \in Row : Older(t, q, r) /\ Older(t, r, s) => Older(t, q, s)
  <1>1. \A r \in Row : r \in Nat /\ t[r].created \in Nat  BY Constants
  <1>2. ASSUME NEW q \in Row, NEW r \in Row, NEW s \in Row, Older(t, q, r), Older(t, r, s)
        PROVE  Older(t, q, s)
    <2>1. /\ q \in Nat /\ r \in Nat /\ s \in Nat
          /\ t[q].created \in Nat /\ t[r].created \in Nat /\ t[s].created \in Nat
      BY <1>1
    <2> QED  BY <1>2, <2>1 DEF Older
  <1>3. ASSUME NEW r \in Row, NEW s \in Row, r # s PROVE Older(t, r, s) \/ Older(t, s, r)
    <2>1. r \in Nat /\ s \in Nat /\ t[r].created \in Nat /\ t[s].created \in Nat  BY <1>1
    <2> QED  BY <1>3, <2>1 DEF Older
  <1>4. ASSUME NEW r \in Row PROVE ~Older(t, r, r)
    <2>1. r \in Nat /\ t[r].created \in Nat  BY <1>1
    <2> QED  BY <2>1 DEF Older
  <1> QED  BY <1>2, <1>3, <1>4

(* In an order with fewer than k before each of A, A has no more than k.   *)
LEMMA FewComeFirst ==
  ASSUME NEW P, IsFiniteSet(P), NEW B \in [P -> SUBSET P], NEW k \in Nat,
         \A m \in P : m \notin B[m],
         \A m, n \in P : m # n => m \in B[n] \/ n \in B[m],
         \A l, m, n \in P : l \in B[m] /\ m \in B[n] => l \in B[n]
  PROVE  Cardinality({m \in P : Cardinality(B[m]) < k}) <= k
  <1> DEFINE A == {m \in P : Cardinality(B[m]) < k}
  <1>1. \A m \in P : IsFiniteSet(B[m]) /\ Cardinality(B[m]) \in Nat
    BY FS_Subset, FS_CardinalityType
  <1>2. CASE A = {}  BY <1>2, FS_EmptySet
  <1>3. CASE A # {}
    <2> DEFINE T == {k - Cardinality(B[n]) : n \in A}
    <2>1. T \in SUBSET Nat /\ T # {}  BY <1>1, <1>3
    <2>2. PICK x \in T : \A y \in T : x <= y  BY <2>1, LeastNumber
    <2>3. PICK m \in A : x = k - Cardinality(B[m])  BY <2>2
    <2>4. \A n \in A : Cardinality(B[n]) <= Cardinality(B[m])
      <3> SUFFICES ASSUME NEW n \in A PROVE Cardinality(B[n]) <= Cardinality(B[m])  OBVIOUS
      <3>1. k - Cardinality(B[n]) \in T  OBVIOUS
      <3>2. k - Cardinality(B[m]) <= k - Cardinality(B[n])  BY <2>2, <2>3, <3>1
      <3>3. Cardinality(B[n]) \in Nat /\ Cardinality(B[m]) \in Nat  BY <1>1
      <3> HIDE DEF T, A
      <3> QED  BY <3>2, <3>3
    <2>5. /\ IsFiniteSet(B[m] \cup {m})
          /\ Cardinality(B[m] \cup {m}) = Cardinality(B[m]) + 1
      BY <1>1, FS_AddElement
    <2>6. A \subseteq B[m] \cup {m}
      <3> SUFFICES ASSUME NEW n \in A, n # m, n \notin B[m] PROVE FALSE  OBVIOUS
      <3>1. m \in B[n] /\ n \in P /\ m \in P  OBVIOUS
      <3>2. B[m] \cup {m} \subseteq B[n]
        <4> SUFFICES ASSUME NEW l \in B[m] PROVE l \in B[n]  BY <3>1
        <4>1. l \in P  BY <3>1
        <4> QED  BY <3>1, <4>1
      <3>3. Cardinality(B[m] \cup {m}) <= Cardinality(B[n])  BY <1>1, <3>1, <3>2, FS_Subset
      <3>4. Cardinality(B[n]) <= Cardinality(B[m])  BY <2>4
      <3>5. Cardinality(B[n]) \in Nat /\ Cardinality(B[m]) \in Nat  BY <1>1, <3>1
      <3> QED  BY <2>5, <3>3, <3>4, <3>5
    <2>7. Cardinality(A) <= Cardinality(B[m]) + 1  BY <2>5, <2>6, FS_Subset
    <2>8. Cardinality(B[m]) < k /\ Cardinality(B[m]) \in Nat  BY <1>1
    <2>9. IsFiniteSet(A) /\ Cardinality(A) \in Nat  BY FS_Subset, FS_CardinalityType
    <2> HIDE DEF A, T
    <2> QED  BY <2>7, <2>8, <2>9 DEF A
  <1> QED  BY <1>2, <1>3

(* What counts toward the cap is composed into no more messages than there *)
(* are slots free: the oldest as they are, the rest in the last one.       *)
LEMMA ComposeWithinCap ==
  ASSUME NEW t, \A r \in Row : t[r].created \in Nat, NEW R \in SUBSET Row, NEW free \in Nat
  PROVE  LET M == {m \in Compose(t, R, free) : \E r \in m : Capped(r)}
         IN IsFiniteSet(M) /\ Cardinality(M) <= free
  <1> DEFINE merged  == {r \in R : Kind[r] = "MERGED"}
             head    == {{r} : r \in {s \in R : ~Capped(s)}}
             singles == {{r} : r \in {s \in R : Kind[s] = "SINGLE"}}
             capped  == singles \cup (IF merged = {} THEN {} ELSE {merged})
             before(m) == {n \in capped : Older(t, Oldest(t, n), Oldest(t, m))}
             asTheyAre == {m \in capped : Cardinality(before(m)) < free - 1}
             most(A) == A \cup {UNION (capped \ A)}
             K == IF Cardinality(capped) <= free THEN capped
                  ELSE IF free = 0 THEN {} ELSE most(asTheyAre)
             M == {m \in Compose(t, R, free) : \E r \in m : Capped(r)}
  <1>1. Compose(t, R, free) = head \cup K  BY DEF Compose
  <1>2. M \subseteq K
    <2>1. \A m \in head : \A r \in m : ~Capped(r)  OBVIOUS
    <2> HIDE DEF head, K
    <2> QED  BY <1>1, <2>1
  <1>3. \A m \in capped : m \in SUBSET Row /\ m # {}
    <2>1. merged \subseteq Row /\ \A m \in singles : m \in SUBSET Row /\ m # {}  OBVIOUS
    <2>2. \A m \in capped : m \in singles \/ (m = merged /\ merged # {})  OBVIOUS
    <2> HIDE DEF singles, merged, capped
    <2> QED  BY <2>1, <2>2
  <1>4. \A m, n \in capped : m # n => m \cap n = {}
    <2>1. \A m, n \in singles : m # n => m \cap n = {}  OBVIOUS
    <2>2. \A m \in singles : m \cap merged = {}  OBVIOUS
    <2>3. \A m \in capped : m \in singles \/ m = merged  OBVIOUS
    <2> HIDE DEF singles, merged, capped
    <2> QED  BY <2>1, <2>2, <2>3
  <1> HIDE DEF capped, head, singles, merged
  <1>5. IsFiniteSet(capped)
    <2>1. IsFiniteSet(SUBSET Row)  BY Constants, FS_SUBSET
    <2> QED  BY <1>3, <2>1, FS_Subset
  <1>6. Cardinality(capped) \in Nat  BY <1>5, FS_CardinalityType
  <1>7. \A m \in capped : Oldest(t, m) \in m /\ Oldest(t, m) \in Row  BY <1>3, OldestIsThere
  <1>8. \A m, n \in capped : m # n => Oldest(t, m) # Oldest(t, n)
    <2> SUFFICES ASSUME NEW m \in capped, NEW n \in capped, m # n, Oldest(t, m) = Oldest(t, n)
                 PROVE  FALSE
      OBVIOUS
    <2>1. Oldest(t, m) \in m \cap n  BY <1>7
    <2> QED  BY <1>4, <2>1
  <1>9. ASSUME free > 0 PROVE Cardinality(asTheyAre) <= free - 1
    <2> DEFINE B == [m \in capped |-> before(m)]  k == free - 1
    <2>1. k \in Nat  BY <1>9
    <2>2. B \in [capped -> SUBSET capped]  OBVIOUS
    <2>3. \A l, m \in capped : l \in B[m] <=> Older(t, Oldest(t, l), Oldest(t, m))  OBVIOUS
    <2>4. asTheyAre = {m \in capped : Cardinality(B[m]) < k}  OBVIOUS
    <2> HIDE DEF B, k
    <2>5. \A m \in capped : m \notin B[m]  BY <1>7, <2>3, OlderIsAnOrder
    <2>6. \A m, n \in capped : m # n => m \in B[n] \/ n \in B[m]
      BY <1>7, <1>8, <2>3, OlderIsAnOrder
    <2>7. \A l, m, n \in capped : l \in B[m] /\ m \in B[n] => l \in B[n]
      <3> SUFFICES ASSUME NEW l \in capped, NEW m \in capped, NEW n \in capped,
                          l \in B[m], m \in B[n]
                   PROVE  l \in B[n]
        OBVIOUS
      <3>1. /\ Older(t, Oldest(t, l), Oldest(t, m)) /\ Older(t, Oldest(t, m), Oldest(t, n))
            /\ Oldest(t, l) \in Row /\ Oldest(t, m) \in Row /\ Oldest(t, n) \in Row
        BY <1>7, <2>3
      <3>2. Older(t, Oldest(t, l), Oldest(t, n))  BY <3>1, OlderIsAnOrder
      <3> QED  BY <2>3, <3>2
    <2>8. Cardinality({m \in capped : Cardinality(B[m]) < k}) <= k
      BY <1>5, <2>1, <2>2, <2>5, <2>6, <2>7, FewComeFirst
    <2> QED  BY <2>4, <2>8 DEF k
  <1>10. IsFiniteSet(asTheyAre) /\ Cardinality(asTheyAre) \in Nat
    BY <1>5, FS_Subset, FS_CardinalityType
  <1> HIDE DEF asTheyAre
  <1>11. /\ IsFiniteSet(most(asTheyAre))
         /\ Cardinality(most(asTheyAre)) <= Cardinality(asTheyAre) + 1
    <2> DEFINE U == UNION (capped \ asTheyAre)
    <2>1. most(asTheyAre) = asTheyAre \cup {U}  OBVIOUS
    <2> HIDE DEF U, most
    <2>2. /\ IsFiniteSet(asTheyAre \cup {U})
          /\ Cardinality(asTheyAre \cup {U}) = IF U \in asTheyAre THEN Cardinality(asTheyAre)
                                                ELSE Cardinality(asTheyAre) + 1
      BY <1>10, FS_AddElement
    <2> QED  BY <1>10, <2>1, <2>2
  <1> HIDE DEF most
  <1>12. IsFiniteSet(K) /\ Cardinality(K) <= free
    <2>1. CASE Cardinality(capped) <= free  BY <1>5, <2>1
    <2>2. CASE free = 0  BY <1>5, <2>2, FS_EmptySet
    <2>3. CASE ~(Cardinality(capped) <= free) /\ free > 0
      <3>1. Cardinality(most(asTheyAre)) \in Nat  BY <1>11, FS_CardinalityType
      <3> QED  BY <1>9, <1>10, <1>11, <2>3, <3>1
    <2> QED  BY <2>1, <2>2, <2>3
  <1> HIDE DEF K
  <1>13. IsFiniteSet(M) /\ Cardinality(M) <= Cardinality(K)  BY <1>2, <1>12, FS_Subset
  <1>14. Cardinality(M) \in Nat /\ Cardinality(K) \in Nat
    BY <1>12, <1>13, FS_CardinalityType
  <1> HIDE DEF M
  <1>15. Cardinality(M) <= free  BY <1>12, <1>13, <1>14
  <1> QED  BY <1>13, <1>15 DEF M

LEMMA InUse ==
  /\ \A r \in Row : row[r].group \in GidsInUse /\ row[r].token \in TokensInUse
  /\ \A q \in wire : q.gid \in GidsInUse /\ q.token \in TokensInUse
  /\ \A w \in Worker : \A k \in task[w] :
       k.group.gid \in GidsInUse /\ k.group.token \in TokensInUse
  BY DEF GidsInUse, TokensInUse

(* What is taken is ready, and whoever has a row taken has all of them     *)
(* taken that are ready.                                                   *)
LEMMA LockedFacts ==
  ASSUME OutboxInv, NEW C \in Chosen(Swept)
  PROVE  /\ Locked(C) \subseteq Row /\ Live(C) \subseteq Locked(C)
         /\ \A r \in Locked(C) : /\ Swept[r] = row[r] /\ Ready(row[r]) /\ Owner[r] \in C
                                 /\ Unsettled(row[r])
         /\ \A s \in Row : Owner[s] \in C /\ Ready(Swept[s]) => s \in Locked(C)
  <1>1. \A x : Ready(x) => Unsettled(x)  BY DEF Ready, Unsent, LeaseLost, Unsettled
  <1>2. \A r \in Row : Unsettled(Swept[r]) => Swept[r] = row[r]  BY SweptFacts, RowsOf
  <1>3. \A r \in Locked(C) : r \in Row /\ Ready(Swept[r]) /\ Owner[r] \in C
    BY DEF Locked, ReadyOf
  <1>4. \A s \in Row : Owner[s] \in C /\ Ready(Swept[s]) => s \in Locked(C)
    BY DEF Locked, ReadyOf
  <1> QED  BY <1>1, <1>2, <1>3, <1>4 DEF Live

(* A group that is leased again is all of an old group; the new ones are   *)
(* made of the rest, each of the rows of one player.                       *)
LEMMA LeasedFactsOf ==
  ASSUME OutboxInv, NEW C \in Chosen(Swept)
  PROVE  /\ \A m \in KeptIn(C) : /\ m \subseteq Live(C) /\ m # {}
                                 /\ \E g \in Gid : /\ m = Members(g)
                                                   /\ \A r \in m : Swept[r].group = g
         /\ \A m \in Fresh(C) : /\ m \subseteq Loose(C)
                                /\ \A r, s \in m : Owner[r] = Owner[s] /\ (r # s => Capped(r))
         /\ \A r \in Live(C) : row[r].group # None /\ Members(row[r].group) \subseteq Live(C)
                              => r \in UNION KeptIn(C)
         /\ \A m, n \in Leased(C) : m # n => m \cap n = {}
         /\ Leased(C) \subseteq SUBSET Row
  <1>0. /\ Live(C) \subseteq Row
        /\ \A r \in Row : Swept[r].group = row[r].group /\ row[r].group \in Gid \cup {None}
    BY LockedFacts, SweptFacts, RowsOf
  <1>1. ASSUME NEW m \in KeptIn(C)
        PROVE  /\ m \subseteq Live(C) /\ m # {}
               /\ \E g \in Gid : m = Members(g) /\ \A r \in m : Swept[r].group = g
    <2>1. PICK g \in {Swept[r].group : r \in Live(C)} \ {None} :
            m = {r \in Row : Swept[r].group = g} /\ m \subseteq Live(C)
      BY DEF KeptIn, Kept
    <2>2. PICK s \in Live(C) : Swept[s].group = g  BY <2>1
    <2>3. g \in Gid  BY <1>0, <2>1, <2>2
    <2>4. m = Members(g)  BY <1>0, <2>1 DEF Members
    <2> QED  BY <1>0, <2>1, <2>2, <2>3, <2>4
  <1>2. ASSUME NEW m \in KeptIn(C), NEW n \in KeptIn(C), m # n PROVE m \cap n = {}
    <2>1. PICK g \in Gid : m = Members(g)  BY <1>1
    <2>2. PICK h \in Gid : n = Members(h)  BY <1>1
    <2> QED  BY <1>2, <2>1, <2>2 DEF Members
  <1>3. \A p : LooseOf(C, p) \in SUBSET Row  BY <1>0 DEF LooseOf, Loose
  <1> DEFINE Parts(p) == Compose(Swept, LooseOf(C, p), FreeSlots(Swept, p))
  <1>4. \A p : /\ Parts(p) \subseteq SUBSET LooseOf(C, p)
               /\ \A m, n \in Parts(p) : m # n => m \cap n = {}
               /\ \A m \in Parts(p) : \A r, s \in m : r # s => Capped(r)
    BY <1>3, ComposeParts
  <1>5. Fresh(C) = UNION {Parts(p) : p \in C}  BY DEF Fresh
  <1> HIDE DEF Parts
  <1>6. \A p, q : p # q => LooseOf(C, p) \cap LooseOf(C, q) = {}  BY DEF LooseOf
  <1>7. \A m \in Fresh(C) : /\ m \subseteq Loose(C)
                            /\ \A r, s \in m : Owner[r] = Owner[s] /\ (r # s => Capped(r))
    <2> SUFFICES ASSUME NEW m \in Fresh(C)
                 PROVE  /\ m \subseteq Loose(C)
                        /\ \A r, s \in m : Owner[r] = Owner[s] /\ (r # s => Capped(r))
      OBVIOUS
    <2>1. PICK p \in C : m \in Parts(p)  BY <1>5
    <2> QED  BY <1>4, <2>1 DEF LooseOf
  <1>8. ASSUME NEW m \in Fresh(C), NEW n \in Fresh(C), m # n PROVE m \cap n = {}
    <2>1. PICK p \in C : m \in Parts(p)  BY <1>5
    <2>2. PICK q \in C : n \in Parts(q)  BY <1>5
    <2>3. CASE p = q  BY <1>4, <1>8, <2>1, <2>2, <2>3
    <2>4. CASE p # q
      <3>1. m \subseteq LooseOf(C, p) /\ n \subseteq LooseOf(C, q)  BY <1>4, <2>1, <2>2
      <3> QED  BY <1>6, <2>4, <3>1
    <2> QED  BY <2>3, <2>4
  <1>9. \A m \in KeptIn(C), n \in Fresh(C) : m \cap n = {}
    <2>1. \A m \in KeptIn(C) : m \subseteq UNION KeptIn(C)  OBVIOUS
    <2>2. \A n \in Fresh(C) : n \subseteq Live(C) \ UNION KeptIn(C)  BY <1>7 DEF Loose
    <2> QED  BY <2>1, <2>2
  <1>10. Leased(C) \subseteq SUBSET Row  BY <1>0, <1>1, <1>7 DEF Leased, Loose
  <1>11. ASSUME NEW r \in Live(C), row[r].group # None, Members(row[r].group) \subseteq Live(C)
         PROVE  r \in UNION KeptIn(C)
    <2> DEFINE g == row[r].group  G == {s \in Row : Swept[s].group = g}
    <2>1. r \in Row /\ Swept[r].group = g  BY <1>0
    <2>2. G = Members(g)  BY <1>0 DEF Members
    <2>3. g \in {Swept[s].group : s \in Live(C)} \ {None}  BY <1>11, <2>1
    <2>4. G \in KeptIn(C)  BY <1>11, <2>2, <2>3 DEF KeptIn, Kept
    <2>5. r \in G  BY <2>1
    <2> QED  BY <2>4, <2>5
  <1> QED  BY <1>1, <1>2, <1>7, <1>8, <1>9, <1>10, <1>11 DEF Leased

(* What counts toward the cap of a player goes into the slots he has free. *)
CountsFor(p, m) == \E r \in m : Owner[r] = p /\ Capped(r)

LEMMA FreshWithinCap ==
  ASSUME OutboxInv, NEW C \in Chosen(Swept), NEW p \in Player
  PROVE  /\ FreeSlots(Swept, p) \in Nat
         /\ Cardinality({m \in Fresh(C) : CountsFor(p, m)}) <= FreeSlots(Swept, p)
  <1> DEFINE counted == {r \in Row : /\ Owner[r] = p /\ Capped(r)
                                     /\ Swept[r].status = "SENT"
                                     /\ Swept[r].sentAt + CapWindow > now}
             used    == {Swept[r].group : r \in counted}
             N       == {m \in Fresh(C) : CountsFor(p, m)}
             R       == LooseOf(C, p)
             free    == FreeSlots(Swept, p)
             M       == {m \in Compose(Swept, R, free) : \E r \in m : Capped(r)}
  <1>1. IsFiniteSet(used)
    <2>1. IsFiniteSet(counted)  BY Constants, FS_Subset
    <2> DEFINE f == [r \in counted |-> Swept[r].group]
    <2>2. f \in [counted -> used] /\ \A y \in used : \E x \in counted : f[x] = y  OBVIOUS
    <2> HIDE DEF f, counted, used
    <2> QED  BY <2>1, <2>2, ImageSize
  <1>2. free \in Nat
    <2>1. Cardinality(used) \in Nat /\ Cap \in Nat  BY <1>1, FS_CardinalityType, OutboxAssumption
    <2>2. free = IF Cardinality(used) < Cap THEN Cap - Cardinality(used) ELSE 0
      BY DEF FreeSlots
    <2> HIDE DEF free, used
    <2> QED  BY <2>1, <2>2
  <1>3. R \in SUBSET Row /\ \A r \in Row : Swept[r].created \in Nat
    BY LockedFacts, SweptFacts, RowsOf DEF LooseOf, Loose
  <1> HIDE DEF free
  <1>4. IsFiniteSet(M) /\ Cardinality(M) <= free  BY <1>2, <1>3, ComposeWithinCap
  <1>5. N \subseteq M
    <2> SUFFICES ASSUME NEW m \in Fresh(C), CountsFor(p, m) PROVE m \in M  OBVIOUS
    <2>1. PICK q \in C : m \in Compose(Swept, LooseOf(C, q), FreeSlots(Swept, q))  BY DEF Fresh
    <2>2. PICK r \in m : Owner[r] = p /\ Capped(r)  BY DEF CountsFor
    <2>3. LooseOf(C, q) \in SUBSET Row  BY LockedFacts DEF LooseOf, Loose
    <2>4. m \subseteq LooseOf(C, q)  BY <2>1, <2>3, ComposeParts
    <2>5. q = p  BY <2>2, <2>4 DEF LooseOf
    <2> QED  BY <2>1, <2>2, <2>5 DEF free
  <1>6. IsFiniteSet(N) /\ Cardinality(N) <= Cardinality(M)  BY <1>4, <1>5, FS_Subset
  <1>7. Cardinality(N) \in Nat /\ Cardinality(M) \in Nat  BY <1>4, <1>6, FS_CardinalityType
  <1> HIDE DEF N, M
  <1>8. Cardinality(N) <= free  BY <1>2, <1>4, <1>6, <1>7
  <1> QED  BY <1>2, <1>8 DEF free, N

(***************************************************************************)
(* What a claim does, said of the rows it locks (L), those of them it may  *)
(* send (V), the groups it leases again (K) and the ones it makes (F), with*)
(* their group ids and lease tokens.                                       *)
(***************************************************************************)
SameBirth(r) == row'[r].created = row[r].created /\ row'[r].expires = row[r].expires

ClaimSets(L, V, K, F) ==
  /\ L \subseteq Row /\ V \subseteq L /\ K \cup F \subseteq SUBSET V
  /\ \A r \in L : Ready(row[r]) /\ Unsettled(row[r])
  /\ \A r \in V : Welcome(r)
  /\ \A m, n \in K \cup F : m # n => m \cap n = {}
  /\ \A m \in F : \A r, s \in m : Owner[r] = Owner[s] /\ (r # s => Capped(r))
  /\ \A r \in V : row[r].group # None /\ Members(row[r].group) \subseteq V => r \in UNION K
  /\ \A p \in Player : Cardinality({m \in F : CountsFor(p, m)}) <= FreeSlots(Swept, p)

ClaimIds(K, F, gid, tok) ==
  /\ \A m \in K \cup F : gid[m] \in Gid /\ tok[m] \in Token \ TokensInUse
  /\ \A m \in K : m # {} /\ m = Members(gid[m])
  /\ \A m \in F : gid[m] \notin GidsInUse
  /\ \A m, n \in F : gid[m] = gid[n] => m = n
  /\ \A m, n \in K \cup F : tok[m] = tok[n] => m = n

ClaimRows(L, V, K, F, gid, tok) ==
  /\ \A r \in L \ V : SameBirth(r) /\ row'[r].status = "DROPPED"
                      /\ row'[r].group = row[r].group
  /\ \A m \in K \cup F : \A r \in m :
       /\ SameBirth(r) /\ row'[r].status = "LEASED" /\ row'[r].next = row[r].next
       /\ row'[r].until = now + Lease /\ row'[r].token = tok[m] /\ row'[r].group = gid[m]
  /\ \A r \in V \ UNION (K \cup F) : SameBirth(r) /\ row'[r].status = "PENDING"
                                     /\ row'[r].group = None
  /\ \A r \in Row \ L :
       /\ SameBirth(r) /\ row'[r].group = row[r].group /\ Moved(r)
       /\ Unsettled(row'[r]) \/ ~Stored(row'[r]) \/ ~Stored(row[r]) => row'[r] = row[r]
       /\ Unsettled(row'[r]) /\ Ready(row[r]) => \A s \in L : Owner[s] # Owner[r]

ClaimSender(w, K, F, gid, tok) ==
  /\ task[w] = {}
  /\ task' = [task EXCEPT ![w] =
       {[group |-> [gid |-> gid[m], token |-> tok[m], rows |-> m],
         stage |-> "queued", at |-> 0] : m \in K \cup F}]
  /\ accepted' = {a \in accepted : \A m \in F : gid[m] # a.gid}

ClaimShape(w, L, V, K, F, gid, tok) ==
  /\ now' = now /\ wire' = wire
  /\ ClaimSets(L, V, K, F) /\ ClaimIds(K, F, gid, tok)
  /\ ClaimRows(L, V, K, F, gid, tok) /\ ClaimSender(w, K, F, gid, tok)

LEMMA FreshIds ==
  ASSUME OutboxInv, NEW C \in Chosen(Swept),
         Enough(Fresh(C), Gid \ GidsInUse), Enough(Leased(C), Token \ TokensInUse)
  PROVE  /\ \A m \in Fresh(C) : NewGid(C)[m] \in Gid \ GidsInUse
         /\ \A m, n \in Fresh(C) : NewGid(C)[m] = NewGid(C)[n] => m = n
         /\ \A m \in Leased(C) : NewToken(C)[m] \in Token \ TokensInUse
         /\ \A m, n \in Leased(C) : NewToken(C)[m] = NewToken(C)[n] => m = n
  <1>1. IsFiniteSet(SUBSET Row)  BY Constants, FS_SUBSET
  <1>2. IsFiniteSet(Leased(C)) /\ IsFiniteSet(Fresh(C))
    BY <1>1, LeasedFactsOf, FS_Subset DEF Leased
  <1>3. IsFiniteSet(Gid \ GidsInUse) /\ IsFiniteSet(Token \ TokensInUse)
    BY Constants, FS_Subset
  <1>4. /\ NewGid(C) \in [Fresh(C) -> Gid \ GidsInUse]
        /\ \A m, n \in Fresh(C) : NewGid(C)[m] = NewGid(C)[n] => m = n
    BY <1>2, <1>3, Assigned DEF NewGid
  <1>5. /\ NewToken(C) \in [Leased(C) -> Token \ TokensInUse]
        /\ \A m, n \in Leased(C) : NewToken(C)[m] = NewToken(C)[n] => m = n
    BY <1>2, <1>3, Assigned DEF NewToken, NewTokens
  <1> QED  BY <1>4, <1>5

LEMMA ClaimIsShaped ==
  ASSUME OutboxInv, NEW w \in Worker, Claim(w)
  PROVE  \E L, V, K, F, gid, tok : ClaimShape(w, L, V, K, F, gid, tok)
  <1>1. PICK C \in Chosen(Swept) :
              /\ Enough(Fresh(C), Gid \ GidsInUse)
              /\ Enough(Leased(C), Token \ TokensInUse)
              /\ row' = [r \in Row |->
                   IF r \in Locked(C) \ Live(C) THEN Settle(Swept[r], "DROPPED")
                   ELSE IF r \in UNION Leased(C) THEN LeasedRow(C, r)
                   ELSE IF r \in Loose(C) THEN Dissolved(Swept[r])
                   ELSE Swept[r]]
              /\ task' = [task EXCEPT ![w] =
                   {[group |-> [gid |-> GidOf(C, m), token |-> NewToken(C)[m], rows |-> m],
                     stage |-> "queued", at |-> 0] : m \in Leased(C)}]
              /\ accepted' = {a \in accepted : \A m \in Fresh(C) : NewGid(C)[m] # a.gid}
    BY ClaimEffect
  <1>2. now' = now /\ wire' = wire /\ task[w] = {}  BY ClaimEffect
  <1> DEFINE L == Locked(C)  V == Live(C)  K == KeptIn(C)  F == Fresh(C)
             gid == [m \in Leased(C) |-> GidOf(C, m)]  tok == NewToken(C)
  <1>3. Leased(C) = K \cup F  BY DEF Leased
  <1>4. ClaimSets(L, V, K, F)
    <2>1. K \cup F \subseteq SUBSET V  BY LeasedFactsOf DEF Loose
    <2>2. /\ \A m \in F : \A r, s \in m : Owner[r] = Owner[s] /\ (r # s => Capped(r))
          /\ \A r \in V : row[r].group # None /\ Members(row[r].group) \subseteq V => r \in UNION K
      BY LeasedFactsOf
    <2>3. \A m, n \in K \cup F : m # n => m \cap n = {}  BY <1>3, LeasedFactsOf
    <2>4. \A r \in V : Welcome(r)  BY DEF Live
    <2>5. \A p \in Player : Cardinality({m \in F : CountsFor(p, m)}) <= FreeSlots(Swept, p)
      BY FreshWithinCap
    <2> QED  BY <2>1, <2>2, <2>3, <2>4, <2>5, LockedFacts DEF ClaimSets
  <1>5. \A m \in K : m \notin F
    <2> SUFFICES ASSUME NEW m \in K, m \in F PROVE FALSE  OBVIOUS
    <2>1. m # {} /\ m \subseteq Live(C) \ UNION KeptIn(C)  BY LeasedFactsOf DEF Loose
    <2> QED  BY <2>1
  <1>6. \A m \in F : gid[m] = NewGid(C)[m]  BY <1>3 DEF GidOf
  <1>7. \A m \in K : gid[m] \in Gid /\ m # {} /\ m = Members(gid[m])
    <2> SUFFICES ASSUME NEW m \in K PROVE gid[m] \in Gid /\ m # {} /\ m = Members(gid[m])
      OBVIOUS
    <2>1. PICK g \in Gid : m = Members(g) /\ \A r \in m : Swept[r].group = g
      BY LeasedFactsOf
    <2>2. m # {}  BY LeasedFactsOf
    <2>3. gid[m] = Swept[CHOOSE r \in m : TRUE].group  BY <1>3, <1>5 DEF GidOf
    <2>4. gid[m] = g  BY <2>1, <2>2, <2>3
    <2> QED  BY <2>1, <2>2, <2>4
  <1>8. ClaimIds(K, F, gid, tok)
    <2>1. /\ \A m \in F : gid[m] \in Gid \ GidsInUse
          /\ \A m, n \in F : gid[m] = gid[n] => m = n
          /\ \A m \in K \cup F : tok[m] \in Token \ TokensInUse
          /\ \A m, n \in K \cup F : tok[m] = tok[n] => m = n
      BY <1>1, <1>3, <1>6, FreshIds
    <2> HIDE DEF gid, tok, K, F
    <2> QED  BY <1>7, <2>1 DEF ClaimIds
  <1>9. ClaimSender(w, K, F, gid, tok)
    <2>1. {[group |-> [gid |-> GidOf(C, m), token |-> NewToken(C)[m], rows |-> m],
            stage |-> "queued", at |-> 0] : m \in Leased(C)}
          = {[group |-> [gid |-> gid[m], token |-> tok[m], rows |-> m],
            stage |-> "queued", at |-> 0] : m \in K \cup F}
      BY <1>3
    <2>2. accepted' = {a \in accepted : \A m \in F : gid[m] # a.gid}  BY <1>1, <1>6
    <2> QED  BY <1>1, <1>2, <2>1, <2>2 DEF ClaimSender
  <1>10. ClaimRows(L, V, K, F, gid, tok)
    <2>1. \A r \in Row : /\ Swept[r] \in RowType /\ Swept[r].group = row[r].group
                         /\ Swept[r].created = row[r].created
                         /\ Swept[r].expires = row[r].expires
                         /\ Unsettled(Swept[r]) => Swept[r] = row[r]
                         /\ ~Stored(Swept[r]) \/ ~Stored(row[r]) => Swept[r] = row[r]
                         /\ \/ Swept[r] = row[r]
                            \/ /\ Unsettled(row[r])
                               /\ Swept[r].status \in {"EXPIRED", "FAILED"}
      BY SweptFacts, RowsOf DEF Stored
    <2>2. V \subseteq L /\ L \subseteq Row /\ UNION Leased(C) \subseteq V
      BY <1>3, <1>4 DEF ClaimSets
    <2>3. \A r \in L \ V : SameBirth(r) /\ row'[r].status = "DROPPED"
                           /\ row'[r].group = row[r].group
      BY <1>1, <2>1, <2>2, SettleFacts DEF Terminal, SameBirth
    <2>4. ASSUME NEW m \in K \cup F, NEW r \in m
          PROVE  /\ SameBirth(r) /\ row'[r].status = "LEASED" /\ row'[r].next = row[r].next
                 /\ row'[r].until = now + Lease /\ row'[r].token = tok[m]
                 /\ row'[r].group = gid[m]
      <3>1. m \in Leased(C) /\ r \in Row /\ r \in V  BY <1>3, <2>2
      <3>2. GroupOf(C, r) = m  BY <1>3, <1>4, <3>1 DEF GroupOf, ClaimSets
      <3>3. row'[r] = LeasedRow(C, r)  BY <1>1, <3>1
      <3>4. gid[m] \in Gid /\ tok[m] \in Token  BY <1>8 DEF ClaimIds
      <3>5. gid[m] = GidOf(C, m)  BY <3>1
      <3>6. row'[r] = [Swept[r] EXCEPT !.status = "LEASED", !.attempts = @ + 1,
                         !.until = now + Lease, !.token = tok[m], !.group = gid[m]]
        BY <3>2, <3>3, <3>5 DEF LeasedRow
      <3>7. Swept[r] = row[r] /\ now + Lease \in Nat  BY <3>1, LockedFacts, RowsOf, Constants
      <3> DEFINE x == Swept[r]  u == now + Lease  t == tok[m]  g == gid[m]
                 y == [x EXCEPT !.status = "LEASED", !.attempts = @ + 1, !.until = u,
                                !.token = t, !.group = g]
      <3>8. x \in RowType /\ u \in Nat /\ t \in Token /\ g \in Gid \cup {None}
        BY <2>1, <3>1, <3>4, <3>7
      <3> HIDE DEF x, u, t, g
      <3>9. /\ y.status = "LEASED" /\ y.until = u /\ y.token = t /\ y.group = g
            /\ y.created = x.created /\ y.expires = x.expires /\ y.next = x.next
        BY <3>8 DEF RowType, Statuses
      <3>10. row'[r] = y  BY <3>6 DEF x, u, t, g
      <3> HIDE DEF y
      <3> QED  BY <3>7, <3>9, <3>10 DEF SameBirth, x, u, t, g
    <2>5. \A r \in V \ UNION (K \cup F) : SameBirth(r) /\ row'[r].status = "PENDING"
                                          /\ row'[r].group = None
      <3> SUFFICES ASSUME NEW r \in V, r \notin UNION Leased(C)
                   PROVE  SameBirth(r) /\ row'[r].status = "PENDING" /\ row'[r].group = None
        BY <1>3
      <3>1. r \in Loose(C)  BY DEF Loose, Leased
      <3>2. row'[r] = Dissolved(Swept[r])  BY <1>1, <2>2, <3>1
      <3> QED  BY <2>1, <2>2, <3>2, DissolvedFacts DEF SameBirth
    <2>6. \A r \in Row \ L : row'[r] = Swept[r]  BY <1>1, <2>2 DEF Loose
    <2>7. \A r \in Row \ L :
            /\ SameBirth(r) /\ row'[r].group = row[r].group /\ Moved(r)
            /\ Unsettled(row'[r]) \/ ~Stored(row'[r]) \/ ~Stored(row[r]) => row'[r] = row[r]
      BY <2>1, <2>6 DEF SameBirth, Stored, Moved, Terminal
    <2>8. \A r \in Row \ L : Unsettled(row'[r]) /\ Ready(row[r]) => \A s \in L : Owner[s] # Owner[r]
      <3> SUFFICES ASSUME NEW r \in Row \ L, Unsettled(row'[r]), Ready(row[r]), NEW s \in L
                   PROVE  Owner[s] # Owner[r]
        OBVIOUS
      <3>1. Ready(Swept[r])  BY <2>6, <2>7
      <3>2. Owner[s] \in C  BY LockedFacts
      <3> QED  BY <3>1, <3>2, LockedFacts
    <2> HIDE DEF L, V, K, F, gid, tok
    <2> QED  BY <2>3, <2>4, <2>5, <2>7, <2>8 DEF ClaimRows
  <1> HIDE DEF L, V, K, F, gid, tok
  <1>11. ClaimShape(w, L, V, K, F, gid, tok)
    BY <1>2, <1>4, <1>8, <1>9, <1>10 DEF ClaimShape
  <1> WITNESS L, V, K, F, gid, tok
  <1> QED  BY <1>11

LEMMA ClaimType == ASSUME OutboxInv, NEW w \in Worker, Claim(w) PROVE TypeOK'
  <1>1. PICK C \in Chosen(Swept) :
              /\ Enough(Fresh(C), Gid \ GidsInUse)
              /\ Enough(Leased(C), Token \ TokensInUse)
              /\ row' = [r \in Row |->
                   IF r \in Locked(C) \ Live(C) THEN Settle(Swept[r], "DROPPED")
                   ELSE IF r \in UNION Leased(C) THEN LeasedRow(C, r)
                   ELSE IF r \in Loose(C) THEN Dissolved(Swept[r])
                   ELSE Swept[r]]
              /\ task' = [task EXCEPT ![w] =
                   {[group |-> [gid |-> GidOf(C, m), token |-> NewToken(C)[m], rows |-> m],
                     stage |-> "queued", at |-> 0] : m \in Leased(C)}]
              /\ accepted' = {a \in accepted : \A m \in Fresh(C) : NewGid(C)[m] # a.gid}
    BY ClaimEffect
  <1>2. \A r \in Row : Swept[r] \in RowType /\ Settle(Swept[r], "DROPPED") \in RowType
                       /\ Dissolved(Swept[r]) \in RowType
    BY SweptFacts, RowsOf, SettleFacts, DissolvedFacts DEF Terminal
  <1>3. \A m \in Leased(C) : GidOf(C, m) \in Gid /\ NewToken(C)[m] \in Token
    <2> SUFFICES ASSUME NEW m \in Leased(C)
                 PROVE  GidOf(C, m) \in Gid /\ NewToken(C)[m] \in Token
      OBVIOUS
    <2>1. NewToken(C)[m] \in Token  BY <1>1, FreshIds
    <2>2. CASE m \in Fresh(C)  BY <1>1, <2>1, <2>2, FreshIds DEF GidOf
    <2>3. CASE m \notin Fresh(C)
      <3>1. m \in KeptIn(C)  BY <2>3 DEF Leased
      <3>2. m # {} /\ \E g \in Gid : \A r \in m : Swept[r].group = g
        BY <3>1, LeasedFactsOf
      <3> QED  BY <2>1, <2>3, <3>2 DEF GidOf
    <2> QED  BY <2>2, <2>3
  <1>4. \A r \in Row : r \in UNION Leased(C) => LeasedRow(C, r) \in RowType
    <2> SUFFICES ASSUME NEW r \in Row, r \in UNION Leased(C) PROVE LeasedRow(C, r) \in RowType
      OBVIOUS
    <2> DEFINE x == Swept[r]  u == now + Lease  m == GroupOf(C, r)
               t == NewToken(C)[m]  g == GidOf(C, m)
    <2>1. m \in Leased(C)  BY DEF GroupOf
    <2>2. x \in RowType /\ u \in Nat /\ t \in Token /\ g \in Gid \cup {None}
      BY <1>2, <1>3, <2>1, RowsOf, Constants
    <2>3. LeasedRow(C, r) = [x EXCEPT !.status = "LEASED", !.attempts = @ + 1, !.until = u,
                                      !.token = t, !.group = g]
      BY DEF LeasedRow
    <2> HIDE DEF x, u, m, t, g
    <2>4. x.attempts + 1 \in Nat  BY <2>2 DEF RowType
    <2> QED  BY <2>2, <2>3, <2>4 DEF RowType, Statuses
  <1>5. row' \in [Row -> RowType]  BY <1>1, <1>2, <1>4
  <1>6. \A m \in Leased(C) :
          [group |-> [gid |-> GidOf(C, m), token |-> NewToken(C)[m], rows |-> m],
           stage |-> "queued", at |-> 0] \in TaskType
    BY <1>3, LeasedFactsOf DEF TaskType, Group
  <1>7. task' \in [Worker -> SUBSET TaskType]
    <2> DEFINE new == {[group |-> [gid |-> GidOf(C, m), token |-> NewToken(C)[m], rows |-> m],
                        stage |-> "queued", at |-> 0] : m \in Leased(C)}
    <2>1. new \in SUBSET TaskType  BY <1>6
    <2>2. task' = [task EXCEPT ![w] = new]  BY <1>1
    <2> HIDE DEF new
    <2> QED  BY <2>1, <2>2 DEF OutboxInv, TypeOK
  <1> QED  BY <1>1, <1>5, <1>7, ClaimEffect DEF OutboxInv, TypeOK

(* Where a row's group comes from after a claim.                           *)
LEMMA ClaimGroups ==
  ASSUME OutboxInv, NEW w \in Worker, NEW L, NEW V, NEW K, NEW F, NEW gid, NEW tok,
         ClaimShape(w, L, V, K, F, gid, tok)
  PROVE  /\ \A m \in K \cup F : m \subseteq V
         /\ \A r \in Row : r \in V => r \in L
         /\ \A m, n \in K \cup F : gid[m] = gid[n] => m = n
         /\ \A r \in Row : SameBirth(r)
         /\ \A r \in Row : \A m \in K \cup F : (row'[r].group = gid[m] <=> r \in m)
         /\ \A r \in Row : row'[r].group # None =>
              (\E m \in K \cup F : r \in m) \/ (r \notin V /\ row'[r].group = row[r].group)
  <1>1. /\ \A m \in K \cup F : m \subseteq V
        /\ \A r \in Row : r \in V => r \in L
    BY DEF ClaimShape, ClaimSets
  <1>2. \A m \in F : gid[m] \notin GidsInUse  BY DEF ClaimShape, ClaimIds
  <1>3. \A m \in K : m # {} /\ m = Members(gid[m]) /\ gid[m] \in GidsInUse
    <2>1. \A m \in K : m # {} /\ m = Members(gid[m])  BY DEF ClaimShape, ClaimIds
    <2> QED  BY <2>1, InUse DEF Members
  <1>4. \A m, n \in K \cup F : gid[m] = gid[n] => m = n
    BY <1>2, <1>3 DEF ClaimShape, ClaimIds
  <1>5. \A r \in Row : \/ r \in L \ V \/ r \in V \ UNION (K \cup F)
                       \/ r \in Row \ L \/ \E m \in K \cup F : r \in m
    BY <1>1
  <1>6. \A r \in Row : SameBirth(r)  BY <1>5 DEF ClaimShape, ClaimRows
  <1>7. \A r \in Row : row'[r].group # None =>
          (\E m \in K \cup F : r \in m) \/ (r \notin V /\ row'[r].group = row[r].group)
    BY <1>1, <1>5 DEF ClaimShape, ClaimRows
  <1>8. \A m \in K \cup F : \A r \in m : row'[r].group = gid[m]  BY DEF ClaimShape, ClaimRows
  <1>9. \A m \in K \cup F : gid[m] # None  BY Constants DEF ClaimShape, ClaimIds
  <1>10. ASSUME NEW r \in Row, NEW m \in K \cup F, row'[r].group = gid[m] PROVE r \in m
    <2>1. CASE \E n \in K \cup F : r \in n
      <3>1. PICK n \in K \cup F : r \in n  BY <2>1
      <3>2. gid[n] = gid[m]  BY <1>8, <1>10, <3>1
      <3> QED  BY <1>4, <3>1, <3>2
    <2>2. CASE row'[r].group = row[r].group
      <3>1. gid[m] \in GidsInUse  BY <1>10, <2>2, InUse
      <3>2. m \in K  BY <1>2, <3>1
      <3> QED  BY <1>3, <1>10, <2>2, <3>2 DEF Members
    <2> QED  BY <1>7, <1>9, <1>10, <2>1, <2>2
  <1> QED  BY <1>1, <1>4, <1>6, <1>7, <1>8, <1>10

LEMMA ClaimTimes ==
  ASSUME OutboxInv, NEW w \in Worker, NEW L, NEW V, NEW K, NEW F, NEW gid, NEW tok,
         ClaimShape(w, L, V, K, F, gid, tok)
  PROVE  Times'
  <1>1. now' = now  BY DEF ClaimShape
  <1> SUFFICES ASSUME NEW r \in Row
               PROVE  /\ row'[r].created <= now
                      /\ Stored(row'[r]) => row'[r].expires = row'[r].created + Ttl[r]
                      /\ ~Stored(row'[r]) => row'[r].group = None
    BY <1>1 DEF Times
  <1>2. SameBirth(r)  BY ClaimGroups
  <1>3. CASE r \in L
    <2>1. Stored(row[r])  BY <1>3 DEF ClaimShape, ClaimSets, Unsettled, Stored
    <2>2. r \in L \ V \/ r \in V \ UNION (K \cup F) \/ \E m \in K \cup F : r \in m
      BY <1>3, ClaimGroups
    <2>3. row'[r].status \in {"DROPPED", "LEASED", "PENDING"}
      BY <2>2 DEF ClaimShape, ClaimRows
    <2> QED  BY <1>2, <2>1, <2>3, RowsOf DEF SameBirth, Stored
  <1>4. CASE r \notin L  BY <1>2, <1>4, RowsOf DEF ClaimShape, ClaimRows, SameBirth
  <1> QED  BY <1>3, <1>4

LEMMA ClaimKin ==
  ASSUME OutboxInv, NEW w \in Worker, NEW L, NEW V, NEW K, NEW F, NEW gid, NEW tok,
         ClaimShape(w, L, V, K, F, gid, tok)
  PROVE  Kin'
  <1> SUFFICES ASSUME NEW r \in Row, NEW s \in Row, row'[r].group # None,
                      row'[r].group = row'[s].group
               PROVE  Owner[r] = Owner[s] /\ row'[r].created < row'[s].expires
    BY DEF Kin, Mate
  <1>1. SameBirth(r) /\ SameBirth(s)  BY ClaimGroups
  <1>2. CASE \E m \in K \cup F : r \in m
    <2>1. PICK m \in K \cup F : r \in m  BY <1>2
    <2>2. s \in m  BY <2>1, ClaimGroups
    <2>3. CASE m \in K
      <3>1. Mate(r, s)  BY <2>1, <2>2, <2>3, Constants DEF ClaimShape, ClaimIds, Members, Mate
      <3> QED  BY <1>1, <3>1 DEF OutboxInv, Kin, SameBirth
    <2>4. CASE m \in F
      <3>1. Owner[r] = Owner[s]  BY <2>1, <2>2, <2>4 DEF ClaimShape, ClaimSets
      <3>2. s \in L  BY <2>1, <2>2, ClaimGroups
      <3>3. row[s].expires > now  BY <3>2 DEF ClaimShape, ClaimSets, Ready
      <3> QED  BY <1>1, <3>1, <3>3, RowsOf DEF SameBirth
    <2> QED  BY <2>3, <2>4
  <1>3. CASE ~\E m \in K \cup F : r \in m
    <2>1. row'[r].group = row[r].group  BY <1>3, ClaimGroups
    <2>2. ~\E m \in K \cup F : s \in m  BY <1>3, ClaimGroups
    <2>3. row'[s].group = row[s].group  BY <2>2, ClaimGroups
    <2>4. Mate(r, s)  BY <2>1, <2>3 DEF Mate
    <2> QED  BY <1>1, <2>4 DEF OutboxInv, Kin, SameBirth
  <1> QED  BY <1>2, <1>3

(* A row that is not taken and not settled by the sweep is as it was.      *)
LEMMA ClaimLeaves ==
  ASSUME NEW w, NEW L, NEW V, NEW K, NEW F, NEW gid, NEW tok,
         ClaimShape(w, L, V, K, F, gid, tok),
         NEW r \in Row, r \notin V, Unsettled(row'[r])
  PROVE  r \notin L /\ row'[r] = row[r]
  <1>1. r \notin L  BY DEF ClaimShape, ClaimRows, Unsettled
  <1> QED  BY <1>1 DEF ClaimShape, ClaimRows

LEMMA ClaimLockstep ==
  ASSUME OutboxInv, NEW w \in Worker, NEW L, NEW V, NEW K, NEW F, NEW gid, NEW tok,
         ClaimShape(w, L, V, K, F, gid, tok)
  PROVE  Lockstep'
  <1>1. now' = now  BY DEF ClaimShape
  <1> SUFFICES ASSUME NEW r \in Row, NEW s \in Row, row'[r].group # None,
                      row'[r].group = row'[s].group,
                      Unsettled(row'[r]), Unsettled(row'[s])
               PROVE  /\ row'[r].status = row'[s].status /\ row'[r].token = row'[s].token
                      /\ row'[r].until = row'[s].until
                      /\ \/ row'[r].next = row'[s].next
                         \/ row'[r].next <= now /\ row'[s].next <= now
    BY <1>1 DEF Lockstep, Mate
  <1>2. CASE \E m \in K \cup F : r \in m
    <2>1. PICK m \in K \cup F : r \in m  BY <1>2
    <2>2. s \in m  BY <2>1, ClaimGroups
    <2>3. r \in L /\ s \in L  BY <2>1, <2>2, ClaimGroups
    <2>4. row[r].next <= now /\ row[s].next <= now  BY <2>3 DEF ClaimShape, ClaimSets, Ready
    <2> QED  BY <2>1, <2>2, <2>4 DEF ClaimShape, ClaimRows
  <1>3. CASE ~\E m \in K \cup F : r \in m
    <2>1. r \notin V /\ row'[r].group = row[r].group  BY <1>3, ClaimGroups
    <2>2. ~\E m \in K \cup F : s \in m  BY <1>3, ClaimGroups
    <2>3. s \notin V /\ row'[s].group = row[s].group  BY <2>2, ClaimGroups
    <2>4. row'[r] = row[r] /\ row'[s] = row[s]  BY <2>1, <2>3, ClaimLeaves
    <2> QED  BY <2>4 DEF OutboxInv, Lockstep, Mate
  <1> QED  BY <1>2, <1>3

(* What is said after a claim: what was, and the groups it leased.  A      *)
(* group it leased again was said with the rows it has now.                *)
LEMMA ClaimSaid ==
  ASSUME OutboxInv, NEW w \in Worker, NEW L, NEW V, NEW K, NEW F, NEW gid, NEW tok,
         ClaimShape(w, L, V, K, F, gid, tok), NEW g \in Gid, NEW R \in SUBSET Row
  PROVE  /\ Said(g, R)' => \/ \E m \in K \cup F : g = gid[m] /\ R = m
                           \/ Said(g, R) /\ \A m \in F : g # gid[m]
         /\ \A m \in K : Said(gid[m], R) => R = m
  <1>0. /\ task \in [Worker -> SUBSET TaskType] /\ wire' = wire
        /\ \A m \in F : gid[m] \notin GidsInUse
    BY DEF OutboxInv, TypeOK, ClaimShape, ClaimIds
  <1>1. ASSUME NEW v \in Worker, NEW k \in task'[v], k.group.gid = g, k.group.rows = R
        PROVE  \/ \E m \in K \cup F : g = gid[m] /\ R = m
               \/ Said(g, R) /\ \A m \in F : g # gid[m]
    <2>1. CASE v = w
      <3>1. PICK m \in K \cup F :
              k = [group |-> [gid |-> gid[m], token |-> tok[m], rows |-> m],
                   stage |-> "queued", at |-> 0]
        BY <1>0, <1>1, <2>1 DEF ClaimShape, ClaimSender
      <3> QED  BY <1>1, <3>1
    <2>2. CASE v # w
      <3>1. k \in task[v]  BY <1>0, <1>1, <2>2 DEF ClaimShape, ClaimSender
      <3> QED  BY <1>0, <1>1, <3>1, InUse DEF Said
    <2> QED  BY <2>1, <2>2
  <1>2. ASSUME NEW q \in wire', q.gid = g, q.rows = R
        PROVE  Said(g, R) /\ \A m \in F : g # gid[m]
    BY <1>0, <1>2, InUse DEF Said
  <1>3. ASSUME NEW a \in accepted', a.gid = g, a.rows = R
        PROVE  Said(g, R) /\ \A m \in F : g # gid[m]
    BY <1>3 DEF Said, ClaimShape, ClaimSender
  <1>4. Said(g, R)' => \/ \E m \in K \cup F : g = gid[m] /\ R = m
                       \/ Said(g, R) /\ \A m \in F : g # gid[m]
    BY <1>1, <1>2, <1>3 DEF Said
  <1>5. ASSUME NEW m \in K, Said(gid[m], R) PROVE R = m
    <2>1. m # {} /\ m = Members(gid[m]) /\ gid[m] \in Gid  BY DEF ClaimShape, ClaimIds
    <2>2. \A r \in m : Alive(r)
      <3>1. \A r \in m : r \in L  BY ClaimGroups, <1>5 DEF ClaimShape, ClaimSets
      <3> QED  BY <3>1 DEF ClaimShape, ClaimSets, Ready, Alive
    <2> QED  BY <1>5, <2>1, <2>2 DEF OutboxInv, WholeGroup
  <1> QED  BY <1>4, <1>5

LEMMA ClaimOneContent ==
  ASSUME OutboxInv, NEW w \in Worker, NEW L, NEW V, NEW K, NEW F, NEW gid, NEW tok,
         ClaimShape(w, L, V, K, F, gid, tok)
  PROVE  OneContent'
  <1> SUFFICES ASSUME NEW g \in Gid, NEW R \in SUBSET Row, NEW S \in SUBSET Row,
                      Said(g, R)', Said(g, S)'
               PROVE  R = S
    BY DEF OneContent
  <1> DEFINE New(T) == \E m \in K \cup F : g = gid[m] /\ T = m
             Old(T) == Said(g, T) /\ \A m \in F : g # gid[m]
  <1>0. \A m, n \in K \cup F : gid[m] = gid[n] => m = n  BY ClaimGroups
  <1>1. (New(R) \/ Old(R)) /\ (New(S) \/ Old(S))  BY ClaimSaid
  <1>2. CASE New(R) /\ New(S)
    <2>1. PICK m \in K \cup F : g = gid[m] /\ R = m  BY <1>2
    <2>2. PICK n \in K \cup F : g = gid[n] /\ S = n  BY <1>2
    <2>3. m = n  BY <1>0, <2>1, <2>2
    <2> QED  BY <2>1, <2>2, <2>3
  <1>3. CASE Old(R) /\ Old(S)  BY <1>3 DEF OutboxInv, OneContent
  <1>4. CASE New(R) /\ Old(S)
    <2>1. PICK m \in K : g = gid[m] /\ R = m  BY <1>4
    <2> QED  BY <1>4, <2>1, ClaimSaid
  <1>5. CASE Old(R) /\ New(S)
    <2>1. PICK m \in K : g = gid[m] /\ S = m  BY <1>5
    <2> QED  BY <1>5, <2>1, ClaimSaid
  <1> QED  BY <1>1, <1>2, <1>3, <1>4, <1>5

(* After a claim a group whose rows can all be sent is still the group that*)
(* was said: what the claim took from a group it took for the group as a   *)
(* whole, or left somebody behind who will never be sent.                  *)
LEMMA ClaimWhole ==
  ASSUME OutboxInv, NEW w \in Worker, NEW L, NEW V, NEW K, NEW F, NEW gid, NEW tok,
         ClaimShape(w, L, V, K, F, gid, tok)
  PROVE  WholeGroup'
  <1>1. now' = now  BY DEF ClaimShape
  <1> SUFFICES ASSUME NEW g \in Gid, NEW R \in SUBSET Row, Said(g, R)', Members(g)' # {},
                      \A r \in Members(g)' : Alive(r)'
               PROVE  Members(g)' = R
    BY DEF WholeGroup
  <1>2. g # None  BY Constants
  <1>3. ASSUME NEW m \in K \cup F, g = gid[m] PROVE Members(g)' = m
    <2>1. \A r \in m : r \in Row  BY DEF ClaimShape, ClaimSets
    <2>2. \A r \in Row : row'[r].group = g <=> r \in m  BY <1>3, ClaimGroups
    <2> QED  BY <2>1, <2>2 DEF Members
  <1>4. CASE \E m \in K \cup F : g = gid[m] /\ R = m  BY <1>3, <1>4
  <1>5. CASE /\ Said(g, R) /\ \A m \in F : g # gid[m]
             /\ \E m \in K : g = gid[m]
    <2>1. PICK m \in K : g = gid[m]  BY <1>5
    <2> QED  BY <1>3, <1>5, <2>1, ClaimSaid
  <1>6. CASE Said(g, R) /\ \A m \in K \cup F : g # gid[m]
    <2>1. \A r \in Row : row'[r].group = g => r \notin V /\ row[r].group = g
      <3> SUFFICES ASSUME NEW r \in Row, row'[r].group = g PROVE r \notin V /\ row[r].group = g
        OBVIOUS
      <3>1. ~\E m \in K \cup F : r \in m  BY <1>6, ClaimGroups
      <3> QED  BY <1>2, <3>1, ClaimGroups
    <2>2. \A r \in Row : row'[r].group = g =>
            r \notin L /\ row'[r] = row[r] /\ Alive(r)
      <3> SUFFICES ASSUME NEW r \in Row, row'[r].group = g
                   PROVE  r \notin L /\ row'[r] = row[r] /\ Alive(r)
        OBVIOUS
      <3>1. Alive(r)'  BY DEF Members
      <3>2. r \notin L /\ row'[r] = row[r]  BY <2>1, <3>1, ClaimLeaves DEF Alive
      <3> QED  BY <1>1, <3>1, <3>2 DEF Alive
    <2>3. PICK s \in Row : row'[s].group = g  BY DEF Members
    <2>4. \A r \in Row : row[r].group = g => r \notin L
      <3> SUFFICES ASSUME NEW r \in Row, row[r].group = g, r \in L PROVE FALSE
        OBVIOUS
      <3>1. Ready(row[r]) /\ Unsettled(row[r])  BY DEF ClaimShape, ClaimSets
      <3>2. row[s].group = g /\ Alive(s) /\ s \notin L /\ row'[s] = row[s]
        BY <2>1, <2>2, <2>3
      <3>3. Mate(r, s) /\ Unsettled(row[s])  BY <1>2, <3>2 DEF Mate, Alive
      <3>4. Owner[r] = Owner[s]  BY <3>3 DEF OutboxInv, Kin
      <3>5. /\ row[r].status = row[s].status /\ row[r].until = row[s].until
            /\ row[r].next = row[s].next \/ (row[r].next <= now /\ row[s].next <= now)
        BY <3>1, <3>3 DEF OutboxInv, Lockstep
      <3>6. Ready(row[s])
        BY <3>1, <3>2, <3>5 DEF Ready, Unsent, LeaseLost, Alive
      <3> QED  BY <3>2, <3>3, <3>4, <3>6 DEF ClaimShape, ClaimRows
    <2>5. \A r \in Row : row[r].group = g => row'[r].group = g
      BY <2>4 DEF ClaimShape, ClaimRows
    <2>6. Members(g)' = Members(g)  BY <2>1, <2>5 DEF Members
    <2>7. \A r \in Members(g) : Alive(r)  BY <2>2, <2>5 DEF Members
    <2> QED  BY <1>6, <2>6, <2>7 DEF OutboxInv, WholeGroup
  <1>7. \/ \E m \in K \cup F : g = gid[m] /\ R = m
        \/ Said(g, R) /\ \A m \in F : g # gid[m]
    BY ClaimSaid
  <1> QED  BY <1>4, <1>5, <1>6, <1>7

LEMMA ClaimLease ==
  ASSUME OutboxInv, NEW w \in Worker, NEW L, NEW V, NEW K, NEW F, NEW gid, NEW tok,
         ClaimShape(w, L, V, K, F, gid, tok)
  PROVE  LeaseHasOneHolder'
  <1>0. task \in [Worker -> SUBSET TaskType]  BY DEF OutboxInv, TypeOK
  <1> DEFINE t(m) == [group |-> [gid |-> gid[m], token |-> tok[m], rows |-> m],
                      stage |-> "queued", at |-> 0]
  <1>1. \A v \in Worker : v # w => task'[v] = task[v]  BY <1>0 DEF ClaimShape, ClaimSender
  <1>2. task'[w] = {t(m) : m \in K \cup F}  BY <1>0 DEF ClaimShape, ClaimSender
  <1>3. /\ \A m \in K \cup F : tok[m] \notin TokensInUse
        /\ \A m, n \in K \cup F : tok[m] = tok[n] => m = n
    BY DEF ClaimShape, ClaimIds
  <1>4. \A m : t(m).group.token = tok[m] /\ t(m).group.gid = gid[m] /\ t(m).group.rows = m
    OBVIOUS
  <1> HIDE DEF t
  <1>5. ASSUME NEW v \in Worker, NEW u \in Worker, NEW j \in task'[v], NEW k \in task'[u],
               j.group.token = k.group.token
        PROVE  v = u /\ j = k
    <2>1. CASE v = w /\ u = w  BY <1>2, <1>3, <1>4, <1>5, <2>1
    <2>2. CASE v = w /\ u # w  BY <1>1, <1>2, <1>3, <1>4, <1>5, <2>2, InUse
    <2>3. CASE v # w /\ u = w  BY <1>1, <1>2, <1>3, <1>4, <1>5, <2>3, InUse
    <2>4. CASE v # w /\ u # w  BY <1>1, <1>5, <2>4 DEF OutboxInv, LeaseHasOneHolder
    <2> QED  BY <2>1, <2>2, <2>3, <2>4
  <1>6. ASSUME NEW v \in Worker, NEW k \in task'[v], NEW r \in Row,
               row'[r].status = "LEASED", row'[r].token = k.group.token,
               row'[r].group = k.group.gid
        PROVE  r \in k.group.rows
    <2>1. CASE v = w
      <3>1. PICK m \in K \cup F : k = t(m)  BY <1>2, <2>1
      <3> QED  BY <1>4, <1>6, <3>1, ClaimGroups
    <2>2. CASE v # w
      <3>1. k \in task[v] /\ k.group.token \in TokensInUse  BY <1>1, <2>2, InUse
      <3>2. ~\E m \in K \cup F : r \in m
        BY <1>3, <1>6, <3>1 DEF ClaimShape, ClaimRows
      <3>3. r \notin V  BY <1>6, <3>2 DEF ClaimShape, ClaimRows
      <3>4. row'[r] = row[r]  BY <1>6, <3>3, ClaimLeaves DEF Unsettled
      <3>5. r \in Held(k.group)  BY <1>6, <3>4 DEF Held
      <3> QED  BY <3>1, <3>5 DEF OutboxInv, LeaseHasOneHolder
    <2> QED  BY <2>1, <2>2
  <1> QED  BY <1>5, <1>6 DEF LeaseHasOneHolder, Held

LEMMA ClaimMoves ==
  ASSUME NEW w, NEW L, NEW V, NEW K, NEW F, NEW gid, NEW tok,
         ClaimShape(w, L, V, K, F, gid, tok), NEW r \in Row
  PROVE  Moved(r)
  <1>1. CASE r \in L
    <2>1. Unsettled(row[r])  BY <1>1 DEF ClaimShape, ClaimSets
    <2>2. r \in L \ V \/ r \in V \ UNION (K \cup F) \/ \E m \in K \cup F : r \in m
      BY <1>1
    <2>3. row'[r].status \in {"DROPPED", "LEASED", "PENDING"}
      BY <2>2 DEF ClaimShape, ClaimRows
    <2> QED  BY <2>1, <2>3 DEF Moved, Unsettled, Terminal
  <1>2. CASE r \notin L  BY <1>2 DEF ClaimShape, ClaimRows
  <1> QED  BY <1>1, <1>2

LEMMA ClaimDelivered ==
  ASSUME OutboxInv, NEW w \in Worker, Claim(w), NEW L, NEW V, NEW K, NEW F, NEW gid, NEW tok,
         ClaimShape(w, L, V, K, F, gid, tok)
  PROVE  Delivered'
  <1>1. copies' = copies /\ accepted' \subseteq accepted
    BY ClaimEffect DEF ClaimShape, ClaimSender
  <1>2. \A r \in Row : row'[r].status = "absent" => row[r].status = "absent"
    BY ClaimMoves DEF Moved, Unsettled, Terminal
  <1>3. \A m \in K \cup F : \A r \in m : r \in Row /\ row'[r].status = "LEASED"
    BY DEF ClaimShape, ClaimSets, ClaimRows
  <1>4. ASSUME NEW g \in Gid, NEW R \in SUBSET Row, Said(g, R)', NEW r \in R
        PROVE  row'[r].status # "absent"
    <2>1. (\E m \in K \cup F : R = m) \/ Said(g, R)  BY <1>4, ClaimSaid
    <2> QED  BY <1>2, <1>3, <1>4, <2>1 DEF OutboxInv, Delivered
  <1> QED  BY <1>1, <1>4 DEF OutboxInv, Delivered

LEMMA ClaimKeeps == ASSUME OutboxInv, NEW w \in Worker, Claim(w) PROVE OutboxInv'
  <1>1. PICK L, V, K, F, gid, tok : ClaimShape(w, L, V, K, F, gid, tok)
    BY ClaimIsShaped
  <1> QED  BY <1>1, ClaimType, ClaimTimes, ClaimKin, ClaimLockstep, ClaimOneContent,
              ClaimWhole, ClaimLease, ClaimDelivered DEF OutboxInv

-----------------------------------------------------------------------------
(***************************************************************************)
(* The theorems.                                                           *)
(***************************************************************************)
LEMMA OutboxInit == Init => OutboxInv
  <1> SUFFICES ASSUME Init PROVE OutboxInv  OBVIOUS
  <1>1. TypeOK  BY OutboxTypeInit
  <1>2. \A r \in Row : row[r] = NoRow  BY DEF Init
  <1>3. NoRow.status = "absent" /\ NoRow.created = 0 /\ NoRow.group = None  BY DEF NoRow
  <1>4. now = 0 /\ wire = {} /\ accepted = {} /\ \A w \in Worker : task[w] = {}
    BY DEF Init
  <1>5. Times  BY <1>2, <1>3, <1>4 DEF Times, Stored
  <1>6. Kin /\ Lockstep  BY <1>2, <1>3 DEF Kin, Lockstep, Mate
  <1>7. OneContent /\ WholeGroup  BY <1>4 DEF OneContent, WholeGroup, Said
  <1>8. LeaseHasOneHolder  BY <1>4 DEF LeaseHasOneHolder
  <1>9. Delivered  BY <1>4 DEF Delivered, Said
  <1> QED  BY <1>1, <1>5, <1>6, <1>7, <1>8, <1>9 DEF OutboxInv

LEMMA OutboxQuiet ==
  ASSUME OutboxInv, Next, ~\E w \in Worker : Claim(w) PROVE QuietGood
  <1>1. CASE Tick \/ Reset  BY <1>1, TickQuiet, ResetQuiet
  <1>2. CASE \E r \in Row : Enqueue(r) \/ Cancel(r)  BY <1>2, EnqueueQuiet, CancelQuiet
  <1>3. CASE \E p \in Player : Allow(p) \/ Deny(p) \/ LoseNation(p)
    BY <1>3, PlayerQuiet
  <1>4. CASE \E w \in Worker : Process(w) \/ Crash(w) \/ Stop(w)
    <2>1. PICK w \in Worker : Process(w) \/ Crash(w) \/ Stop(w)  BY <1>4
    <2>2. CASE Start(w) \/ Janitor(w) \/ Crash(w) \/ Stop(w)
      BY <2>2, StartQuiet, JanitorQuiet, CrashQuiet, StopQuiet
    <2>3. CASE \E k \in task[w] :
                 \/ Skip(w, k) \/ Recheck(w, k) \/ Send(w, k)
                 \/ RecordSent(w, k) \/ RecordRetry(w, k) \/ RecordConsentLost(w, k)
                 \/ RecordAuth(w, k) \/ RecordBad(w, k)
      <3>1. PICK k \in task[w] :
                 \/ Skip(w, k) \/ Recheck(w, k) \/ Send(w, k)
                 \/ RecordSent(w, k) \/ RecordRetry(w, k) \/ RecordConsentLost(w, k)
                 \/ RecordAuth(w, k) \/ RecordBad(w, k)
        BY <2>3
      <3> QED  BY <3>1, SkipQuiet, RecheckQuiet, SendQuiet, RecordSentQuiet,
                  RecordRetryQuiet, RecordConsentLostQuiet, RecordAuthQuiet, RecordBadQuiet
    <2> QED  BY <2>1, <2>2, <2>3 DEF Process
  <1>5. CASE \E g \in wire : VkAccept(g) \/ VkLose(g)  BY <1>5, VkQuiet
  <1> QED  BY <1>1, <1>2, <1>3, <1>4, <1>5 DEF Next

LEMMA OutboxNext == OutboxInv /\ [Next]_vars => OutboxInv'
  <1> SUFFICES ASSUME OutboxInv, [Next]_vars PROVE OutboxInv'  OBVIOUS
  <1>1. CASE \E w \in Worker : Claim(w)  BY <1>1, ClaimKeeps
  <1>2. CASE Next /\ ~\E w \in Worker : Claim(w)
    BY <1>2, OutboxQuiet, QuietStep DEF QuietGood
  <1>3. CASE UNCHANGED vars
    <2> USE <1>3 DEF vars, queueVars, senderVars, vkVars
    <2>1. TypeOK' /\ Times' /\ Kin'  BY DEF OutboxInv, TypeOK, Times, Kin, Mate
    <2>2. Lockstep'  BY DEF OutboxInv, Lockstep, Mate
    <2>3. OneContent'  BY DEF OutboxInv, OneContent, Said
    <2>7. \A g \in Gid : /\ Members(g)' = Members(g)
                        /\ \A R \in SUBSET Row : Said(g, R)' <=> Said(g, R)
      BY DEF Members, Said
    <2>8. \A r \in Row : Alive(r)' <=> Alive(r)  BY DEF Alive
    <2>4. WholeGroup'  BY <2>7, <2>8 DEF OutboxInv, WholeGroup, Members
    <2>5. LeaseHasOneHolder'  BY DEF OutboxInv, LeaseHasOneHolder, Held
    <2>6. Delivered'  BY DEF OutboxInv, Delivered, Said
    <2> QED  BY <2>1, <2>2, <2>3, <2>4, <2>5, <2>6 DEF OutboxInv
  <1> QED  BY <1>1, <1>2, <1>3

THEOREM OutboxInvariant == Spec => []OutboxInv
  BY OutboxInit, OutboxNext, PTL DEF Spec

(* Every row of bot_outbox, task of a sender and message of a chat keeps   *)
(* its shape, whatever the sender, VK and the administrators do.           *)
THEOREM OutboxTypeCorrect == Spec => []TypeOK
  <1>1. OutboxInv => TypeOK  BY DEF OutboxInv
  <1> QED  BY <1>1, OutboxInvariant, PTL

(* A lease has one holder, for any number of processes, crashes and lost   *)
(* leases: no two senders ever write the same row.                         *)
THEOREM LeaseIsExclusive == Spec => []LeaseHasOneHolder
  <1>1. OutboxInv => LeaseHasOneHolder  BY DEF OutboxInv
  <1> QED  BY <1>1, OutboxInvariant, PTL

(* INV-B6: whatever crashes, retries and returns there are, a random_id is *)
(* never sent with two different sets of rows.                             *)
THEOREM RandomIdIsContent == Spec => []OneContentPerRandomId
  <1>1. OutboxInv => OneContentPerRandomId
    <2> SUFFICES ASSUME OutboxInv PROVE OneContentPerRandomId  OBVIOUS
    <2> DEFINE out == {[gid |-> g.gid, rows |-> g.rows] : g \in wire} \cup accepted
    <2>1. \A a \in out : Said(a.gid, a.rows) /\ a.gid \in Gid /\ a.rows \in SUBSET Row
      BY DEF OutboxInv, TypeOK, Said, Group
    <2>2. \A a, b \in out : a.gid = b.gid => a.rows = b.rows
      BY <2>1 DEF OutboxInv, OneContent
    <2> QED  BY <2>2 DEF OneContentPerRandomId
  <1> QED  BY <1>1, OutboxInvariant, PTL

(* INV-B3: a notification of a player without consent is leased by no step:*)
(* it goes out at most under a lease taken before.                         *)
THEOREM DeniedStaysUnleased == Spec => DeniedIsNeverLeased
  <1> DEFINE Denied(r) == Notification(r) /\ consent[Owner[r]] # "ALLOWED"
                          /\ row'[r].status = "LEASED"
                          => row[r].status = "LEASED" /\ row'[r].token = row[r].token
  <1>1. OutboxInv /\ [Next]_vars => [\A r \in Row : Denied(r)]_vars
    <2> SUFFICES ASSUME OutboxInv, Next, NEW r \in Row PROVE Denied(r)  OBVIOUS
    <2>1. CASE ~\E w \in Worker : Claim(w)
      <3>1. QuietRow(r)  BY <2>1, OutboxQuiet DEF QuietGood, Quiet, QuietRows
      <3> QED  BY <3>1 DEF QuietRow
    <2>2. CASE \E w \in Worker : Claim(w)
      <3>1. PICK w \in Worker : Claim(w)  BY <2>2
      <3>2. PICK L, V, K, F, gid, tok : ClaimShape(w, L, V, K, F, gid, tok)
        BY <3>1, ClaimIsShaped
      <3>3. CASE r \in V
        <4>1. Welcome(r)  BY <3>2, <3>3 DEF ClaimShape, ClaimSets
        <4> QED  BY <4>1 DEF Welcome
      <3>4. CASE r \notin V  BY <3>2, <3>4, ClaimLeaves DEF Unsettled
      <3> QED  BY <3>3, <3>4
    <2> QED  BY <2>1, <2>2
  <1> QED  BY <1>1, OutboxInvariant, PTL DEF Spec, DeniedIsNeverLeased


-----------------------------------------------------------------------------
(***************************************************************************)
(* The queue is a mailbox.                                                 *)
(***************************************************************************)
arrived == {r \in Row : copies[r] > 0}

LEMMA StepMoves == ASSUME OutboxInv, Next, NEW r \in Row PROVE Moved(r)
  <1>1. CASE ~\E w \in Worker : Claim(w)
    BY <1>1, OutboxQuiet DEF QuietGood, Quiet, QuietRows, QuietRow
  <1>2. CASE \E w \in Worker : Claim(w)
    <2>1. PICK w \in Worker : Claim(w)  BY <1>2
    <2>2. PICK L, V, K, F, gid, tok : ClaimShape(w, L, V, K, F, gid, tok)
      BY <2>1, ClaimIsShaped
    <2> QED  BY <2>2, ClaimMoves
  <1> QED  BY <1>1, <1>2

LEMMA MovedFate ==
  ASSUME OutboxInv, TypeOK', NEW r \in Row, Moved(r)
  PROVE  /\ Fate(row'[r]) \in {"absent", "QUEUED", "deleted"} \cup Box!Settled
         /\ \/ Fate(row'[r]) = Fate(row[r])
            \/ Fate(row[r]) = "absent" /\ Fate(row'[r]) = "QUEUED"
            \/ /\ Fate(row[r]) = "QUEUED" /\ Fate(row'[r]) \in Box!Settled
               /\ Fate(row'[r]) = "SENT" => r \in arrived
            \/ Fate(row'[r]) = "deleted"
  <1>1. row[r].status \in Statuses /\ row'[r].status \in Statuses
    BY DEF OutboxInv, TypeOK, RowType
  <1> QED
    BY <1>1 DEF Moved, Fate, Unsettled, Statuses, Terminal, Box!Settled, arrived

(* What is written in the chat is only VK's to write.                      *)
LEMMA ChatStays ==
  ASSUME Next, ~\E g \in wire : VkAccept(g)
  PROVE  copies' = copies /\ (accepted' = accepted \/ \E w \in Worker : Claim(w))
  <1> DEFINE Stays == copies' = copies /\ accepted' = accepted
  <1>1. ASSUME NEW w \in Worker, Process(w) \/ Crash(w) \/ Stop(w) PROVE copies' = copies /\ (accepted' = accepted \/ Claim(w))
    <2>1. Claim(w) => copies' = copies  BY ClaimEffect
    <2>2. Start(w) \/ Janitor(w) \/ Crash(w) \/ Stop(w) => Stays
      BY DEF Start, Janitor, Crash, Stop, vkVars
    <2>3. ASSUME NEW k \in task[w] PROVE Skip(w, k) \/ Recheck(w, k) \/ Send(w, k) => Stays
      BY DEF Skip, Recheck, Send, vkVars
    <2>4. ASSUME NEW k \in task[w] PROVE RecordSent(w, k) \/ RecordRetry(w, k) => Stays
      BY DEF RecordSent, RecordRetry, vkVars
    <2>5. ASSUME NEW k \in task[w]
          PROVE  RecordConsentLost(w, k) \/ RecordAuth(w, k) \/ RecordBad(w, k) => Stays
      BY DEF RecordConsentLost, RecordAuth, RecordBad
    <2> QED  BY <1>1, <2>1, <2>2, <2>3, <2>4, <2>5 DEF Process
  <1>2. Tick \/ Reset => Stays  BY DEF Tick, Reset, vkVars
  <1>3. \A r \in Row : Enqueue(r) \/ Cancel(r) => Stays
    BY DEF Enqueue, Cancel, vkVars
  <1>4. \A p \in Player : Allow(p) \/ Deny(p) \/ LoseNation(p) => Stays
    BY DEF Allow, Deny, LoseNation, vkVars
  <1>5. \A g \in wire : VkLose(g) => Stays  BY DEF VkLose
  <1> QED  BY <1>1, <1>2, <1>3, <1>4, <1>5 DEF Next

(* An event is settled once and for good, SENT only when its message has   *)
(* reached the chat, and nothing deleted or settled is queued again.       *)
THEOREM FatesMoveOn == Spec => [][\A r \in Row : Box!Move(r)]_vars
  <1>1. OutboxInv /\ OutboxInv' /\ [Next]_vars => [\A r \in Row : Box!Move(r)]_vars
    <2> SUFFICES ASSUME OutboxInv, OutboxInv', Next, NEW r \in Row PROVE Box!Move(r)
      OBVIOUS
    <2>1. TypeOK' /\ Moved(r)  BY StepMoves DEF OutboxInv
    <2> QED  BY <2>1, MovedFate DEF Box!Move, arrived
  <1> QED  BY <1>1, OutboxInvariant, PTL DEF Spec

(* As long as no event is delivered twice, the queue is a Mailbox: all the *)
(* rest of the Mailbox's promise holds without conditions.                 *)
THEOREM OutboxIsMailbox == Spec /\ []DeliveredOnce => IsMailbox
  <1>1. Init => Box!Init
    <2> SUFFICES ASSUME Init PROVE Box!Init  OBVIOUS
    <2>1. NoRow.status = "absent"  BY DEF NoRow
    <2>2. \A r \in Row : Fate(row[r]) = "absent" /\ copies[r] = 0  BY <2>1 DEF Init, Fate
    <2> QED  BY <2>2 DEF Box!Init
  <1>2. OutboxInv /\ OutboxInv' /\ DeliveredOnce' /\ [Next]_vars => [Box!Next]_(Box!vars)
    <2> SUFFICES ASSUME OutboxInv, OutboxInv', DeliveredOnce', [Next]_vars
                 PROVE  [Box!Next]_(Box!vars)
      OBVIOUS
    <2>1. CASE Next /\ ~\E g \in wire : VkAccept(g)
      <3>1. copies' = copies  BY <2>1, ChatStays
      <3>2. \A r \in Row : Moved(r)  BY <2>1, StepMoves
      <3>3. TypeOK'  BY DEF OutboxInv
      <3>4. Box!Step  BY <3>1, <3>2, <3>3, MovedFate DEF Box!Step, Box!Move, arrived
      <3> QED  BY <3>4 DEF Box!Next
    <2>2. CASE \E g \in wire : VkAccept(g)
      <3>1. PICK g \in wire : VkAccept(g)  BY <2>2
      <3>2. row' = row  BY <3>1 DEF VkAccept, queueVars
      <3>3. g.gid \in Gid /\ g.rows \in SUBSET Row  BY DEF OutboxInv, TypeOK, Group
      <3>4. CASE copies' = copies  BY <3>2, <3>4 DEF Box!vars
      <3>5. CASE copies' = [r \in Row |-> IF r \in g.rows THEN copies[r] + 1 ELSE copies[r]]
        <4>1. \A r \in Row : copies[r] \in Nat /\ copies'[r] <= 1
          BY DEF OutboxInv, TypeOK, DeliveredOnce
        <4>2. \A r \in g.rows : copies[r] = 0 /\ copies'[r] = 1
          BY <3>3, <3>5, <4>1
        <4>3. \A r \in Row \ g.rows : copies'[r] = copies[r]  BY <3>5
        <4>4. arrived' = arrived \cup g.rows /\ g.rows \cap arrived = {}
          BY <3>3, <4>2, <4>3 DEF arrived
        <4>5. Said(g.gid, g.rows)  BY DEF Said
        <4>6. \A r \in g.rows : Fate(row[r]) # "absent"
          BY <3>3, <4>5 DEF OutboxInv, Delivered, Fate
        <4>7. CASE g.rows = {}
          BY <3>2, <4>4, <4>7 DEF Box!vars, arrived
        <4>8. CASE g.rows # {}
          <5>1. Box!Arrive(g.rows)
            BY <3>2, <3>3, <4>4, <4>6, <4>8 DEF Box!Arrive, arrived
          <5> QED  BY <3>3, <5>1 DEF Box!Next
        <4> QED  BY <4>7, <4>8
      <3> QED  BY <3>1, <3>4, <3>5 DEF VkAccept
    <2>3. CASE UNCHANGED vars
      BY <2>3 DEF vars, queueVars, vkVars, Box!vars
    <2> QED  BY <2>1, <2>2, <2>3
  <1> QED  BY <1>1, <1>2, OutboxInvariant, PTL DEF Spec, IsMailbox, Box!Spec

-----------------------------------------------------------------------------
(***************************************************************************)
(* What is never put into one message with another event is delivered once.*)
(* Its group is all its own and never dissolved, so whatever may still go  *)
(* out for it goes out under one random_id (OneRandomId), which VK knows   *)
(* if it has reached the chat.                                             *)
(***************************************************************************)

(* A request with row r and the random_id g is claimed or under way.       *)
Carried(g, r) == \/ \E w \in Worker : \E k \in task[w] : k.group.gid = g /\ r \in k.group.rows
                 \/ \E q \in wire : q.gid = g /\ r \in q.rows
Open(g, r) == Carried(g, r) \/ (Unsettled(row[r]) /\ row[r].group = g)
InChat(g)  == \E a \in accepted : a.gid = g

Apart(r) ==
  /\ \A g \in Gid : \A R \in SUBSET Row : Said(g, R) /\ r \in R => R = {r}
  /\ row[r].group # None => Members(row[r].group) = {r}
OneRandomId(r) == \A g, h \in Gid : Open(g, r) /\ Open(h, r) => g = h
Counted(r) ==
  /\ copies[r] <= 1
  /\ row[r].status = "absent" => copies[r] = 0
  /\ \A g \in Gid : Open(g, r) /\ copies[r] = 1 => InChat(g)
  /\ Unsettled(row[r]) /\ row[r].group = None =>
       copies[r] = 0 /\ \A g \in Gid : ~Carried(g, r)

AloneInv == \A r \in Row : Alone(r) => Apart(r) /\ OneRandomId(r) /\ Counted(r)

LEMMA CarriedSaid ==
  ASSUME OutboxInv, NEW r \in Row, NEW g \in Gid, Carried(g, r)
  PROVE  g \in GidsInUse /\ row[r].status # "absent" /\ \E R \in SUBSET Row : Said(g, R) /\ r \in R
  <1>1. CASE \E w \in Worker : \E k \in task[w] : k.group.gid = g /\ r \in k.group.rows
    <2>0. PICK w \in Worker : \E k \in task[w] : k.group.gid = g /\ r \in k.group.rows  BY <1>1
    <2>1. PICK k \in task[w] : k.group.gid = g /\ r \in k.group.rows  BY <2>0
    <2>2. k.group.rows \in SUBSET Row  BY <2>1, TaskKnown DEF Group
    <2>3. Said(g, k.group.rows)  BY <2>1 DEF Said
    <2> QED  BY <2>1, <2>2, <2>3, InUse DEF OutboxInv, Delivered
  <1>2. CASE \E q \in wire : q.gid = g /\ r \in q.rows
    <2>1. PICK q \in wire : q.gid = g /\ r \in q.rows  BY <1>2
    <2>2. q.rows \in SUBSET Row  BY DEF OutboxInv, TypeOK, Group
    <2>3. Said(g, q.rows)  BY <2>1 DEF Said
    <2> QED  BY <2>1, <2>2, <2>3, InUse DEF OutboxInv, Delivered
  <1> QED  BY <1>1, <1>2 DEF Carried

(* A quiet step that writes nothing into the chat.                         *)
LEMMA AloneQuiet ==
  ASSUME OutboxInv, AloneInv, Quiet, TypeOK', copies' = copies, accepted' = accepted,
         NEW r \in Row, Alone(r)
  PROVE  (Apart(r) /\ OneRandomId(r) /\ Counted(r))'
  <1>0. /\ Apart(r) /\ OneRandomId(r) /\ Counted(r)  BY DEF AloneInv
  <1>1. QuietSender /\ QuietRows /\ QuietRow(r) /\ \A s \in Row : QuietRow(s)
    BY DEF Quiet, QuietRows
  <1>2. Apart(r)'
    <2>1. ASSUME NEW g \in Gid, NEW R \in SUBSET Row, Said(g, R)', r \in R PROVE R = {r}
      BY <1>0, <1>1, <2>1, QuietSaid DEF Apart
    <2>2. ASSUME row'[r].group # None PROVE {s \in Row : row'[s].group = row'[r].group} = {r}
      <3>1. row'[r].group = row[r].group  BY <1>1, <2>2 DEF QuietRow
      <3>2. \A s \in Row : row'[s].group = row[r].group => row[s].group = row[r].group
        BY <1>1, <2>2, <3>1 DEF QuietRow
      <3>3. Members(row[r].group) = {r}  BY <1>0, <2>2, <3>1 DEF Apart
      <3> QED  BY <3>1, <3>2, <3>3 DEF Members
    <2> QED  BY <2>1, <2>2 DEF Apart, Members
  <1>3. \A g \in Gid : Carried(g, r)' => Carried(g, r)
    <2> SUFFICES ASSUME NEW g \in Gid, Carried(g, r)' PROVE Carried(g, r)  OBVIOUS
    <2>1. CASE \E w \in Worker : \E k \in task'[w] : k.group.gid = g /\ r \in k.group.rows
      <3>0. PICK w \in Worker : \E k \in task'[w] : k.group.gid = g /\ r \in k.group.rows  BY <2>1
      <3>1. PICK k \in task'[w] : k.group.gid = g /\ r \in k.group.rows  BY <3>0
      <3>2. PICK j \in task[w] : j.group = k.group  BY <1>1, <3>1 DEF QuietSender
      <3> QED  BY <3>1, <3>2 DEF Carried
    <2>2. CASE \E q \in wire' : q.gid = g /\ r \in q.rows
      BY <1>1, <2>2 DEF QuietSender, Carried
    <2> QED  BY <2>1, <2>2 DEF Carried
  <1>4. \A g \in Gid : g # None  BY Constants
  <1>5. \A g \in Gid : Open(g, r)' => Open(g, r)
    <2> SUFFICES ASSUME NEW g \in Gid, Open(g, r)' PROVE Open(g, r)  OBVIOUS
    <2>1. CASE Carried(g, r)'  BY <1>3, <2>1 DEF Open
    <2>2. CASE Unsettled(row'[r]) /\ row'[r].group = g
      BY <1>1, <1>4, <2>2 DEF QuietRow, Open
    <2> QED  BY <2>1, <2>2 DEF Open
  <1>6. OneRandomId(r)'  BY <1>0, <1>5 DEF OneRandomId
  <1>7. row'[r].status = "absent" => row[r].status = "absent"
    BY <1>1 DEF QuietRow, Moved, Unsettled, Terminal
  <1>8. ASSUME Unsettled(row'[r]), row'[r].group = None
        PROVE  copies[r] = 0 /\ \A g \in Gid : ~Carried(g, r)'
    <2>1. Unsettled(row[r]) \/ row[r].status = "absent"
      BY <1>1, <1>8 DEF QuietRow, Moved, Unsettled, Terminal
    <2>2. CASE row[r].status = "absent"
      BY <1>0, <1>3, <2>2, CarriedSaid DEF Counted
    <2>3. CASE Unsettled(row[r]) /\ row[r].group = None
      BY <1>0, <1>3, <2>3 DEF Counted
    <2>4. CASE row[r].group # None
      <3>1. \E s \in Row \ {r} : Mate(r, s)  BY <1>1, <1>8, <2>4 DEF QuietRows, Left
      <3>2. Members(row[r].group) = {r}  BY <1>0, <2>4 DEF Apart
      <3> QED  BY <3>1, <3>2 DEF Mate, Members
    <2> QED  BY <2>1, <2>2, <2>3, <2>4
  <1>9. \A g \in Gid : InChat(g)' <=> InChat(g)  BY DEF InChat
  <1>10. Counted(r)'
    <2>1. \A g \in Gid : Open(g, r)' /\ copies[r] = 1 => InChat(g)'
      BY <1>0, <1>5, <1>9 DEF Counted
    <2> QED  BY <1>0, <1>7, <1>8, <2>1 DEF Counted
  <1> QED  BY <1>2, <1>6, <1>10

(* VK puts a message into the chat: only one whose random_id it does not   *)
(* know, and whoever is in the chat already is known by the one random_id. *)
LEMMA AloneAccept ==
  ASSUME OutboxInv, AloneInv, NEW q \in wire, VkAccept(q), NEW r \in Row, Alone(r)
  PROVE  (Apart(r) /\ OneRandomId(r) /\ Counted(r))'
  <1>0. Apart(r) /\ OneRandomId(r) /\ Counted(r)  BY DEF AloneInv
  <1>1. row' = row /\ task' = task /\ wire' = wire \ {q}
    BY DEF VkAccept, queueVars, senderVars
  <1>2. q.gid \in Gid /\ q.rows \in SUBSET Row  BY DEF OutboxInv, TypeOK, Group
  <1>3. QuietSender  BY VkQuiet DEF QuietGood, Quiet
  <1>4. Apart(r)'
    <2>1. \A g \in Gid : \A R \in SUBSET Row : Said(g, R)' => Said(g, R)  BY <1>3, QuietSaid
    <2> QED  BY <1>0, <1>1, <2>1 DEF Apart, Members
  <1>5. \A g \in Gid : Carried(g, r)' => Carried(g, r)  BY <1>1 DEF Carried
  <1>6. \A g \in Gid : Open(g, r)' => Open(g, r)  BY <1>1, <1>5 DEF Open
  <1>7. OneRandomId(r)'  BY <1>0, <1>6 DEF OneRandomId
  <1>8. \A g \in Gid : InChat(g) => InChat(g)'  BY DEF InChat, VkAccept
  <1>9. CASE copies'[r] = copies[r]
    <2>1. \A g \in Gid : Open(g, r)' /\ copies[r] = 1 => InChat(g)'
      BY <1>0, <1>6, <1>8 DEF Counted
    <2> QED  BY <1>0, <1>1, <1>4, <1>5, <1>7, <1>9, <2>1 DEF Counted
  <1>10. CASE copies'[r] # copies[r]
    <2>1. /\ ~InChat(q.gid) /\ r \in q.rows /\ copies'[r] = copies[r] + 1
          /\ accepted' = accepted \cup {[gid |-> q.gid, rows |-> q.rows]}
      BY <1>10 DEF VkAccept, InChat, OutboxInv, TypeOK
    <2>2. Carried(q.gid, r) /\ Open(q.gid, r)  BY <2>1 DEF Carried, Open
    <2>3. copies[r] \in Nat  BY DEF OutboxInv, TypeOK
    <2>4. copies[r] = 0 /\ copies'[r] = 1
      BY <1>0, <1>2, <2>1, <2>2, <2>3 DEF Counted
    <2>5. InChat(q.gid)'
      <3> DEFINE e == [gid |-> q.gid, rows |-> q.rows]
      <3>1. e \in accepted' /\ e.gid = q.gid  BY <2>1
      <3> HIDE DEF e
      <3> QED  BY <3>1 DEF InChat
    <2>6. \A g \in Gid : Open(g, r)' => g = q.gid
      BY <1>0, <1>2, <1>6, <2>2 DEF OneRandomId
    <2>7. row[r].status # "absent"  BY <1>2, <2>2, CarriedSaid
    <2>8. ~(Unsettled(row[r]) /\ row[r].group = None)  BY <1>0, <1>2, <2>2 DEF Counted
    <2>9. Counted(r)'  BY <1>1, <2>4, <2>5, <2>6, <2>7, <2>8 DEF Counted
    <2> QED  BY <1>4, <1>7, <2>9
  <1> QED  BY <1>9, <1>10

(* A claim leases the group of such a row again or makes the first for it. *)
LEMMA AloneClaim ==
  ASSUME OutboxInv, AloneInv, NEW w \in Worker, Claim(w), NEW L, NEW V, NEW K, NEW F,
         NEW gid, NEW tok, ClaimShape(w, L, V, K, F, gid, tok), NEW r \in Row, Alone(r)
  PROVE  (Apart(r) /\ OneRandomId(r) /\ Counted(r))'
  <1>0. Apart(r) /\ OneRandomId(r) /\ Counted(r)  BY DEF AloneInv
  <1>1. /\ task \in [Worker -> SUBSET TaskType] /\ wire' = wire /\ copies' = copies
        /\ \A m \in F : gid[m] \notin GidsInUse
        /\ \A m \in K \cup F : gid[m] \in Gid /\ m \subseteq V /\ m \subseteq Row
        /\ V \subseteq L /\ L \subseteq Row
    BY ClaimEffect DEF OutboxInv, TypeOK, ClaimShape, ClaimIds, ClaimSets
  <1>2. \A g \in GidsInUse : InChat(g) => InChat(g)'
    BY <1>1 DEF InChat, ClaimShape, ClaimSender
  <1>3. \A m \in K \cup F : r \in m => m = {r}
    <2>1. ASSUME NEW m \in K, r \in m PROVE m = {r}
      <3>1. m = Members(gid[m]) /\ gid[m] \in Gid  BY DEF ClaimShape, ClaimIds
      <3>2. row[r].group = gid[m] /\ gid[m] # None  BY <2>1, <3>1, Constants DEF Members
      <3> QED  BY <1>0, <3>1, <3>2 DEF Apart
    <2>2. ASSUME NEW m \in F, r \in m PROVE m = {r}
      <3> SUFFICES ASSUME NEW s \in m, s # r PROVE FALSE  BY <2>2
      <3>1. Owner[s] = Owner[r] /\ Capped(r) /\ Capped(s)
        BY <2>2 DEF ClaimShape, ClaimSets
      <3>2. s \in Row  BY <1>1
      <3> QED  BY <3>1, <3>2 DEF Alone
    <2> QED  BY <2>1, <2>2
  <1>4. ASSUME NEW g \in Gid, Carried(g, r)'
        PROVE  Carried(g, r) \/ \E m \in K \cup F : r \in m /\ g = gid[m]
    <2>1. CASE \E q \in wire' : q.gid = g /\ r \in q.rows  BY <1>1, <2>1 DEF Carried
    <2>2. CASE \E v \in Worker : \E k \in task'[v] : k.group.gid = g /\ r \in k.group.rows
      <3>0. PICK v \in Worker : \E k \in task'[v] : k.group.gid = g /\ r \in k.group.rows  BY <2>2
      <3>1. PICK k \in task'[v] : k.group.gid = g /\ r \in k.group.rows  BY <3>0
      <3>2. CASE v # w
        BY <1>1, <3>1, <3>2 DEF ClaimShape, ClaimSender, Carried
      <3>3. CASE v = w
        <4>1. PICK m \in K \cup F :
                k = [group |-> [gid |-> gid[m], token |-> tok[m], rows |-> m],
                     stage |-> "queued", at |-> 0]
          BY <1>1, <3>1, <3>3 DEF ClaimShape, ClaimSender
        <4> QED  BY <3>1, <4>1
      <3> QED  BY <3>2, <3>3
    <2> QED  BY <1>4, <2>1, <2>2 DEF Carried
  <1>5. \A g \in Gid : g # None  BY Constants
  <1>6. ASSUME NEW g \in Gid, NEW R \in SUBSET Row, Said(g, R)', r \in R PROVE R = {r}
    <2>1. Said(g, R) \/ \E m \in K \cup F : R = m  BY <1>6, ClaimSaid
    <2> QED  BY <1>0, <1>3, <1>6, <2>1 DEF Apart
  <1>7. ASSUME row'[r].group # None PROVE {s \in Row : row'[s].group = row'[r].group} = {r}
    <2>1. CASE \E m \in K \cup F : r \in m
      <3>1. PICK m \in K \cup F : r \in m  BY <2>1
      <3>2. row'[r].group = gid[m]  BY <3>1, ClaimGroups
      <3>3. \A s \in Row : row'[s].group = gid[m] <=> s \in m  BY <3>1, ClaimGroups
      <3> QED  BY <1>3, <3>1, <3>2, <3>3 DEF Members
    <2>2. CASE ~\E m \in K \cup F : r \in m
      <3>1. row'[r].group = row[r].group  BY <1>7, <2>2, ClaimGroups
      <3>2. Members(row[r].group) = {r}  BY <1>0, <1>7, <3>1 DEF Apart
      <3>3. ASSUME NEW s \in Row, row'[s].group = row'[r].group PROVE s = r
        <4>1. ~\E m \in K \cup F : s \in m
          BY <2>2, <3>3, ClaimGroups
        <4>2. row'[s].group = row[s].group  BY <1>7, <3>3, <4>1, ClaimGroups
        <4> QED  BY <3>1, <3>2, <3>3, <4>2 DEF Members
      <3> QED  BY <3>3 DEF Members
    <2> QED  BY <2>1, <2>2
  <1>8. Apart(r)'  BY <1>6, <1>7 DEF Apart, Members
  <1>9. ASSUME row'[r].status = "absent" PROVE copies[r] = 0
    <2>1. row[r].status = "absent"  BY <1>9, ClaimMoves DEF Moved, Unsettled, Terminal
    <2> QED  BY <1>0, <2>1 DEF Counted
  <1>10. CASE \E m \in K \cup F : r \in m
    <2>1. PICK m \in K \cup F : r \in m  BY <1>10
    <2>2. \A n \in K \cup F : r \in n => n = m  BY <1>3, <2>1
    <2>3. r \in V /\ r \in L /\ Unsettled(row[r])  BY <1>1, <2>1 DEF ClaimShape, ClaimSets
    <2>4. row'[r].group = gid[m] /\ gid[m] # None  BY <1>1, <1>5, <2>1, ClaimGroups
    <2>5. CASE m \in K
      <3>1. row[r].group = gid[m]  BY <2>1, <2>5 DEF ClaimShape, ClaimIds, Members
      <3>2. gid[m] \in GidsInUse  BY <3>1, InUse
      <3>3. \A g \in Gid : Open(g, r)' => Open(g, r)
        BY <1>4, <2>2, <2>3, <2>4, <3>1 DEF Open
      <3>4. \A g \in Gid : Open(g, r) => g = gid[m]
        BY <1>0, <1>1, <2>3, <3>1 DEF OneRandomId, Open
      <3>5. \A g \in Gid : Open(g, r)' /\ copies[r] = 1 => InChat(g)'
        BY <1>0, <1>2, <3>2, <3>3, <3>4 DEF Counted
      <3>6. OneRandomId(r)'  BY <3>3, <3>4 DEF OneRandomId
      <3>7. Counted(r)'  BY <1>0, <1>1, <1>9, <2>4, <3>5 DEF Counted
      <3> QED  BY <1>8, <3>6, <3>7
    <2>6. CASE m \in F
      <3>1. row[r].group = None
        <4> SUFFICES ASSUME row[r].group # None PROVE FALSE  OBVIOUS
        <4>1. Members(row[r].group) \subseteq V  BY <1>0, <2>3 DEF Apart
        <4>2. r \in UNION K  BY <2>3, <4>1 DEF ClaimShape, ClaimSets
        <4>3. m \in K  BY <2>2, <4>2
        <4>4. m = Members(gid[m])  BY <4>3 DEF ClaimShape, ClaimIds
        <4>5. row[r].group = gid[m]  BY <2>1, <4>4 DEF Members
        <4> QED  BY <1>1, <2>6, <4>5, InUse
      <3>2. copies[r] = 0 /\ \A g \in Gid : ~Carried(g, r)  BY <1>0, <2>3, <3>1 DEF Counted
      <3>3. \A g \in Gid : Open(g, r)' => g = gid[m]
        BY <1>4, <2>2, <2>4, <3>2 DEF Open
      <3>4. OneRandomId(r)'  BY <3>3 DEF OneRandomId
      <3>5. Counted(r)'  BY <1>1, <2>4, <3>2 DEF Counted
      <3> QED  BY <1>8, <3>4, <3>5
    <2> QED  BY <2>1, <2>5, <2>6
  <1>11. CASE ~\E m \in K \cup F : r \in m
    <2>1. \A g \in Gid : Carried(g, r)' => Carried(g, r)  BY <1>4, <1>11
    <2>2. ASSUME Unsettled(row'[r]) PROVE Unsettled(row[r]) /\ row'[r].group = row[r].group
      <3>1. CASE r \in V
        <4>1. row'[r].group = None /\ Unsettled(row[r])
          BY <1>1, <1>11, <3>1 DEF ClaimShape, ClaimRows, ClaimSets
        <4>2. ASSUME row[r].group # None PROVE FALSE
          <5>1. Members(row[r].group) \subseteq V  BY <1>0, <3>1, <4>2 DEF Apart
          <5>2. r \in UNION K  BY <3>1, <4>2, <5>1 DEF ClaimShape, ClaimSets
          <5> QED  BY <1>11, <5>2
        <4> QED  BY <4>1, <4>2
      <3>2. CASE r \notin V  BY <2>2, <3>2, ClaimLeaves
      <3> QED  BY <3>1, <3>2
    <2>3. \A g \in Gid : Open(g, r)' => Open(g, r)  BY <2>1, <2>2 DEF Open
    <2>4. \A g \in Gid : Open(g, r) => g \in GidsInUse  BY CarriedSaid, InUse DEF Open
    <2>5. \A g \in Gid : Open(g, r)' /\ copies[r] = 1 => InChat(g)'
      BY <1>0, <1>2, <2>3, <2>4 DEF Counted
    <2>6. OneRandomId(r)'  BY <1>0, <2>3 DEF OneRandomId
    <2>7. Counted(r)'  BY <1>0, <1>1, <1>9, <2>1, <2>2, <2>5 DEF Counted
    <2> QED  BY <1>8, <2>6, <2>7
  <1> QED  BY <1>10, <1>11

LEMMA AloneInit == Init => AloneInv
  <1> SUFFICES ASSUME Init, NEW r \in Row PROVE Apart(r) /\ OneRandomId(r) /\ Counted(r)
    BY DEF AloneInv
  <1>1. row[r].status = "absent" /\ row[r].group = None  BY DEF Init, NoRow
  <1>2. /\ copies[r] = 0 /\ wire = {} /\ accepted = {} /\ \A w \in Worker : task[w] = {}
    BY DEF Init
  <1>3. \A g \in Gid : ~Open(g, r)  BY <1>1, <1>2 DEF Open, Carried, Unsettled
  <1>4. \A g \in Gid : \A R \in SUBSET Row : ~Said(g, R)  BY <1>2 DEF Said
  <1> QED  BY <1>1, <1>2, <1>3, <1>4 DEF Apart, OneRandomId, Counted, Unsettled

LEMMA AloneNext == OutboxInv /\ AloneInv /\ [Next]_vars => AloneInv'
  <1> SUFFICES ASSUME OutboxInv, AloneInv, [Next]_vars, NEW r \in Row, Alone(r)
               PROVE  (Apart(r) /\ OneRandomId(r) /\ Counted(r))'
    BY DEF AloneInv, Alone, Capped
  <1>1. CASE \E w \in Worker : Claim(w)
    <2>1. PICK w \in Worker : Claim(w)  BY <1>1
    <2>2. PICK L, V, K, F, gid, tok : ClaimShape(w, L, V, K, F, gid, tok)
      BY <2>1, ClaimIsShaped
    <2> QED  BY <2>1, <2>2, AloneClaim
  <1>2. CASE \E q \in wire : VkAccept(q)
    <2>1. PICK q \in wire : VkAccept(q)  BY <1>2
    <2> QED  BY <2>1, AloneAccept
  <1>3. CASE Next /\ ~(\E w \in Worker : Claim(w)) /\ ~\E q \in wire : VkAccept(q)
    <2>1. copies' = copies /\ accepted' = accepted  BY <1>3, ChatStays
    <2>2. TypeOK' /\ Quiet  BY <1>3, OutboxQuiet DEF QuietGood
    <2> QED  BY <2>1, <2>2, AloneQuiet
  <1>4. CASE UNCHANGED vars
    <2> USE <1>4 DEF vars, queueVars, senderVars, vkVars
    <2>1. /\ \A g \in Gid : (Open(g, r)' <=> Open(g, r)) /\ (InChat(g)' <=> InChat(g))
                            /\ (Carried(g, r)' <=> Carried(g, r))
      BY DEF Open, Carried, InChat
    <2>2. \A g \in Gid : \A R \in SUBSET Row : Said(g, R)' <=> Said(g, R)  BY DEF Said
    <2>3. Apart(r)'  BY <2>2 DEF AloneInv, Apart, Members
    <2>4. OneRandomId(r)' /\ Counted(r)'  BY <2>1 DEF AloneInv, OneRandomId, Counted
    <2> QED  BY <2>3, <2>4
  <1> QED  BY <1>1, <1>2, <1>3, <1>4

(* What never shares a message is delivered once (02_bot.md:292), whatever *)
(* leases run out, answers are lost, processes crash or are stopped.       *)
THEOREM AloneIsOnce == Spec => []AloneOnce
  <1>1. AloneInv => AloneOnce  BY DEF AloneInv, AloneOnce, Counted
  <1>2. Spec => []AloneInv  BY OutboxInvariant, AloneInit, AloneNext, PTL DEF Spec
  <1> QED  BY <1>1, <1>2, PTL

-----------------------------------------------------------------------------
(***************************************************************************)
(* A calm day.  What is claimed is held until it is sent or given back     *)
(* unsent, so whatever is in the chat is SENT, purged or about to be       *)
(* recorded, and nothing that waits has ever been near the chat.           *)
(***************************************************************************)
Tasks      == UNION {task[w] : w \in Worker}
Sending(k) == k.stage = "sending"

Working   == \A w \in Worker : up[w] /\ ~halted[w]
NewlyDue  == \A r \in Row : row[r].status = "PENDING" => row[r].group = None
AllHeld   == \A k \in Tasks : k.group.rows \subseteq Held(k.group)
Awaited   == \A q \in wire : \E k \in Tasks : k.group = q /\ Sending(k)
InChatNow ==
  \A a \in accepted : \A r \in a.rows :
    \/ row[r].status = "deleted"
    \/ row[r].status = "SENT" /\ row[r].group = a.gid
    \/ \E k \in Tasks : k.group.gid = a.gid /\ r \in k.group.rows /\ Sending(k)
CopiedOnce ==
  \A r \in Row : /\ copies[r] <= 1
                 /\ copies[r] = 1 => \/ row[r].status = "deleted"
                                     \/ \E a \in accepted : r \in a.rows
Unpurged == now < PurgeAfter => \A r \in Row : row[r].status # "deleted"

CalmInv == /\ Working /\ NewlyDue /\ AllHeld /\ Awaited /\ InChatNow /\ CopiedOnce
           /\ Unpurged

LEMMA CalmInit == Init => CalmInv
  <1> SUFFICES ASSUME Init PROVE CalmInv  OBVIOUS
  <1>1. \A r \in Row : row[r].status = "absent" /\ copies[r] = 0  BY DEF Init, NoRow
  <1>2. /\ \A w \in Worker : up[w] /\ ~halted[w] /\ task[w] = {}
        /\ wire = {} /\ accepted = {}
    BY DEF Init
  <1>3. Tasks = {}  BY <1>2 DEF Tasks
  <1> QED  BY <1>1, <1>2, <1>3 DEF CalmInv, Working, NewlyDue, AllHeld, Awaited, InChatNow,
                               CopiedOnce, Unpurged

(* Troubles cost, so a calm step is none of them.                          *)
LEMMA NotSpent ==
  ASSUME OutboxInv, Calm, NEW f \in {"faults", "skips", "crashes"}, Spend(f)
  PROVE  FALSE
  <1>1. budget \in [Bounds -> Nat] /\ f \in Bounds  BY DEF OutboxInv, TypeOK, Bounds
  <1>2. budget'[f] = budget[f] - 1  BY <1>1 DEF Spend, Bounds
  <1>3. budget'[f] = budget[f] /\ budget[f] \in Nat  BY <1>1 DEF Calm
  <1> QED  BY <1>2, <1>3

LEMMA CalmSteps ==
  ASSUME OutboxInv, CalmInv, Calm, Next
  PROVE  \/ Tick
         \/ \E r \in Row : Enqueue(r) \/ Cancel(r)
         \/ \E p \in Player : Allow(p) \/ Deny(p) \/ LoseNation(p)
         \/ \E w \in Worker : Claim(w) \/ Janitor(w)
         \/ \E w \in Worker : \E k \in task[w] : Recheck(w, k) \/ Send(w, k) \/ RecordSent(w, k)
         \/ \E q \in wire : VkAccept(q)
  <1>1. \A w \in Worker : ~Crash(w) /\ ~Stop(w)  BY NotSpent DEF Crash, Stop
  <1>2. \A w \in Worker : ~Start(w)  BY DEF CalmInv, Working, Start
  <1>3. \A w \in Worker : \A k \in task[w] :
          ~RecordRetry(w, k) /\ ~RecordConsentLost(w, k) /\ ~RecordAuth(w, k) /\ ~RecordBad(w, k)
    BY NotSpent DEF RecordRetry, RecordConsentLost, RecordAuth, RecordBad
  <1>4. \A w \in Worker : \A k \in task[w] : ~Skip(w, k)
    BY NotSpent DEF Skip, CalmInv, Working
  <1>5. \A q \in wire : ~VkLose(q)
    BY DEF CalmInv, Awaited, Tasks, VkLose
  <1>6. ~Reset  BY DEF Calm
  <1>7. CASE \E w \in Worker : Process(w)
    BY <1>2, <1>3, <1>4, <1>7 DEF Process
  <1> QED  BY <1>1, <1>5, <1>6, <1>7 DEF Next

(* A step of the table only: what waits stays ungrouped or is settled, and *)
(* of the rest only the old is purged.                                     *)
CalmRow(r) ==
  \/ row'[r] = row[r]
  \/ /\ row[r].status \in {"absent", "PENDING"}
     /\ row'[r].status \in {"PENDING"} \cup Terminal
     /\ row'[r].status = "PENDING" => row'[r].group = None
  \/ /\ row[r].status \in Terminal /\ PurgeAfter <= now' /\ row'[r].status = "deleted"

LEMMA CalmTable ==
  ASSUME OutboxInv, CalmInv, now \in Nat, now' \in Nat, now <= now',
         task' = task, up' = up, halted' = halted, wire' = wire, accepted' = accepted,
         copies' = copies, \A r \in Row : CalmRow(r)
  PROVE  CalmInv'
  <1>0. Tasks' = Tasks  BY DEF Tasks
  <1>1. \A r \in Row : row[r].status = "LEASED" => row'[r] = row[r]
    BY DEF CalmRow, Terminal
  <1>2. \A k \in Tasks : Held(k.group) \subseteq Held(k.group)'  BY <1>1 DEF Held
  <1>3. Working'  BY DEF CalmInv, Working
  <1>4. NewlyDue'  BY DEF CalmInv, NewlyDue, CalmRow, Terminal
  <1>5. AllHeld'
    <2> SUFFICES ASSUME NEW k \in Tasks PROVE k.group.rows \subseteq Held(k.group)'
      BY <1>0 DEF AllHeld, Held
    <2> QED  BY <1>2 DEF CalmInv, AllHeld
  <1>6. Awaited'  BY <1>0 DEF CalmInv, Awaited
  <1>7. InChatNow'
    <2> SUFFICES ASSUME NEW a \in accepted, NEW r \in a.rows
                 PROVE  \/ row'[r].status = "deleted"
                        \/ row'[r].status = "SENT" /\ row'[r].group = a.gid
                        \/ \E k \in Tasks : k.group.gid = a.gid /\ r \in k.group.rows /\ Sending(k)
      BY <1>0 DEF InChatNow, Sending
    <2>1. r \in Row  BY DEF OutboxInv, TypeOK
    <2>2. \/ row[r].status = "deleted"
          \/ row[r].status = "SENT" /\ row[r].group = a.gid
          \/ \E k \in Tasks : k.group.gid = a.gid /\ r \in k.group.rows /\ Sending(k)
      BY DEF CalmInv, InChatNow
    <2> QED  BY <2>1, <2>2 DEF CalmRow, Terminal
  <1>8. CopiedOnce'
    <2>1. \A r \in Row : row[r].status = "deleted" => row'[r].status = "deleted"
      BY DEF CalmRow, Terminal
    <2> QED  BY <2>1 DEF CalmInv, CopiedOnce
  <1>9. Unpurged'
    <2>1. PurgeAfter \in Nat  BY Constants
    <2>2. now' < PurgeAfter => now < PurgeAfter /\ ~(PurgeAfter <= now')  BY <2>1
    <2> QED  BY <2>2 DEF CalmInv, Unpurged, CalmRow, Terminal
  <1> QED  BY <1>3, <1>4, <1>5, <1>6, <1>7, <1>8, <1>9 DEF CalmInv

LEMMA UnsentWaits ==
  ASSUME Calm, NEW r \in Row
  PROVE  Unsent(row[r]) <=> row[r].status = "PENDING"
  BY DEF Calm, Unsent

LEMMA CalmOutside ==
  ASSUME OutboxInv, CalmInv, Calm,
         \/ Tick
         \/ \E r \in Row : Enqueue(r) \/ Cancel(r)
         \/ \E p \in Player : Allow(p) \/ Deny(p) \/ LoseNation(p)
         \/ \E w \in Worker : Janitor(w)
  PROVE  CalmInv'
  <1>0. now \in Nat /\ row \in [Row -> RowType]  BY RowsOf
  <1>1. CASE Tick
    <2>1. now' = now + 1 /\ \A r \in Row : CalmRow(r)  BY <1>1 DEF Tick, queueVars, CalmRow
    <2> QED  BY <1>0, <1>1, <2>1, CalmTable DEF Tick, senderVars, vkVars
  <1>2. ASSUME NEW r \in Row, Enqueue(r) PROVE CalmInv'
    <2> DEFINE y == [NoRow EXCEPT !.status = "PENDING", !.created = now,
                                  !.next = now, !.expires = now + Ttl[r]]
    <2>0. Ttl[r] \in Nat  BY Constants
    <2>1. /\ y \in RowType /\ y.status = "PENDING" /\ y.group = None /\ y.created = now
          /\ y.expires = now + Ttl[r]
      BY <1>0, <2>0, EnqueuedFacts
    <2>2. row' = [row EXCEPT ![r] = y] /\ row[r].status = "absent"  BY <1>2 DEF Enqueue
    <2> HIDE DEF y
    <2>3. \A s \in Row : CalmRow(s)  BY <1>0, <2>1, <2>2 DEF CalmRow
    <2>4. /\ now' = now /\ task' = task /\ up' = up /\ halted' = halted /\ wire' = wire
          /\ accepted' = accepted /\ copies' = copies
      BY <1>2 DEF Enqueue, senderVars, vkVars
    <2> QED  BY <1>0, <2>3, <2>4, CalmTable
  <1>3. ASSUME NEW r \in Row, Cancel(r) PROVE CalmInv'
    <2>1. row' = [row EXCEPT ![r] = Settle(row[r], "DROPPED")]  BY <1>0, <1>3 DEF Cancel
    <2>2. row[r].status = "PENDING"  BY <1>3, UnsentWaits DEF Cancel
    <2>3. Settle(row[r], "DROPPED").status = "DROPPED"  BY <1>0, SettleFacts DEF Terminal
    <2>4. \A s \in Row : CalmRow(s)  BY <1>0, <2>1, <2>2, <2>3 DEF CalmRow, Terminal
    <2> QED  BY <1>0, <1>3, <2>4, CalmTable DEF Cancel, senderVars, vkVars
  <1>4. ASSUME NEW p \in Player, Allow(p) \/ LoseNation(p) PROVE CalmInv'
    <2>1. \A s \in Row : CalmRow(s)  BY <1>4 DEF CalmRow, Allow, LoseNation
    <2> QED  BY <1>0, <1>4, <2>1, CalmTable DEF Allow, LoseNation, senderVars, vkVars
  <1>5. ASSUME NEW p \in Player, Deny(p) PROVE CalmInv'
    <2>1. row' = AfterDenial(p, row)  BY <1>5 DEF Deny
    <2>2. \A s \in Row : Settle(row[s], "DROPPED").status = "DROPPED"
      BY <1>0, SettleFacts DEF Terminal
    <2>3. \A s \in Row : CalmRow(s)  BY <2>1, <2>2 DEF CalmRow, AfterDenial, Terminal
    <2> QED  BY <1>0, <1>5, <2>3, CalmTable DEF Deny, senderVars, vkVars
  <1>6. ASSUME NEW w \in Worker, Janitor(w) PROVE CalmInv'
    <2> DEFINE gone == [NoRow EXCEPT !.status = "deleted"]
               old(r) == row[r].status \in Terminal /\ row[r].created + PurgeAfter <= now
    <2>1. gone.status = "deleted"  BY DeletedFacts
    <2>2. row' = [r \in Row |-> IF old(r) THEN gone ELSE IF LeaseLost(row[r])
                                THEN Unleased(row[r]) ELSE row[r]]
      BY <1>6 DEF Janitor
    <2>3. \A r \in Row : ~LeaseLost(row[r])  BY DEF Calm
    <2>4. \A r \in Row : old(r) => row[r].status \in Terminal /\ PurgeAfter <= now
      BY <1>0, RowsOf, Constants
    <2> HIDE DEF gone, old
    <2>5. now' = now  BY <1>6 DEF Janitor
    <2>6. \A r \in Row : CalmRow(r)  BY <2>1, <2>2, <2>3, <2>4, <2>5 DEF CalmRow
    <2> QED  BY <1>0, <1>6, <2>6, CalmTable DEF Janitor, senderVars, vkVars
  <1> QED  BY <1>1, <1>2, <1>3, <1>4, <1>5, <1>6

(* The tasks of a process but one, and what that leaves alone: a row is    *)
(* held by one task.                                                       *)
LEMMA OthersKeep ==
  ASSUME OutboxInv, AllHeld, NEW w \in Worker, NEW k \in task[w], NEW j \in Tasks, j # k
  PROVE  j.group.token # k.group.token /\ j.group.rows \cap Held(k.group) = {}
  <1>1. PICK v \in Worker : j \in task[v]  BY DEF Tasks
  <1>2. j.group.token # k.group.token  BY <1>1 DEF OutboxInv, LeaseHasOneHolder
  <1>3. j.group.rows \subseteq Held(j.group)  BY DEF AllHeld
  <1> QED  BY <1>2, <1>3 DEF Held

LEMMA TasksWithout ==
  ASSUME OutboxInv, NEW w \in Worker, NEW k \in task[w], NEW X, k \notin X,
         task' = [task EXCEPT ![w] = (@ \ {k}) \cup X]
  PROVE  Tasks' = (Tasks \ {k}) \cup X
  <1>0. task \in [Worker -> SUBSET TaskType]  BY DEF OutboxInv, TypeOK
  <1>1. \A v \in Worker : v # w => k \notin task[v]
    BY DEF OutboxInv, LeaseHasOneHolder
  <1>2. task'[w] = (task[w] \ {k}) \cup X /\ \A v \in Worker \ {w} : task'[v] = task[v]
    BY <1>0
  <1>3. \A x : x \in Tasks' => x \in (Tasks \ {k}) \cup X
    <2> SUFFICES ASSUME NEW x \in Tasks' PROVE x \in (Tasks \ {k}) \cup X  OBVIOUS
    <2>1. PICK v \in Worker : x \in task'[v]  BY DEF Tasks
    <2>2. CASE v = w  BY <1>2, <2>1, <2>2 DEF Tasks
    <2>3. CASE v # w  BY <1>1, <1>2, <2>1, <2>3 DEF Tasks
    <2> QED  BY <2>2, <2>3
  <1>4. \A x : x \in (Tasks \ {k}) \cup X => x \in Tasks'
    <2> SUFFICES ASSUME NEW x \in (Tasks \ {k}) \cup X PROVE x \in Tasks'  OBVIOUS
    <2>1. CASE x \in X  BY <1>2, <2>1 DEF Tasks
    <2>2. CASE x \in Tasks \ {k}
      <3>1. PICK v \in Worker : x \in task[v]  BY <2>2 DEF Tasks
      <3>2. x \in task'[v]  BY <1>2, <2>2, <3>1
      <3> QED  BY <3>2 DEF Tasks
    <2> QED  BY <2>1, <2>2
  <1> QED  BY <1>3, <1>4

(* A task moves on: the group stays, and what is sent stays sent.          *)
LEMMA CalmMoves ==
  ASSUME OutboxInv, CalmInv, NEW w \in Worker, NEW k \in task[w], ~Sending(k), NEW j,
         j # k, j.group = k.group, task' = [task EXCEPT ![w] = (@ \ {k}) \cup {j}],
         \A q \in wire' : q \in wire \/ (q = k.group /\ Sending(j)),
         now' = now, row' = row, up' = up, halted' = halted, accepted' = accepted,
         copies' = copies
  PROVE  CalmInv'
  <1>0. Tasks' = (Tasks \ {k}) \cup {j} /\ k \in Tasks  BY TasksWithout DEF Tasks
  <1>1. Working' /\ NewlyDue' /\ CopiedOnce' /\ Unpurged'
    BY DEF CalmInv, Working, NewlyDue, CopiedOnce, Unpurged
  <1>2. AllHeld'  BY <1>0 DEF CalmInv, AllHeld, Held
  <1>3. \A i \in Tasks : Sending(i) => i \in Tasks'  BY <1>0
  <1>4. Awaited'
    <2> SUFFICES ASSUME NEW q \in wire' PROVE \E i \in Tasks' : i.group = q /\ Sending(i)
      BY DEF Awaited, Sending
    <2>1. CASE q \in wire  BY <1>3, <2>1 DEF CalmInv, Awaited
    <2>2. CASE q = k.group /\ Sending(j)  BY <1>0, <2>2
    <2> QED  BY <2>1, <2>2
  <1>5. InChatNow'
    <2> SUFFICES ASSUME NEW a \in accepted, NEW r \in a.rows
                 PROVE  \/ row[r].status = "deleted"
                        \/ row[r].status = "SENT" /\ row[r].group = a.gid
                        \/ \E i \in Tasks' : i.group.gid = a.gid /\ r \in i.group.rows /\ Sending(i)
      BY DEF InChatNow, Sending
    <2> QED  BY <1>3 DEF CalmInv, InChatNow
  <1> QED  BY <1>1, <1>2, <1>4, <1>5 DEF CalmInv

LEMMA CalmSend ==
  ASSUME OutboxInv, CalmInv, NEW w \in Worker, NEW k \in task[w], Send(w, k)
  PROVE  CalmInv'
  <1> DEFINE j == [k EXCEPT !.stage = "sending"]
  <1>1. now \in Nat /\ k \in TaskType  BY RowsOf, TaskKnown
  <1>2. j.group = k.group  BY <1>1, TaskFacts
  <1>3. k.stage = "checked" /\ j.stage = "sending"  BY <1>1 DEF Send, TaskType
  <1>4. task' = [task EXCEPT ![w] = (@ \ {k}) \cup {j}] /\ wire' = wire \cup {k.group}
    BY DEF Send
  <1> HIDE DEF j
  <1>5. j # k /\ ~Sending(k) /\ Sending(j)  BY <1>3 DEF Sending
  <1> QED  BY <1>2, <1>4, <1>5, CalmMoves DEF Send, queueVars

(* A task is over: what it held is settled as sent, if it was in the chat, *)
(* or has never been near it.                                              *)
LEMMA CalmEnds ==
  ASSUME OutboxInv, CalmInv, NEW w \in Worker, NEW k \in task[w],
         task' = [task EXCEPT ![w] = @ \ {k}], now' = now, up' = up, halted' = halted,
         wire' = wire, accepted' = accepted, copies' = copies,
         \A r \in Row \ Held(k.group) : row'[r] = row[r],
         \/ /\ Sending(k) /\ k.group \notin wire
            /\ \A r \in Held(k.group) : /\ row'[r].status = "SENT"
                                        /\ row'[r].group = row[r].group
         \/ /\ ~Sending(k)
            /\ \A r \in Held(k.group) : /\ row'[r].status \in {"PENDING", "EXPIRED"}
                                        /\ row'[r].status = "PENDING" => row'[r].group = None
  PROVE  CalmInv'
  <1>0. Tasks' = Tasks \ {k}
    <2> DEFINE X == {}
    <2>1. k \notin X /\ task' = [task EXCEPT ![w] = (@ \ {k}) \cup X]  OBVIOUS
    <2> HIDE DEF X
    <2>2. Tasks' = (Tasks \ {k}) \cup X  BY <2>1, TasksWithout
    <2> QED  BY <2>2 DEF X
  <1>1. AllHeld  BY DEF CalmInv
  <1>2. Working'  BY DEF CalmInv, Working
  <1>3. NewlyDue'  BY DEF CalmInv, NewlyDue
  <1>4. AllHeld'
    <2> SUFFICES ASSUME NEW j \in Tasks, j # k, NEW r \in j.group.rows PROVE r \in Held(j.group)'
      BY <1>0 DEF AllHeld, Held
    <2>1. r \in Held(j.group) /\ r \notin Held(k.group)  BY <1>1, OthersKeep DEF AllHeld
    <2>2. r \in Row /\ row'[r] = row[r]  BY <2>1 DEF Held
    <2> QED  BY <2>1, <2>2 DEF Held
  <1>5. Awaited'
    <2> SUFFICES ASSUME NEW q \in wire
                 PROVE  \E j \in Tasks : j # k /\ j.group = q /\ Sending(j)
      BY <1>0 DEF Awaited, Sending
    <2> QED  BY DEF CalmInv, Awaited
  <1>6. InChatNow'
    <2> SUFFICES ASSUME NEW a \in accepted, NEW r \in a.rows
                 PROVE  \/ row'[r].status = "deleted"
                        \/ row'[r].status = "SENT" /\ row'[r].group = a.gid
                        \/ \E j \in Tasks : /\ j # k /\ j.group.gid = a.gid /\ r \in j.group.rows
                                            /\ Sending(j)
      BY <1>0 DEF InChatNow, Sending
    <2>0. r \in Row  BY DEF OutboxInv, TypeOK
    <2>1. CASE row[r].status \in {"deleted", "SENT"}
      <3>1. r \notin Held(k.group)  BY <2>1 DEF Held
      <3>2. row[r].status = "deleted" \/ row[r].group = a.gid \/ \E j \in Tasks : r \in j.group.rows
        BY DEF CalmInv, InChatNow
      <3>3. \A j \in Tasks : r \notin j.group.rows  BY <1>1, <2>1 DEF AllHeld, Held
      <3> QED  BY <2>0, <2>1, <3>1, <3>2, <3>3
    <2>2. CASE row[r].status \notin {"deleted", "SENT"}
      <3>1. PICK j \in Tasks : j.group.gid = a.gid /\ r \in j.group.rows /\ Sending(j)
        BY <2>2 DEF CalmInv, InChatNow
      <3>2. CASE j = k
        <4>1. r \in Held(k.group)  BY <1>1, <3>1, <3>2 DEF AllHeld
        <4>2. row[r].group = a.gid  BY <3>1, <3>2, <4>1 DEF Held
        <4> QED  BY <3>1, <3>2, <4>1, <4>2
      <3> QED  BY <3>1, <3>2
    <2> QED  BY <2>1, <2>2
  <1>7. CopiedOnce'
    <2>1. \A r \in Row : row[r].status = "deleted" => r \notin Held(k.group)  BY DEF Held
    <2> QED  BY <2>1 DEF CalmInv, CopiedOnce
  <1>8. Unpurged'
    <2>1. \A r \in Held(k.group) : row'[r].status # "deleted"  OBVIOUS
    <2> QED  BY <2>1 DEF CalmInv, Unpurged
  <1> QED  BY <1>2, <1>3, <1>4, <1>5, <1>6, <1>7, <1>8 DEF CalmInv

LEMMA CalmRecheck ==
  ASSUME OutboxInv, CalmInv, NEW w \in Worker, NEW k \in task[w], Recheck(w, k)
  PROVE  CalmInv'
  <1> DEFINE held    == Held(k.group)
             expired == {r \in held : row[r].expires <= now}
             j       == [k EXCEPT !.stage = "checked", !.at = now]
  <1>0. /\ now' = now /\ now \in Nat /\ k \in TaskType /\ ~Sending(k) /\ k.stage = "queued"
        /\ up' = up /\ halted' = halted /\ wire' = wire /\ accepted' = accepted
        /\ copies' = copies /\ row \in [Row -> RowType]
    BY RowsOf, TaskKnown DEF Recheck, Sending, vkVars
  <1>1. CASE /\ task' = [task EXCEPT ![w] = (@ \ {k}) \cup {j}]
             /\ UNCHANGED row
    <2>1. j.group = k.group  BY <1>0, TaskFacts
    <2>2. j.stage = "checked"  BY <1>0 DEF TaskType
    <2> HIDE DEF j
    <2> QED  BY <1>0, <1>1, <2>1, <2>2, CalmMoves
  <1>2. CASE /\ task' = [task EXCEPT ![w] = @ \ {k}]
             /\ row' = [r \in Row |-> IF r \in expired THEN Settle(row[r], "EXPIRED")
                                      ELSE IF r \in held THEN Dissolved(row[r])
                                      ELSE row[r]]
    <2>1. held \subseteq Row /\ expired \subseteq held  BY DEF Held
    <2>2. \A r \in Row : /\ Settle(row[r], "EXPIRED").status = "EXPIRED"
                         /\ Dissolved(row[r]).status = "PENDING" /\ Dissolved(row[r]).group = None
      BY <1>0, SettleFacts, DissolvedFacts DEF Terminal
    <2>3. /\ \A r \in Row \ held : row'[r] = row[r]
          /\ \A r \in held : /\ row'[r].status \in {"PENDING", "EXPIRED"}
                             /\ row'[r].status = "PENDING" => row'[r].group = None
      <3> HIDE DEF held, expired
      <3> QED  BY <1>2, <2>1, <2>2
    <2> QED  BY <1>0, <1>2, <2>3, CalmEnds
  <1> QED  BY <1>1, <1>2 DEF Recheck

LEMMA CalmSent ==
  ASSUME OutboxInv, CalmInv, NEW w \in Worker, NEW k \in task[w], RecordSent(w, k)
  PROVE  CalmInv'
  <1> DEFINE sent(x) == [Settle(x, "SENT") EXCEPT !.sentAt = k.at, !.error = FALSE]
  <1>0. /\ now' = now /\ row \in [Row -> RowType] /\ k.at \in Nat
        /\ row' = [r \in Row |-> IF r \in Held(k.group) THEN sent(row[r]) ELSE row[r]]
        /\ task' = [task EXCEPT ![w] = @ \ {k}]
    BY RowsOf, TaskKnown DEF RecordSent, Write, Rewrite, Done
  <1>1. \A r \in Row : sent(row[r]).status = "SENT" /\ sent(row[r]).group = row[r].group
    BY <1>0, SentFacts
  <1> HIDE DEF sent
  <1>2. Held(k.group) \subseteq Row  BY DEF Held
  <1>3. \A r \in Held(k.group) : row'[r].status = "SENT" /\ row'[r].group = row[r].group
    BY <1>0, <1>1, <1>2
  <1>4. /\ Sending(k) /\ k.group \notin wire /\ up' = up /\ halted' = halted /\ wire' = wire
        /\ accepted' = accepted /\ copies' = copies
    BY DEF RecordSent, Sending, vkVars
  <1> QED  BY <1>0, <1>3, <1>4, CalmEnds

(* VK puts a message into the chat: its rows are held by the task that     *)
(* waits for the answer, so none of them is there in another message.      *)
LEMMA CalmAccept ==
  ASSUME OutboxInv, CalmInv, NEW q \in wire, VkAccept(q) PROVE CalmInv'
  <1>0. /\ now' = now /\ row' = row /\ up' = up /\ halted' = halted /\ task' = task
        /\ wire' = wire \ {q} /\ Tasks' = Tasks
    BY DEF VkAccept, queueVars, senderVars, Tasks
  <1>1. Working' /\ NewlyDue' /\ Unpurged'  BY <1>0 DEF CalmInv, Working, NewlyDue, Unpurged
  <1>2. AllHeld'  BY <1>0 DEF CalmInv, AllHeld, Held
  <1>3. Awaited'  BY <1>0 DEF CalmInv, Awaited
  <1>4. CASE accepted' = accepted /\ copies' = copies
    <2>1. InChatNow' /\ CopiedOnce'  BY <1>0, <1>4 DEF CalmInv, InChatNow, CopiedOnce
    <2> QED  BY <1>1, <1>2, <1>3, <2>1 DEF CalmInv
  <1>5. CASE ~\E a \in accepted : a.gid = q.gid
    <2> DEFINE e == [gid |-> q.gid, rows |-> q.rows]
    <2>1. e.gid = q.gid /\ e.rows = q.rows  OBVIOUS
    <2>2. accepted' = accepted \cup {e}  BY <1>5 DEF VkAccept
    <2> HIDE DEF e
    <2>3. \A r \in Row : copies[r] \in Nat /\ copies'[r] = IF r \in q.rows THEN copies[r] + 1
                                                           ELSE copies[r]
      BY <1>5 DEF VkAccept, OutboxInv, TypeOK
    <2>4. PICK k \in Tasks : k.group = q /\ Sending(k)  BY DEF CalmInv, Awaited
    <2>5. q.rows \subseteq Held(q)  BY <2>4 DEF CalmInv, AllHeld
    <2>6. InChatNow'
      <3> SUFFICES ASSUME NEW a \in accepted', NEW r \in a.rows
                   PROVE  \/ row[r].status = "deleted"
                          \/ row[r].status = "SENT" /\ row[r].group = a.gid
                          \/ \E i \in Tasks : i.group.gid = a.gid /\ r \in i.group.rows /\ Sending(i)
        BY <1>0 DEF InChatNow, Sending
      <3>1. CASE a \in accepted  BY <3>1 DEF CalmInv, InChatNow
      <3>2. CASE a = e  BY <2>1, <2>4, <3>2
      <3> QED  BY <2>2, <3>1, <3>2
    <2>7. ASSUME NEW r \in Row, r \in q.rows PROVE copies[r] = 0
      <3> SUFFICES ASSUME copies[r] = 1 PROVE FALSE  BY <2>3 DEF CalmInv, CopiedOnce
      <3>1. row[r].status = "LEASED" /\ r \in Held(q)  BY <2>5, <2>7 DEF Held
      <3>2. PICK a \in accepted : r \in a.rows  BY <3>1 DEF CalmInv, CopiedOnce
      <3>3. PICK i \in Tasks : i.group.gid = a.gid /\ r \in i.group.rows
        BY <3>1, <3>2 DEF CalmInv, InChatNow
      <3>4. r \in Held(i.group)  BY <3>3 DEF CalmInv, AllHeld
      <3>5. i.group.gid = q.gid  BY <3>1, <3>4 DEF Held
      <3> QED  BY <1>5, <3>2, <3>3, <3>5
    <2>8. CopiedOnce'
      <3> SUFFICES ASSUME NEW r \in Row
                   PROVE  /\ copies'[r] <= 1
                          /\ copies'[r] = 1 => \/ row[r].status = "deleted"
                                               \/ \E a \in accepted' : r \in a.rows
        BY <1>0 DEF CopiedOnce
      <3>1. CASE r \in q.rows
        <4>1. copies'[r] = 1  BY <2>3, <2>7, <3>1
        <4> QED  BY <2>1, <2>2, <3>1, <4>1
      <3>2. CASE r \notin q.rows
        <4>1. copies'[r] = copies[r]  BY <2>3, <3>2
        <4> QED  BY <2>2, <4>1 DEF CalmInv, CopiedOnce
      <3> QED  BY <3>1, <3>2
    <2> QED  BY <1>1, <1>2, <1>3, <2>6, <2>8 DEF CalmInv
  <1> QED  BY <1>4, <1>5 DEF VkAccept

(* A claim takes and settles what waits, and nothing else.                 *)
LEMMA ClaimWaits ==
  ASSUME OutboxInv, Calm, NEW w \in Worker, Claim(w), NEW r \in Row, row[r].status # "PENDING"
  PROVE  row'[r] = row[r]
  <1>0. ~Unsent(row[r])  BY UnsentWaits
  <1>1. Swept[r] = row[r]  BY <1>0 DEF Swept
  <1>2. PICK C \in Chosen(Swept) :
              row' = [s \in Row |->
                   IF s \in Locked(C) \ Live(C) THEN Settle(Swept[s], "DROPPED")
                   ELSE IF s \in UNION Leased(C) THEN LeasedRow(C, s)
                   ELSE IF s \in Loose(C) THEN Dissolved(Swept[s])
                   ELSE Swept[s]]
    BY ClaimEffect
  <1>3. r \notin Locked(C)  BY <1>0, <1>1 DEF Locked, ReadyOf, Ready
  <1>4. r \notin UNION Leased(C) /\ r \notin Loose(C)
    <2>1. \A m \in Leased(C) : m \subseteq Live(C)  BY LeasedFactsOf DEF Leased, Loose
    <2>2. r \notin Live(C)  BY <1>3 DEF Live
    <2> QED  BY <2>1, <2>2 DEF Loose
  <1> QED  BY <1>1, <1>2, <1>3, <1>4

(* On a calm day nothing is leased again, and every message is a new one.  *)
LEMMA ClaimsAnew ==
  ASSUME OutboxInv, CalmInv, Calm, NEW w, NEW L, NEW V, NEW K, NEW F,
         NEW gid, NEW tok, ClaimShape(w, L, V, K, F, gid, tok)
  PROVE  /\ K = {}
         /\ \A r \in L : row[r].status = "PENDING" /\ row[r].group = None
  <1>1. \A r \in L : r \in Row /\ row[r].status = "PENDING" /\ row[r].group = None
    <2>1. \A r \in L : r \in Row /\ Unsent(row[r])  BY DEF ClaimShape, ClaimSets, Ready
    <2> QED  BY <2>1, UnsentWaits DEF CalmInv, NewlyDue
  <1>2. ASSUME NEW m \in K PROVE FALSE
    <2>1. m # {} /\ m = Members(gid[m]) /\ gid[m] \in Gid  BY DEF ClaimShape, ClaimIds
    <2>2. PICK r \in m : TRUE  BY <2>1
    <2>3. r \in L  BY <2>2 DEF ClaimShape, ClaimSets
    <2>4. row[r].group = gid[m]  BY <2>1, <2>2 DEF Members
    <2> QED  BY <1>1, <2>1, <2>3, <2>4, Constants
  <1> QED  BY <1>1, <1>2

LEMMA CalmClaim ==
  ASSUME OutboxInv, CalmInv, Calm, NEW w \in Worker, Claim(w) PROVE CalmInv'
  <1>1. PICK L, V, K, F, gid, tok : ClaimShape(w, L, V, K, F, gid, tok)  BY ClaimIsShaped
  <1>2. K = {} /\ \A r \in L : row[r].status = "PENDING" /\ row[r].group = None
    BY <1>1, ClaimsAnew
  <1>3. \A r \in Row : row[r].status # "PENDING" => row'[r] = row[r]  BY ClaimWaits
  <1>4. /\ up' = up /\ halted' = halted /\ wire' = wire /\ copies' = copies /\ now' = now
        /\ task \in [Worker -> SUBSET TaskType] /\ task[w] = {}
    BY ClaimEffect DEF OutboxInv, TypeOK
  <1> DEFINE new(m) == [group |-> [gid |-> gid[m], token |-> tok[m], rows |-> m],
                        stage |-> "queued", at |-> 0]
  <1>5. \A k : k \in Tasks' <=> k \in Tasks \/ \E m \in F : k = new(m)
    <2>1. task' = [task EXCEPT ![w] = {new(m) : m \in K \cup F}]
      BY <1>1 DEF ClaimShape, ClaimSender
    <2>2. task'[w] = {new(m) : m \in F} /\ \A v \in Worker \ {w} : task'[v] = task[v]
      BY <1>2, <1>4, <2>1
    <2> HIDE DEF new
    <2> QED  BY <1>4, <2>2 DEF Tasks
  <1>6. Working'  BY <1>4 DEF CalmInv, Working
  <1>7. \A r \in Row : \/ r \in L \ V \/ r \in V \ UNION F \/ r \in Row \ L
                       \/ \E m \in F : r \in m
    BY <1>1 DEF ClaimShape, ClaimSets
  <1>8. NewlyDue' /\ Unpurged'
    <2>1. ASSUME NEW r \in Row
          PROVE  /\ row'[r].status = "PENDING" => row'[r].group = None
                 /\ row'[r].status = "deleted" => row[r].status = "deleted"
      <3>1. CASE r \in L \ V  BY <1>1, <3>1 DEF ClaimShape, ClaimRows
      <3>2. CASE r \in V \ UNION F  BY <1>1, <1>2, <3>2 DEF ClaimShape, ClaimRows
      <3>3. CASE \E m \in F : r \in m  BY <1>1, <3>3 DEF ClaimShape, ClaimRows
      <3>4. CASE r \in Row \ L
        <4>1. Unsettled(row'[r]) \/ ~Stored(row'[r]) => row'[r] = row[r]
          BY <1>1, <3>4 DEF ClaimShape, ClaimRows
        <4> QED  BY <4>1 DEF Unsettled, Stored, CalmInv, NewlyDue
      <3> QED  BY <1>7, <3>1, <3>2, <3>3, <3>4
    <2> QED  BY <1>4, <2>1 DEF CalmInv, NewlyDue, Unpurged
  <1>9. AllHeld'
    <2> SUFFICES ASSUME NEW k \in Tasks', NEW r \in k.group.rows PROVE r \in Held(k.group)'
      BY DEF AllHeld, Held
    <2>1. CASE k \in Tasks
      <3>1. r \in Held(k.group)  BY <2>1 DEF CalmInv, AllHeld
      <3>2. r \in Row /\ row'[r] = row[r]  BY <1>3, <3>1 DEF Held
      <3> QED  BY <3>1, <3>2 DEF Held
    <2>2. CASE \E m \in F : k = new(m)
      <3>1. PICK m \in F : k = new(m)  BY <2>2
      <3>2. k.group.gid = gid[m] /\ k.group.token = tok[m] /\ k.group.rows = m  BY <3>1
      <3>3. r \in Row  BY <1>1, <3>1, <3>2 DEF ClaimShape, ClaimSets
      <3>4. row'[r].status = "LEASED" /\ row'[r].token = tok[m] /\ row'[r].group = gid[m]
        BY <1>1, <3>1, <3>2 DEF ClaimShape, ClaimRows
      <3> QED  BY <3>2, <3>3, <3>4 DEF Held
    <2> QED  BY <1>5, <2>1, <2>2
  <1> HIDE DEF new
  <1>10. Awaited'  BY <1>4, <1>5 DEF CalmInv, Awaited
  <1>11. accepted' = {a \in accepted : \A m \in F : gid[m] # a.gid}
    BY <1>1 DEF ClaimShape, ClaimSender
  <1>12. InChatNow'
    <2> SUFFICES ASSUME NEW a \in accepted, NEW r \in a.rows
                 PROVE  \/ row'[r].status = "deleted"
                        \/ row'[r].status = "SENT" /\ row'[r].group = a.gid
                        \/ \E k \in Tasks' : k.group.gid = a.gid /\ r \in k.group.rows /\ Sending(k)
      BY <1>11 DEF InChatNow, Sending
    <2>1. r \in Row  BY DEF OutboxInv, TypeOK
    <2>2. \/ row[r].status = "deleted"
          \/ row[r].status = "SENT" /\ row[r].group = a.gid
          \/ \E k \in Tasks : k.group.gid = a.gid /\ r \in k.group.rows /\ Sending(k)
      BY DEF CalmInv, InChatNow
    <2> QED  BY <1>3, <1>5, <2>1, <2>2
  <1>13. CopiedOnce'
    <2> SUFFICES ASSUME NEW r \in Row
                 PROVE  /\ copies[r] <= 1
                        /\ copies[r] = 1 => \/ row'[r].status = "deleted"
                                            \/ \E a \in accepted' : r \in a.rows
      BY <1>4 DEF CopiedOnce
    <2>1. copies[r] <= 1 /\ (row[r].status = "deleted" => row'[r].status = "deleted")
      BY <1>3 DEF CalmInv, CopiedOnce
    <2>2. ASSUME copies[r] = 1, row[r].status # "deleted" PROVE \E a \in accepted' : r \in a.rows
      <3>1. PICK a \in accepted : r \in a.rows  BY <2>2 DEF CalmInv, CopiedOnce
      <3>2. \/ row[r].group = a.gid
            \/ \E k \in Tasks : k.group.gid = a.gid
        BY <2>2, <3>1 DEF CalmInv, InChatNow
      <3>3. a.gid \in GidsInUse  BY <3>2, InUse DEF Tasks
      <3>4. \A m \in F : gid[m] \notin GidsInUse  BY <1>1 DEF ClaimShape, ClaimIds
      <3> QED  BY <1>11, <3>1, <3>3, <3>4
    <2> QED  BY <2>1, <2>2
  <1> QED  BY <1>6, <1>8, <1>9, <1>10, <1>12, <1>13 DEF CalmInv

LEMMA CalmNext == OutboxInv /\ CalmInv /\ [Next]_vars /\ [Calm]_vars => CalmInv'
  <1> SUFFICES ASSUME OutboxInv, CalmInv, [Next]_vars, [Calm]_vars PROVE CalmInv'  OBVIOUS
  <1>1. CASE UNCHANGED vars
    <2> USE <1>1 DEF vars, queueVars, senderVars, vkVars
    <2>1. Tasks' = Tasks  BY DEF Tasks
    <2>2. Working' /\ NewlyDue' /\ CopiedOnce' /\ Unpurged'
      BY DEF CalmInv, Working, NewlyDue, CopiedOnce, Unpurged
    <2>3. AllHeld' /\ Awaited' /\ InChatNow'
      BY <2>1 DEF CalmInv, AllHeld, Held, Awaited, InChatNow, Sending
    <2> QED  BY <2>2, <2>3 DEF CalmInv
  <1>2. CASE Next /\ Calm
    <2>1. ASSUME NEW w \in Worker, NEW k \in task[w],
                 Recheck(w, k) \/ Send(w, k) \/ RecordSent(w, k)
          PROVE  CalmInv'
      BY <2>1, CalmRecheck, CalmSend, CalmSent
    <2>2. ASSUME NEW w \in Worker, Claim(w) PROVE CalmInv'  BY <1>2, <2>2, CalmClaim
    <2>3. ASSUME NEW q \in wire, VkAccept(q) PROVE CalmInv'  BY <2>3, CalmAccept
    <2>4. CASE \/ Tick
               \/ \E r \in Row : Enqueue(r) \/ Cancel(r)
               \/ \E p \in Player : Allow(p) \/ Deny(p) \/ LoseNation(p)
               \/ \E w \in Worker : Janitor(w)
      BY <1>2, <2>4, CalmOutside
    <2> QED  BY <1>2, <2>1, <2>2, <2>3, <2>4, CalmSteps
  <1> QED  BY <1>1, <1>2

(* As long as the days are calm, no event is in two messages of a chat.    *)
THEOREM CalmDaysSendOnce == Spec /\ [][Calm]_vars => []DeliveredOnce
  <1>1. CalmInv => DeliveredOnce  BY DEF CalmInv, CopiedOnce, DeliveredOnce
  <1>2. Spec /\ [][Calm]_vars => []CalmInv
    BY OutboxInvariant, CalmInit, CalmNext, PTL DEF Spec
  <1> QED  BY <1>1, <1>2, PTL

-----------------------------------------------------------------------------
(***************************************************************************)
(* The cap on calm days, with one process.  When it claims, it has nothing *)
(* under way: what the player has been told is in the table as SENT, and   *)
(* takes the slots it should.                                              *)
(***************************************************************************)
OneProcess == \A v, w \in Worker : v = w

GidsTo(p) == {g \in Gid : \E R \in SUBSET Row : Said(g, R) /\ CountsFor(p, R)}

CapInv == now < CapWindow => \A p \in Player : Cardinality(GidsTo(p)) <= Cap

LEMMA GidsAreFew == \A p : IsFiniteSet(GidsTo(p)) /\ Cardinality(GidsTo(p)) \in Nat
  BY Constants, FS_Subset, FS_CardinalityType DEF GidsTo

LEMMA CapQuiet ==
  ASSUME OutboxInv, TypeOK', CapInv, now <= now', QuietSender
  PROVE  CapInv'
  <1> SUFFICES ASSUME now' < CapWindow, NEW p \in Player PROVE Cardinality(GidsTo(p)') <= Cap
    BY DEF CapInv
  <1>1. now < CapWindow
    <2>1. now \in Nat /\ now' \in Nat /\ CapWindow \in Nat
      BY OutboxAssumption DEF OutboxInv, TypeOK
    <2> QED  BY <2>1
  <1>2. GidsTo(p)' \subseteq GidsTo(p)
    <2> SUFFICES ASSUME NEW g \in Gid, NEW R \in SUBSET Row, Said(g, R)', CountsFor(p, R)
                 PROVE  g \in GidsTo(p)
      BY DEF GidsTo, CountsFor
    <2> QED  BY QuietSaid DEF GidsTo
  <1>3. /\ IsFiniteSet(GidsTo(p)) /\ Cardinality(GidsTo(p)) \in Nat
        /\ IsFiniteSet(GidsTo(p)') /\ Cardinality(GidsTo(p)') \in Nat
        /\ Cardinality(GidsTo(p)') <= Cardinality(GidsTo(p))
    BY <1>2, GidsAreFew, FS_Subset, FS_CardinalityType
  <1>4. Cardinality(GidsTo(p)) <= Cap /\ Cap \in Nat  BY <1>1, OutboxAssumption DEF CapInv
  <1> QED  BY <1>3, <1>4

(* What a player has been told when the only process claims is SENT.       *)
LEMMA ToldIsCounted ==
  ASSUME OutboxInv, CalmInv, OneProcess, CapWindow <= PurgeAfter, now < CapWindow,
         NEW w \in Worker, task[w] = {}, NEW p \in Player, NEW g \in GidsTo(p)
  PROVE  \E r \in Row : /\ Owner[r] = p /\ Capped(r) /\ Swept[r].status = "SENT"
                        /\ Swept[r].sentAt + CapWindow > now /\ Swept[r].group = g
  <1>1. Tasks = {}  BY DEF OneProcess, Tasks
  <1>2. wire = {}  BY <1>1 DEF CalmInv, Awaited
  <1>3. PICK R \in SUBSET Row : Said(g, R) /\ CountsFor(p, R)  BY DEF GidsTo
  <1>4. PICK a \in accepted : a.gid = g /\ a.rows = R
    BY <1>1, <1>2, <1>3 DEF Said, Tasks
  <1>5. PICK r \in R : Owner[r] = p /\ Capped(r)  BY <1>3 DEF CountsFor
  <1>6. now \in Nat /\ CapWindow \in Nat /\ PurgeAfter \in Nat /\ row \in [Row -> RowType]
    BY RowsOf, OutboxAssumption
  <1>7. row[r].status # "deleted"
    <2>1. now < PurgeAfter  BY <1>6
    <2> QED  BY <2>1 DEF CalmInv, Unpurged
  <1>8. row[r].status = "SENT" /\ row[r].group = g
    BY <1>1, <1>4, <1>5, <1>7 DEF CalmInv, InChatNow
  <1>9. Swept[r] = row[r]  BY <1>6, <1>8, SweptFacts DEF Unsettled
  <1>10. row[r].sentAt \in Nat  BY <1>6 DEF RowType
  <1>11. row[r].sentAt + CapWindow > now  BY <1>6, <1>10
  <1> QED  BY <1>5, <1>8, <1>9, <1>11

LEMMA CapClaim ==
  ASSUME OutboxInv, CalmInv, CapInv, Calm, OneProcess, CapWindow <= PurgeAfter,
         NEW w \in Worker, Claim(w)
  PROVE  CapInv'
  <1>0. now' = now /\ task[w] = {}  BY ClaimEffect
  <1> SUFFICES ASSUME now < CapWindow, NEW p \in Player PROVE Cardinality(GidsTo(p)') <= Cap
    BY <1>0 DEF CapInv
  <1>1. PICK L, V, K, F, gid, tok : ClaimShape(w, L, V, K, F, gid, tok)  BY ClaimIsShaped
  <1>2. K = {}  BY <1>1, ClaimsAnew
  <1> DEFINE counted == {r \in Row : /\ Owner[r] = p /\ Capped(r)
                                     /\ Swept[r].status = "SENT"
                                     /\ Swept[r].sentAt + CapWindow > now}
             used    == {Swept[r].group : r \in counted}
             mine    == {m \in F : CountsFor(p, m)}
             new     == {gid[m] : m \in mine}
  <1>3. GidsTo(p) \subseteq used  BY <1>0, ToldIsCounted
  <1>4. GidsTo(p)' \subseteq GidsTo(p) \cup new
    <2> SUFFICES ASSUME NEW g \in Gid, NEW R \in SUBSET Row, Said(g, R)', CountsFor(p, R)
                 PROVE  g \in GidsTo(p) \cup new
      BY DEF GidsTo, CountsFor
    <2>1. Said(g, R) \/ \E m \in F : g = gid[m] /\ R = m  BY <1>1, <1>2, ClaimSaid
    <2> QED  BY <2>1 DEF GidsTo
  <1>5. IsFiniteSet(counted)  BY Constants, FS_Subset
  <1>6. IsFiniteSet(used)
    <2> DEFINE f == [r \in counted |-> Swept[r].group]
    <2>1. f \in [counted -> used] /\ \A y \in used : \E x \in counted : f[x] = y  OBVIOUS
    <2> HIDE DEF f, counted, used
    <2> QED  BY <1>5, <2>1, ImageSize
  <1>7. IsFiniteSet(mine)
    <2>1. F \subseteq SUBSET Row  BY <1>1 DEF ClaimShape, ClaimSets
    <2>2. IsFiniteSet(SUBSET Row)  BY Constants, FS_SUBSET
    <2>3. mine \in SUBSET (SUBSET Row)  BY <2>1
    <2> QED  BY <2>2, <2>3, FS_Subset
  <1>8. IsFiniteSet(new) /\ Cardinality(new) <= Cardinality(mine)
    <2> DEFINE f == [m \in mine |-> gid[m]]
    <2>1. f \in [mine -> new] /\ \A y \in new : \E x \in mine : f[x] = y  OBVIOUS
    <2> HIDE DEF f, mine, new
    <2> QED  BY <1>7, <2>1, ImageSize
  <1>9. Cardinality(mine) <= FreeSlots(Swept, p)  BY <1>1 DEF ClaimShape, ClaimSets
  <1>10. FreeSlots(Swept, p) = IF Cardinality(used) < Cap THEN Cap - Cardinality(used) ELSE 0
    BY DEF FreeSlots
  <1> DEFINE U == Cardinality(used)  N == Cardinality(new)  G == Cardinality(GidsTo(p))
             H == Cardinality(GidsTo(p)')
  <1>11. U \in Nat /\ N \in Nat /\ Cardinality(mine) \in Nat /\ Cap \in Nat /\ G \in Nat
    BY <1>6, <1>7, <1>8, FS_CardinalityType, GidsAreFew, OutboxAssumption
  <1>12. H \in Nat /\ IsFiniteSet(GidsTo(p)')
    BY Constants, FS_Subset, FS_CardinalityType DEF GidsTo
  <1>13. CASE U < Cap
    <2>1. GidsTo(p)' \subseteq used \cup new  BY <1>3, <1>4
    <2>2. /\ IsFiniteSet(used \cup new)
          /\ Cardinality(used \cup new) = U + N - Cardinality(used \cap new)
          /\ Cardinality(used \cap new) \in Nat
      BY <1>6, <1>8, FS_Union, FS_Intersection, FS_CardinalityType
    <2>3. H <= Cardinality(used \cup new)  BY <2>1, <2>2, FS_Subset
    <2>4. N <= Cap - U  BY <1>8, <1>9, <1>10, <1>11, <1>13
    <2> HIDE DEF U, N, H, used, new
    <2>5. H <= Cap  BY <1>11, <1>12, <2>2, <2>3, <2>4
    <2> QED  BY <2>5 DEF H
  <1>14. CASE ~(U < Cap)
    <2>1. N = 0  BY <1>8, <1>9, <1>10, <1>11, <1>14
    <2>2. new = {}  BY <1>8, <2>1, FS_EmptySet
    <2>3. GidsTo(p)' \subseteq GidsTo(p)  BY <1>4, <2>2
    <2>4. H <= G  BY <2>3, GidsAreFew, FS_Subset
    <2>5. G <= Cap  BY DEF CapInv
    <2> HIDE DEF G, H
    <2>6. H <= Cap  BY <1>11, <1>12, <2>4, <2>5
    <2> QED  BY <2>6 DEF H
  <1> QED  BY <1>13, <1>14

LEMMA CapNext ==
  ASSUME OneProcess, CapWindow <= PurgeAfter, OutboxInv, CalmInv, CapInv, [Next]_vars, [Calm]_vars
  PROVE  CapInv'
  <1>1. CASE UNCHANGED vars
    <2> USE <1>1 DEF vars, queueVars, senderVars, vkVars
    <2>1. \A g \in Gid : \A R \in SUBSET Row : Said(g, R)' <=> Said(g, R)  BY DEF Said
    <2>2. \A p : GidsTo(p)' = GidsTo(p)  BY <2>1 DEF GidsTo, CountsFor
    <2> QED  BY <2>2 DEF CapInv
  <1>2. CASE Next /\ Calm
    <2>1. CASE \E w \in Worker : Claim(w)  BY <1>2, <2>1, CapClaim
    <2>2. CASE ~\E w \in Worker : Claim(w)
      BY <1>2, <2>2, OutboxQuiet, CapQuiet DEF QuietGood, Quiet
    <2> QED  BY <2>1, <2>2
  <1> QED  BY <1>1, <1>2

(* The messages of a chat have random_ids of their own.                    *)
LEMMA CapFollows ==
  ASSUME OutboxInv, CapInv, now < CapWindow PROVE CapRespected
  <1> SUFFICES ASSUME NEW p \in Player
               PROVE  Cardinality({a \in accepted : \E r \in a.rows : Owner[r] = p /\ Capped(r)})
                        <= Cap
    BY DEF CapRespected
  <1> DEFINE A == {a \in accepted : \E r \in a.rows : Owner[r] = p /\ Capped(r)}
             I == {a.gid : a \in A}
             f == [g \in I |-> CHOOSE a \in A : a.gid = g]
  <1>1. \A a \in A : /\ a \in [gid : Gid, rows : SUBSET Row] /\ Said(a.gid, a.rows)
                     /\ CountsFor(p, a.rows)
    BY DEF OutboxInv, TypeOK, Said, CountsFor
  <1>2. I \in SUBSET GidsTo(p)  BY <1>1 DEF GidsTo
  <1>3. \A a, b \in A : a.gid = b.gid => a = b
    <2> SUFFICES ASSUME NEW a \in A, NEW b \in A, a.gid = b.gid PROVE a = b  OBVIOUS
    <2>1. a.rows = b.rows
      <3>1. a.gid \in Gid /\ a.rows \in SUBSET Row /\ b.rows \in SUBSET Row  BY <1>1
      <3>2. Said(a.gid, a.rows) /\ Said(a.gid, b.rows)  BY <1>1
      <3> QED  BY <3>1, <3>2 DEF OutboxInv, OneContent
    <2>2. a \in [gid : Gid, rows : SUBSET Row] /\ b \in [gid : Gid, rows : SUBSET Row]  BY <1>1
    <2> HIDE DEF A
    <2> QED  BY <2>1, <2>2
  <1>4. \A a \in A : a.gid \in I  OBVIOUS
  <1>5. \A g \in I : \E a \in A : a.gid = g  OBVIOUS
  <1> HIDE DEF A, I
  <1>6. \A g \in I : f[g] \in A /\ f[g].gid = g  BY <1>5
  <1>7. \A a \in A : f[a.gid] = a  BY <1>3, <1>4, <1>6
  <1>8. f \in [I -> A]  BY <1>6
  <1> HIDE DEF f
  <1>9. IsFiniteSet(I) /\ Cardinality(I) <= Cardinality(GidsTo(p))
    BY <1>2, GidsAreFew, FS_Subset
  <1>10. IsFiniteSet(A) /\ Cardinality(A) <= Cardinality(I)
    BY <1>4, <1>7, <1>8, <1>9, ImageSize
  <1>11. Cardinality(A) \in Nat /\ Cardinality(I) \in Nat /\ Cardinality(GidsTo(p)) \in Nat
    BY <1>9, <1>10, FS_CardinalityType, GidsAreFew
  <1>12. Cardinality(GidsTo(p)) <= Cap /\ Cap \in Nat  BY OutboxAssumption DEF CapInv
  <1>13. Cardinality(A) <= Cap  BY <1>9, <1>10, <1>11, <1>12
  <1> QED  BY <1>13 DEF A

LEMMA CapInit == Init => CapInv
  <1> SUFFICES ASSUME Init, NEW p \in Player PROVE Cardinality(GidsTo(p)) <= Cap  BY DEF CapInv
  <1>1. GidsTo(p) = {}  BY DEF Init, GidsTo, Said
  <1>2. Cap \in Nat  BY OutboxAssumption
  <1> QED  BY <1>1, <1>2, FS_EmptySet

(* INV-B4 on calm days: one process keeps the cap over a whole window, as  *)
(* long as the purge leaves the window alone (purge_after_days >= 1).      *)
THEOREM CalmDaysKeepTheCap ==
  ASSUME OneProcess, CapWindow <= PurgeAfter
  PROVE  Spec /\ [][Calm]_vars => [](now < CapWindow => CapRespected)
  <1>1. OutboxInv /\ CapInv => (now < CapWindow => CapRespected)  BY CapFollows
  <1>2. OutboxInv /\ CalmInv /\ CapInv /\ [Next]_vars /\ [Calm]_vars => CapInv'  BY CapNext
  <1>3. Spec /\ [][Calm]_vars => [](OutboxInv /\ CalmInv /\ CapInv)
    BY <1>2, OutboxInvariant, CalmInit, CalmNext, CapInit, PTL DEF Spec
  <1> QED  BY <1>1, <1>3, PTL
=============================================================================
