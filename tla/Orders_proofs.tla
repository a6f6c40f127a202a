--------------------------- MODULE Orders_proofs ---------------------------
(***************************************************************************)
(* Proofs about Orders for every set of orders, players and workers, every *)
(* limit and every bound.                                                  *)
(*                                                                         *)
(* One inductive invariant, OrdersInv.  An order that was never submitted  *)
(* has left no trace; the refusals of an order are numbered as they come,  *)
(* each with its entry in the rating journal; and a message that was never *)
(* sent is addressed to the judge of today.  Distribution keeps all three  *)
(* on whatever table it is given, so the invariant is stated of a table t, *)
(* a queue m and a journal j.                                              *)
(***************************************************************************)
EXTENDS Orders, FiniteSetTheorems, FunctionTheorems, WellFoundedInduction, TLAPS

(***************************************************************************)
(* Max of a finite set of numbers.                                         *)
(***************************************************************************)
LEMMA NatMin ==
  ASSUME NEW T \in SUBSET Nat, T # {}
  PROVE  \E x \in T : \A y \in T : x <= y
  <1>1. \A x, y \in Nat : y < x => <<y, x>> \in OpToRel(<, Nat)  BY DEF OpToRel
  <1>2. \E R : IsWellFoundedOn(R, Nat) /\ \A x, y \in Nat : y < x => <<y, x>> \in R
    BY <1>1, NatLessThanWellFounded, Zenon
  <1>3. PICK R : IsWellFoundedOn(R, Nat) /\ \A x, y \in Nat : y < x => <<y, x>> \in R
    BY <1>2
  <1>4. PICK x \in T : \A y \in T : ~(<<y, x>> \in R)  BY <1>3, WFMin
  <1>5. \A y \in T : y \in Nat /\ x \in Nat /\ ~(y < x)  BY <1>3, <1>4, Zenon
  <1> QED  BY <1>5

(* A finite set of numbers that is not empty has a greatest element.       *)
LEMMA HasGreatest ==
  ASSUME NEW S \in SUBSET Int, S # {}, IsFiniteSet(S)
  PROVE  \E x \in S : \A y \in S : x >= y
  <1> DEFINE Bad(A) == A # {} /\ ~ \E x \in A : \A y \in A : x >= y
             T == {n \in Nat : \E A \in SUBSET S : Bad(A) /\ Cardinality(A) = n}
  <1> SUFFICES ASSUME Bad(S) PROVE FALSE  OBVIOUS
  <1>1. Cardinality(S) \in T  BY FS_CardinalityType
  <1>2. T \in SUBSET Nat /\ T # {}  BY <1>1
  <1>3. PICK n \in T : \A k \in T : n <= k
    <2> HIDE DEF T
    <2> QED  BY <1>2, NatMin
  <1>4. PICK A \in SUBSET S : Bad(A) /\ Cardinality(A) = n  BY <1>3
  <1>5. IsFiniteSet(A)  BY FS_Subset
  <1>6. PICK a \in A : TRUE  BY <1>4
  <1> DEFINE B == A \ {a}
  <1>7. IsFiniteSet(B) /\ Cardinality(B) = n - 1 /\ Cardinality(B) \in Nat
    BY <1>4, <1>5, <1>6, FS_RemoveElement, FS_CardinalityType
  <1>8. ~Bad(B)
    <2>1. Cardinality(B) \notin T
      <3> DEFINE k == Cardinality(B)
      <3>1. k = n - 1 /\ k \in Nat /\ n \in Nat  BY <1>7
      <3> HIDE DEF k, T
      <3>2. k \in T => n <= k  BY <1>3
      <3>3. k \notin T  BY <3>1, <3>2
      <3> QED  BY <3>3 DEF k
    <2>2. B \in SUBSET S  OBVIOUS
    <2> HIDE DEF B, Bad
    <2> QED  BY <1>7, <2>1, <2>2
  <1>9. CASE B = {}
    <2>1. A = {a}  BY <1>6, <1>9
    <2>2. \A y \in A : a >= y  BY <2>1
    <2> QED  BY <1>4, <1>6, <2>2
  <1>10. CASE B # {}
    <2>1. PICK x \in B : \A y \in B : x >= y  BY <1>8, <1>10
    <2>2. x \in Int /\ a \in Int  OBVIOUS
    <2>3. CASE x >= a
      <3>1. \A y \in A : x >= y  BY <2>1, <2>3
      <3> QED  BY <1>4, <3>1
    <2>4. CASE a > x
      <3>1. \A y \in A : y \in Int  OBVIOUS
      <3>2. \A y \in A : a >= y  BY <2>1, <2>2, <2>4, <3>1
      <3> QED  BY <1>4, <1>6, <3>2
    <2> QED  BY <2>2, <2>3, <2>4
  <1> QED  BY <1>9, <1>10

(* Max of such a set is its greatest element.                              *)
LEMMA MaxIsGreatest ==
  ASSUME NEW S \in SUBSET Int, S # {}, IsFiniteSet(S)
  PROVE  Max(S) \in S /\ \A y \in S : Max(S) >= y
  <1>1. \E x \in S : \A y \in S : x >= y  BY HasGreatest
  <1> QED  BY <1>1 DEF Max

(***************************************************************************)
(* The inductive invariant.                                                *)
(***************************************************************************)

(* What was never submitted has left no trace.                             *)
Untraced(t, m, j) ==
  \A o \in Order : t[o].stage = "absent" =>
    /\ t[o] = NoOrder
    /\ \A e \in j : e.about # o
    /\ \A k \in Key : k.about = o => m[k] = "none"

(* The refusals still allowed leave numbers for all assignments.           *)
InBudget(t, n) == \A o \in Order : t[o].no + n <= MaxRefusals + 1

(* RefusalsArePenalised, of t, j and the players A there are.              *)
Penalties(t, j, A) ==
  \A o \in Stored(t) :
    /\ Len(t[o].refused) = t[o].no - 1
    /\ \A k \in DOMAIN t[o].refused :
         t[o].refused[k] \in A =>
           \E e \in j : e.player = t[o].refused[k] /\ e.about = o /\ e.no = k
    /\ \A e \in j : e.about = o => e.no < t[o].no

(* NewsIsForTheJudge, of t and m.                                          *)
News(t, m) ==
  \A k \in Key : k.kind = "assigned" /\ m[k] = "new" /\ k.about \in Stored(t)
                   => t[k.about].judge = k.to /\ t[k.about].no = k.no

Marks == {"none", "new", "out", "retry", "dropped"}
Tables == {t \in [Order -> Row] :
             \A o \in Order : t[o].stage # "decided" \/ t[o].judge # None}

Tidy(t, m, j, A, n) ==
  /\ t \in Tables /\ m \in [Key -> Marks] /\ j \subseteq Entry
  /\ Untraced(t, m, j) /\ InBudget(t, n) /\ Penalties(t, j, A) /\ News(t, m)

Others ==
  /\ now \in 0..MaxTime
  /\ alive \subseteq Player /\ nation \subseteq alive /\ consent \subseteq alive
  /\ rating \in [Player -> 0..Rating]
  /\ request \subseteq [who : Player, about : Order, rating : 0..Rating, at : 0..MaxTime]
  /\ pass \in [Worker -> PassType]
  /\ budget \in [Bounds -> Nat]

OrdersInv == Others /\ Tidy(order, mail, journal, alive, budget["refusals"])

LEMMA Constants ==
  /\ IsFiniteSet(Order) /\ Player \subseteq Nat /\ None \notin Player
  /\ Author \in [Order -> Player]
  /\ MaxPending \in Nat /\ Penalty \in Nat /\ Rating \in Nat /\ Term \in Nat
  /\ RemindAfter \in Nat /\ MaxTime \in Nat /\ MaxRefusals \in Nat
  /\ MaxFaults \in Nat /\ MaxChanges \in Nat
  BY OrdersAssumption

LEMMA RowTypes ==
  ASSUME NEW x \in Row
  PROVE  /\ x.stage \in {"absent", "open", "decided", "gone"} /\ x.number \in Nat
         /\ x.judge \in Player \cup {None} /\ x.since \in Nat /\ x.reminded \in BOOLEAN
         /\ x.refused \in Seq(Player) /\ x.no \in Numbers
         /\ x.no \in Nat /\ Len(x.refused) \in Nat
  BY Constants DEF Row, Numbers

LEMMA KeyTypes ==
  ASSUME NEW p \in Player, NEW kind \in {"assigned", "reminder"}, NEW o \in Order,
         NEW no \in Numbers
  PROVE  LET k == Rowkey(p, kind, o, no)
         IN k \in Key /\ k.to = p /\ k.kind = kind /\ k.about = o /\ k.no = no
  BY DEF Rowkey, Key

(***************************************************************************)
(* What the writes do to an order.                                         *)
(***************************************************************************)
LEMMA ReleaseFacts ==
  ASSUME NEW x \in Row
  PROVE  LET y == Released(x)
         IN /\ y \in Row /\ y.judge = None /\ y.stage = x.stage /\ y.no = x.no
            /\ y.refused = x.refused
  BY DEF Row, Released

LEMMA NoOrderFacts ==
  /\ NoOrder \in Row /\ NoOrder.stage = "absent" /\ NoOrder.judge = None
  /\ NoOrder.no = 1 /\ NoOrder.refused = <<>>
  BY Constants DEF NoOrder, Row, Numbers

LEMMA OpenedFacts ==
  ASSUME NEW n \in Nat
  PROVE  LET y == Opened(n)
         IN /\ y \in Row /\ y.stage = "open" /\ y.judge = None /\ y.no = 1
            /\ y.refused = <<>>
  BY NoOrderFacts DEF Opened, Row

LEMMA EnqueueFacts ==
  ASSUME NEW m \in [Key -> Marks], NEW k \in Key
  PROVE  /\ Enqueue(m, k) \in [Key -> Marks]
         /\ \A h \in Key : h # k => Enqueue(m, k)[h] = m[h]
  BY DEF Enqueue, Marks

LEMMA RecallFacts ==
  ASSUME NEW m \in [Key -> Marks], NEW p, NEW o, NEW no
  PROVE  /\ Recall(m, p, o, no) \in [Key -> Marks]
         /\ \A k \in Key : Recall(m, p, o, no)[k] \in {m[k], "dropped"}
         /\ \A k \in Key : k.to = p /\ k.about = o /\ k.no = no =>
                             Recall(m, p, o, no)[k] # "new"
         /\ \A k \in Key : m[k] = "none" => Recall(m, p, o, no)[k] = "none"
  BY DEF Recall, Marks

(***************************************************************************)
(* Distribution.                                                           *)
(***************************************************************************)

(* p is seated on order o of table t, and told.                            *)
Seats(t, m, o, at, p) ==
  /\ Waiting(t, o) /\ p \in Candidates(t, o)
  /\ order' = [t EXCEPT ![o].judge = p, ![o].since = at]
  /\ mail' = Enqueue(m, Rowkey(p, "assigned", o, t[o].no))

LEMMA DistributeFacts ==
  ASSUME NEW t, NEW m, NEW o, NEW at, NEW b \in [Bounds -> Nat],
         Distribute(t, m, o, at, b)
  PROVE  /\ (order' = t /\ mail' = m) \/ \E p \in Player : Seats(t, m, o, at, p)
         /\ budget' \in [Bounds -> Nat] /\ budget'["refusals"] = b["refusals"]
  <1>1. CASE /\ Waiting(t, o)
             /\ \E p \in Player :
                  /\ Selected(t, o, p)
                  /\ order' = [t EXCEPT ![o].judge = p, ![o].since = at]
                  /\ mail' = Enqueue(m, Rowkey(p, "assigned", o, t[o].no))
             /\ budget' = b
    BY <1>1 DEF Seats, Selected, Bounds
  <1>2. CASE /\ ~Waiting(t, o) \/ Candidates(t, o) = {}
             /\ order' = t /\ mail' = m /\ budget' = b
    BY <1>2 DEF Bounds
  <1>3. CASE /\ b["faults"] > 0
             /\ order' = t /\ mail' = m /\ budget' = [b EXCEPT !["faults"] = @ - 1]
    BY <1>3 DEF Bounds
  <1> QED  BY <1>1, <1>2, <1>3 DEF Distribute

LEMMA SeatTable ==
  ASSUME NEW t \in Tables, NEW m, NEW o \in Order, NEW at \in Nat, NEW p \in Player,
         Seats(t, m, o, at, p)
  PROVE  /\ order' \in Tables
         /\ order'[o].judge = p /\ order'[o].stage = "open" /\ t[o].stage = "open"
         /\ t[o].judge = None
         /\ \A x \in Order : /\ order'[x].stage = t[x].stage /\ order'[x].no = t[x].no
                             /\ order'[x].refused = t[x].refused
                             /\ x # o => order'[x] = t[x]
         /\ order'[o].reminded = t[o].reminded
  <1> DEFINE y == [t[o] EXCEPT !.judge = p, !.since = at]
  <1>1. t \in [Order -> Row] /\ t[o] \in Row  BY DEF Tables
  <1>2. order' = [t EXCEPT ![o] = y]  BY DEF Seats
  <1>3. /\ y \in Row /\ y.judge = p /\ y.stage = t[o].stage /\ y.no = t[o].no
        /\ y.refused = t[o].refused /\ y.reminded = t[o].reminded
    BY <1>1 DEF Row
  <1>4. t[o].stage = "open" /\ t[o].judge = None  BY DEF Seats, Waiting
  <1> HIDE DEF y
  <1>5. order' \in [Order -> Row] /\ order'[o] = y
        /\ \A x \in Order : x # o => order'[x] = t[x]
    BY <1>1, <1>2, <1>3
  <1>6. \A x \in Order : /\ order'[x].stage = t[x].stage /\ order'[x].no = t[x].no
                         /\ order'[x].refused = t[x].refused
    BY <1>3, <1>5
  <1>7. \A x \in Order : order'[x].stage # "decided" \/ order'[x].judge # None
    BY <1>3, <1>4, <1>5 DEF Tables
  <1> QED  BY <1>3, <1>4, <1>5, <1>6, <1>7 DEF Tables

(* Distribution leaves a tidy table tidy.                                  *)
LEMMA DistributeTidies ==
  ASSUME NEW t, NEW m, NEW j, NEW A, NEW n, NEW o \in Order, NEW at \in Nat,
         NEW b \in [Bounds -> Nat],
         Tidy(t, m, j, A, n), Distribute(t, m, o, at, b)
  PROVE  Tidy(order', mail', j, A, n)
  <1>1. CASE order' = t /\ mail' = m  BY <1>1
  <1>2. ASSUME NEW p \in Player, Seats(t, m, o, at, p)
        PROVE  Tidy(order', mail', j, A, n)
    <2>1. t \in Tables /\ m \in [Key -> Marks]  BY DEF Tidy
    <2>2. /\ order' \in Tables
          /\ order'[o].judge = p /\ order'[o].stage = "open" /\ t[o].stage = "open"
          /\ t[o].judge = None
          /\ \A x \in Order : /\ order'[x].stage = t[x].stage /\ order'[x].no = t[x].no
                              /\ order'[x].refused = t[x].refused
                              /\ x # o => order'[x] = t[x]
      BY <1>2, <2>1, SeatTable
    <2>3. t[o].no \in Numbers  BY <2>1, RowTypes DEF Tables
    <2> DEFINE k == Rowkey(p, "assigned", o, t[o].no)
    <2>4. k \in Key /\ k.to = p /\ k.kind = "assigned" /\ k.about = o /\ k.no = t[o].no
      BY <2>3, KeyTypes
    <2>5. mail' = Enqueue(m, k)  BY <1>2 DEF Seats
    <2> HIDE DEF k
    <2>6. mail' \in [Key -> Marks] /\ \A h \in Key : h # k => mail'[h] = m[h]
      BY <2>1, <2>4, <2>5, EnqueueFacts
    <2>7. Untraced(order', mail', j)
      BY <2>2, <2>4, <2>6 DEF Tidy, Untraced
    <2>8. InBudget(order', n)  BY <2>2 DEF Tidy, InBudget
    <2>9. Stored(order') = Stored(t)  BY <2>2 DEF Stored
    <2>10. Penalties(order', j, A)
      <3>1. \A x \in Stored(t) : x \in Order  BY DEF Stored
      <3>2. Penalties(t, j, A)  BY DEF Tidy
      <3> QED  BY <2>2, <2>9, <3>1, <3>2 DEF Penalties
    <2>11. News(order', mail')
      <3> SUFFICES ASSUME NEW h \in Key, h.kind = "assigned", mail'[h] = "new",
                          h.about \in Stored(order')
                   PROVE  order'[h.about].judge = h.to /\ order'[h.about].no = h.no
        BY DEF News
      <3>1. h.about \in Order /\ News(t, m) /\ h.to \in Player
        BY DEF Stored, Tidy, Key
      <3>2. CASE h = k  BY <2>2, <2>4, <3>2
      <3>3. CASE h # k
        <4>1. m[h] = "new"  BY <2>6, <3>3
        <4>2. t[h.about].judge = h.to /\ t[h.about].no = h.no
          BY <2>9, <3>1, <4>1 DEF News
        <4>3. h.about # o  BY <2>2, <3>1, <4>2, Constants
        <4> QED  BY <2>2, <3>1, <4>2, <4>3
      <3> QED  BY <3>2, <3>3
    <2> QED  BY <2>2, <2>6, <2>7, <2>8, <2>10, <2>11 DEF Tidy
  <1> QED  BY <1>1, <1>2, DistributeFacts

(***************************************************************************)
(* What a step may do: whom it seats, and whom it reminds.                 *)
(***************************************************************************)
Limits ==
  \A o \in Order :
    LET p == order'[o].judge
    IN p \notin {None, order[o].judge} /\ ~order'[o].reminded =>
         /\ p # Author[o]
         /\ \A i \in DOMAIN order'[o].refused : order'[o].refused[i] # p
         /\ Cardinality(Undecided(order', p)) <= MaxPending

Reminders ==
  \A k \in Key : k.kind = "reminder" /\ mail[k] = "none" /\ mail'[k] = "new"
    => order[k.about].stage = "open"

LEMMA NobodySeated ==
  ASSUME \A o \in Order : order'[o].judge \in {None, order[o].judge}
  PROVE  Limits
  BY DEF Limits

(* Distribution seats nobody beyond the limits, whatever table it is given *)
(* in which nobody is seated yet who was not seated before.                *)
LEMMA DistributeLimits ==
  ASSUME NEW t \in Tables, NEW m \in [Key -> Marks], NEW o \in Order, NEW at \in Nat,
         NEW b \in [Bounds -> Nat], Distribute(t, m, o, at, b),
         \A x \in Order : t[x].judge \in {None, order[x].judge},
         \A k \in Key : m[k] \in {mail[k], "dropped"}
  PROVE  Limits /\ Reminders
  <1>1. CASE order' = t /\ mail' = m
    BY <1>1, NobodySeated DEF Reminders
  <1>2. ASSUME NEW p \in Player, Seats(t, m, o, at, p) PROVE Limits /\ Reminders
    <2>1. /\ order' \in Tables
          /\ order'[o].judge = p /\ order'[o].stage = "open" /\ t[o].stage = "open"
          /\ t[o].judge = None
          /\ \A x \in Order : /\ order'[x].stage = t[x].stage /\ order'[x].no = t[x].no
                              /\ order'[x].refused = t[x].refused
                              /\ x # o => order'[x] = t[x]
      BY <1>2, SeatTable
    <2>2. /\ p # Author[o]
          /\ \A i \in DOMAIN t[o].refused : t[o].refused[i] # p
          /\ Cardinality(Undecided(t, p)) < MaxPending
      BY <1>2 DEF Seats, Candidates
    <2> DEFINE S == Undecided(t, p)
    <2>3. IsFiniteSet(S)  BY Constants, FS_Subset DEF Undecided
    <2>4. Undecided(order', p) = S \cup {o}
      <3>1. \A x \in Order : x # o => order'[x] = t[x]  BY <2>1
      <3> QED  BY <2>1, <3>1 DEF Undecided
    <2>5. Cardinality(Undecided(order', p)) <= MaxPending
      <3>0. Cardinality(S) < MaxPending  BY <2>2
      <3> HIDE DEF S
      <3>1. Cardinality(S) \in Nat  BY <2>3, FS_CardinalityType
      <3>2. Cardinality(S \cup {o}) = IF o \in S THEN Cardinality(S) ELSE Cardinality(S) + 1
        BY <2>3, FS_AddElement
      <3>3. Cardinality(S \cup {o}) <= MaxPending
        BY <3>0, <3>1, <3>2, Constants
      <3> QED  BY <2>4, <3>3
    <2>6. Limits
      <3>1. ASSUME NEW x \in Order, x # o
            PROVE  order'[x].judge \in {None, order[x].judge}
        BY <2>1, <3>1
      <3>2. order'[o].refused = t[o].refused  BY <2>1
      <3> QED  BY <2>1, <2>2, <2>5, <3>1, <3>2 DEF Limits
    <2>7. Reminders
      <3>1. t[o].no \in Numbers  BY RowTypes DEF Tables
      <3> DEFINE k == Rowkey(p, "assigned", o, t[o].no)
      <3>2. k \in Key /\ k.kind = "assigned"  BY <3>1, KeyTypes
      <3>3. mail' = Enqueue(m, k)  BY <1>2 DEF Seats
      <3> HIDE DEF k
      <3>4. \A h \in Key : h.kind = "reminder" => mail'[h] = m[h]
        BY <3>2, <3>3, EnqueueFacts
      <3> QED  BY <3>4 DEF Reminders
    <2> QED  BY <2>6, <2>7
  <1> QED  BY <1>1, <1>2, DistributeFacts

(***************************************************************************)
(* The steps.                                                              *)
(***************************************************************************)
Kept == OrdersInv' /\ Limits /\ Reminders

(* A step that writes neither orders nor messages nor penalties.           *)
LEMMA QuietStep ==
  ASSUME OrdersInv, Others', UNCHANGED <<order, mail, journal, alive>>,
         budget'["refusals"] = budget["refusals"]
  PROVE  Kept
  <1>1. Tidy(order', mail', journal', alive', budget'["refusals"])  BY DEF OrdersInv
  <1>2. Limits /\ Reminders  BY NobodySeated DEF Reminders
  <1> QED  BY <1>1, <1>2 DEF Kept, OrdersInv

LEMMA IsRow ==
  ASSUME OrdersInv, NEW o \in Order
  PROVE  order \in [Order -> Row] /\ order[o] \in Row
  BY DEF OrdersInv, Tidy, Tables

(* An order is submitted.                                                  *)
LEMMA SubmitStep ==
  ASSUME OrdersInv, NEW o \in Order, Submit(o)
  PROVE  Kept
  <1> DEFINE N == {0} \cup {order[x].number : x \in Stored(order)}
             number == 1 + Max(N)
             t == [order EXCEPT ![o] = Opened(number)]
             n == budget["refusals"]
  <1>1. /\ order[o].stage = "absent" /\ Distribute(t, mail, o, now, budget)
        /\ UNCHANGED <<now, alive, nation, consent, rating, journal, request, pass>>
    BY DEF Submit
  <1>2. number \in Nat
    <2> DEFINE D == {x \in Order : order[x].stage \in {"open", "decided"}}
               f == [x \in D |-> order[x].number]
               I == {order[x].number : x \in D}
    <2>1. IsFiniteSet(D)  BY Constants, FS_Subset
    <2>2. f \in Surjection(D, I)  BY Fun_IsSurj
    <2>3. IsFiniteSet(I)  BY <2>1, <2>2, FS_Surjection
    <2>4. N = {0} \cup I  BY DEF Stored
    <2>5. IsFiniteSet({0})  BY FS_Singleton
    <2>6. IsFiniteSet(N)  BY <2>3, <2>4, <2>5, FS_Union
    <2>7. \A x \in Order : order[x].number \in Nat  BY IsRow, RowTypes
    <2>8. N \in SUBSET Nat /\ 0 \in N  BY <2>7 DEF Stored
    <2> HIDE DEF N
    <2>9. N \in SUBSET Int /\ N # {}  BY <2>8
    <2>10. Max(N) \in N  BY <2>6, <2>9, MaxIsGreatest
    <2>11. Max(N) \in Nat  BY <2>8, <2>10
    <2> QED  BY <2>11
  <1> HIDE DEF number
  <1>3. Tidy(order, mail, journal, alive, n)  BY DEF OrdersInv
  <1>4. /\ t[o] = Opened(number) /\ t \in [Order -> Row]
        /\ \A x \in Order : x # o => t[x] = order[x]
    BY <1>2, OpenedFacts, IsRow
  <1>5. /\ t[o].stage = "open" /\ t[o].judge = None /\ t[o].no = 1
        /\ t[o].refused = <<>>
    BY <1>2, <1>4, OpenedFacts
  <1>6. /\ order[o] = NoOrder /\ \A e \in journal : e.about # o
        /\ \A k \in Key : k.about = o => mail[k] = "none"
    BY <1>1, <1>3 DEF Tidy, Untraced
  <1> HIDE DEF t
  <1>7. Tidy(t, mail, journal, alive, n)
    <2>1. t \in Tables
      <3>1. \A x \in Order : t[x].stage # "decided" \/ t[x].judge # None
        BY <1>3, <1>4, <1>5 DEF Tidy, Tables
      <3> QED  BY <1>4, <3>1 DEF Tables
    <2>2. Untraced(t, mail, journal)
      <3>1. \A x \in Order : t[x].stage = "absent" => x # o  BY <1>5
      <3> QED  BY <1>3, <1>4, <3>1 DEF Tidy, Untraced
    <2>3. InBudget(t, n)
      <3>1. order[o].no = 1 /\ t[o].no = 1  BY <1>5, <1>6, NoOrderFacts
      <3>2. \A x \in Order : t[x].no = order[x].no  BY <1>4, <3>1
      <3> QED  BY <1>3, <3>2 DEF Tidy, InBudget
    <2>4. \A x \in Stored(t) : x # o => x \in Stored(order) /\ t[x] = order[x]
      BY <1>4 DEF Stored
    <2>5. Penalties(t, journal, alive)
      <3>1. Len(t[o].refused) = 0 /\ DOMAIN t[o].refused = {} BY <1>5
      <3>2. ASSUME NEW x \in Stored(t)
            PROVE  /\ Len(t[x].refused) = t[x].no - 1
                   /\ \A k \in DOMAIN t[x].refused :
                        t[x].refused[k] \in alive =>
                          \E e \in journal : e.player = t[x].refused[k] /\ e.about = x /\ e.no = k
                   /\ \A e \in journal : e.about = x => e.no < t[x].no
        <4>1. CASE x = o  BY <1>5, <1>6, <3>1, <4>1
        <4>2. CASE x # o
          <5>1. x \in Stored(order) /\ t[x] = order[x]  BY <2>4, <4>2
          <5>2. Penalties(order, journal, alive)  BY <1>3 DEF Tidy
          <5> QED  BY <5>1, <5>2 DEF Penalties
        <4> QED  BY <4>1, <4>2
      <3> QED  BY <3>2 DEF Penalties
    <2>6. News(t, mail)
      <3>1. \A k \in Key : mail[k] = "new" => k.about # o  BY <1>6
      <3> QED  BY <1>3, <2>4, <3>1 DEF Tidy, News
    <2> QED  BY <1>3, <2>1, <2>2, <2>3, <2>5, <2>6 DEF Tidy
  <1>8. now \in Nat /\ budget \in [Bounds -> Nat]  BY Constants DEF OrdersInv, Others
  <1>9. Tidy(order', mail', journal, alive, n)
    BY <1>1, <1>7, <1>8, DistributeTidies
  <1>10. budget' \in [Bounds -> Nat] /\ budget'["refusals"] = n
    BY <1>1, <1>8, DistributeFacts
  <1>11. Limits /\ Reminders
    <2>1. t \in Tables /\ mail \in [Key -> Marks]  BY <1>7 DEF Tidy
    <2>2. \A x \in Order : t[x].judge \in {None, order[x].judge}  BY <1>4, <1>5
    <2> QED  BY <1>1, <1>8, <2>1, <2>2, DistributeLimits
  <1>12. Others'  BY <1>1, <1>10 DEF OrdersInv, Others
  <1> QED  BY <1>1, <1>9, <1>10, <1>11, <1>12 DEF Kept, OrdersInv

(* Messages go out and come back; nobody else notices.                     *)
LEMMA MailStep ==
  ASSUME OrdersInv, Others', UNCHANGED <<order, journal, alive>>,
         budget'["refusals"] = budget["refusals"],
         mail' \in [Key -> Marks],
         \A k \in Key : mail'[k] = mail[k] \/ (mail[k] # "none" /\ mail'[k] # "new")
  PROVE  Kept
  <1>1. Untraced(order', mail', journal')  BY DEF OrdersInv, Tidy, Untraced
  <1>2. News(order', mail')  BY DEF OrdersInv, Tidy, News
  <1>3. Tidy(order', mail', journal', alive', budget'["refusals"])
    BY <1>1, <1>2 DEF OrdersInv, Tidy
  <1>4. Limits  BY NobodySeated
  <1>5. Reminders  BY DEF Reminders
  <1> QED  BY <1>3, <1>4, <1>5 DEF Kept, OrdersInv

LEMMA VerdictStep ==
  ASSUME OrdersInv, NEW o \in Order, WriteVerdict(o)
  PROVE  Kept
  <1> DEFINE y == [order[o] EXCEPT !.stage = "decided"]  n == budget["refusals"]
  <1>1. /\ order[o].stage = "open" /\ order[o].judge # None
        /\ UNCHANGED <<now, mail, alive, nation, consent, rating, journal, request,
                       pass, budget>>
    BY DEF WriteVerdict
  <1>2. order' = [order EXCEPT ![o] = y]  BY DEF WriteVerdict
  <1>3. /\ y \in Row /\ y.stage = "decided" /\ y.judge = order[o].judge
        /\ y.no = order[o].no /\ y.refused = order[o].refused
    BY IsRow DEF Row
  <1> HIDE DEF y
  <1>4. order' \in [Order -> Row] /\ order'[o] = y
        /\ \A x \in Order : x # o => order'[x] = order[x]
    BY <1>2, <1>3, IsRow
  <1>5. Tidy(order, mail, journal, alive, n)  BY DEF OrdersInv
  <1>6. order' \in Tables  BY <1>1, <1>3, <1>4, <1>5 DEF Tidy, Tables
  <1>7. Stored(order') = Stored(order)  BY <1>1, <1>3, <1>4 DEF Stored
  <1>8. \A x \in Order : /\ order'[x].judge = order[x].judge /\ order'[x].no = order[x].no
                         /\ order'[x].refused = order[x].refused
                         /\ order'[x].stage = "absent" => order'[x] = order[x]
    BY <1>3, <1>4
  <1>9. Untraced(order', mail, journal)  BY <1>5, <1>8 DEF Tidy, Untraced
  <1>10. InBudget(order', n)  BY <1>5, <1>8 DEF Tidy, InBudget
  <1>11. Penalties(order', journal, alive)
    <2>1. \A x \in Stored(order) : x \in Order  BY DEF Stored
    <2>2. Penalties(order, journal, alive)  BY <1>5 DEF Tidy
    <2> QED  BY <1>7, <1>8, <2>1, <2>2 DEF Penalties
  <1>12. News(order', mail)
    <2>1. \A x \in Stored(order) : x \in Order  BY DEF Stored
    <2> QED  BY <1>5, <1>7, <1>8, <2>1 DEF Tidy, News
  <1>13. Tidy(order', mail', journal', alive', budget'["refusals"])
    BY <1>1, <1>5, <1>6, <1>9, <1>10, <1>11, <1>12 DEF Tidy
  <1>14. Limits  BY <1>8, NobodySeated
  <1>15. Reminders  BY <1>1 DEF Reminders
  <1>16. Others'  BY <1>1 DEF OrdersInv, Others
  <1> QED  BY <1>13, <1>14, <1>15, <1>16 DEF Kept, OrdersInv

(* The worker reminds a judge: of the row as listed, if the row of today   *)
(* is still to be decided.                                                 *)
LEMMA RemindStep ==
  ASSUME OrdersInv, NEW w \in Worker, RemindNext(w)
  PROVE  Kept
  <1> DEFINE n == budget["refusals"]
  <1>1. PICK d \in pass[w].due :
          /\ pass' = [pass EXCEPT ![w] = Unlisted(pass[w], d)]
          /\ IF Claimable(d.id)
             THEN /\ order' = [order EXCEPT ![d.id].reminded = TRUE]
                  /\ mail' = (IF d.since + Term <= pass[w].at THEN mail
                              ELSE Enqueue(mail, Rowkey(d.judge, "reminder", d.id, d.no)))
             ELSE UNCHANGED <<order, mail>>
    BY DEF RemindNext
  <1>2. UNCHANGED <<now, alive, nation, consent, rating, journal, request, budget>>
    BY DEF RemindNext
  <1>3. pass[w] \in PassType  BY DEF OrdersInv, Others
  <1>4. pass' \in [Worker -> PassType]
    <2>1. Unlisted(pass[w], d) \in PassType  BY <1>3 DEF Unlisted, Idle, PassType
    <2> QED  BY <1>1, <2>1 DEF OrdersInv, Others
  <1>5. d \in Seen  BY <1>3 DEF PassType
  <1>6. d.id \in Order /\ d.judge \in Player /\ d.no \in Numbers  BY <1>5 DEF Seen
  <1>7. Others'  BY <1>2, <1>4 DEF OrdersInv, Others
  <1>8. CASE ~Claimable(d.id)
    <2>1. UNCHANGED <<order, mail>>  BY <1>1, <1>8
    <2> QED  BY <1>2, <1>7, <2>1, QuietStep
  <1>9. CASE Claimable(d.id)
    <2> DEFINE o == d.id  y == [order[o] EXCEPT !.reminded = TRUE]
               k == Rowkey(d.judge, "reminder", o, d.no)
    <2>1. order' = [order EXCEPT ![o] = y]  BY <1>1, <1>9
    <2>2. mail' = mail \/ mail' = Enqueue(mail, k)  BY <1>1, <1>9
    <2>3. k \in Key /\ k.kind = "reminder" /\ k.about = o  BY <1>6, KeyTypes
    <2>4. order[o].stage = "open"  BY <1>9 DEF Claimable
    <2>5. /\ y \in Row /\ y.stage = order[o].stage /\ y.judge = order[o].judge
          /\ y.no = order[o].no /\ y.refused = order[o].refused
      BY <1>6, IsRow DEF Row
    <2> HIDE DEF y, k, o
    <2>6. o \in Order  BY <1>6 DEF o
    <2>7. order' \in [Order -> Row] /\ order'[o] = y
          /\ \A x \in Order : x # o => order'[x] = order[x]
      BY <2>1, <2>5, <2>6, IsRow
    <2>8. Tidy(order, mail, journal, alive, n)  BY DEF OrdersInv
    <2>9. mail' \in [Key -> Marks] /\ \A h \in Key : h # k => mail'[h] = mail[h]
      BY <2>2, <2>3, <2>8, EnqueueFacts DEF Tidy
    <2>10. \A x \in Order : /\ order'[x].judge = order[x].judge /\ order'[x].no = order[x].no
                            /\ order'[x].refused = order[x].refused
                            /\ order'[x].stage = order[x].stage
                            /\ order'[x].stage = "absent" => order'[x] = order[x] /\ x # o
      BY <2>4, <2>5, <2>7
    <2>11. order' \in Tables
      <3>1. \A x \in Order : order[x].stage # "decided" \/ order[x].judge # None
        BY <2>8 DEF Tidy, Tables
      <3> QED  BY <2>7, <2>10, <3>1 DEF Tables
    <2>12. Stored(order') = Stored(order)  BY <2>10 DEF Stored
    <2>13. Untraced(order', mail', journal)
      BY <2>3, <2>8, <2>9, <2>10 DEF Tidy, Untraced
    <2>14. InBudget(order', n)  BY <2>8, <2>10 DEF Tidy, InBudget
    <2>15. Penalties(order', journal, alive)
      <3>1. \A x \in Stored(order) : x \in Order  BY DEF Stored
      <3>2. Penalties(order, journal, alive)  BY <2>8 DEF Tidy
      <3> QED  BY <2>10, <2>12, <3>1, <3>2 DEF Penalties
    <2>16. News(order', mail')
      <3>1. \A x \in Stored(order) : x \in Order  BY DEF Stored
      <3>2. \A h \in Key : h.kind = "assigned" => mail'[h] = mail[h]
        BY <2>3, <2>9
      <3> QED  BY <2>8, <2>10, <2>12, <3>1, <3>2 DEF Tidy, News
    <2>17. Tidy(order', mail', journal', alive', budget'["refusals"])
      BY <1>2, <2>8, <2>9, <2>11, <2>13, <2>14, <2>15, <2>16 DEF Tidy
    <2>18. Limits  BY <2>10, NobodySeated
    <2>19. Reminders  BY <2>3, <2>4, <2>9 DEF Reminders
    <2> QED  BY <1>7, <2>17, <2>18, <2>19 DEF Kept, OrdersInv
  <1> QED  BY <1>8, <1>9

(* The worker tries to seat an order of its list.                          *)
LEMMA SeatStep ==
  ASSUME OrdersInv, NEW w \in Worker, SeatNext(w)
  PROVE  Kept
  <1> DEFINE n == budget["refusals"]
  <1>1. PICK o \in pass[w].todo :
          /\ pass' = [pass EXCEPT ![w].todo = @ \ {o}]
          /\ Distribute(order, mail, o, pass[w].at, budget)
    BY DEF SeatNext
  <1>2. UNCHANGED <<now, alive, nation, consent, rating, journal, request>>
    BY DEF SeatNext
  <1>3. pass[w] \in PassType  BY DEF OrdersInv, Others
  <1>4. o \in Order /\ pass[w].at \in Nat  BY <1>3 DEF PassType
  <1>5. pass' \in [Worker -> PassType]
    <2> DEFINE y == [pass[w] EXCEPT !.todo = @ \ {o}]
    <2>1. y \in PassType  BY <1>3 DEF PassType
    <2>2. pass' = [pass EXCEPT ![w] = y]  BY <1>1
    <2> HIDE DEF y
    <2> QED  BY <2>1, <2>2 DEF OrdersInv, Others
  <1>6. budget \in [Bounds -> Nat] /\ Tidy(order, mail, journal, alive, n)
    BY DEF OrdersInv, Others
  <1>7. PICK at \in Nat : at = pass[w].at  BY <1>4
  <1>8. Distribute(order, mail, o, at, budget)  BY <1>1, <1>7
  <1>9. Tidy(order', mail', journal, alive, n)
    BY <1>4, <1>6, <1>8, DistributeTidies
  <1>10. budget' \in [Bounds -> Nat] /\ budget'["refusals"] = n
    BY <1>6, <1>8, DistributeFacts
  <1>11. order \in Tables /\ mail \in [Key -> Marks]  BY <1>6 DEF Tidy
  <1>12. Limits /\ Reminders  BY <1>4, <1>6, <1>8, <1>11, DistributeLimits
  <1>13. Others'  BY <1>2, <1>5, <1>10 DEF OrdersInv, Others
  <1> QED  BY <1>2, <1>9, <1>10, <1>12, <1>13 DEF Kept, OrdersInv

(* A judge refuses: the order waits again under its next number, the       *)
(* penalty is written down, and distribution looks for another judge.      *)
LEMMA RefuseStep ==
  ASSUME OrdersInv, NEW r \in request, Refuse(r)
  PROVE  Kept
  <1> DEFINE o == r.about
             n == budget["refusals"]
             c == [budget EXCEPT !["refusals"] = @ - 1]
             x == order[o]
             z == Released(x)
             y == Refused(x, r.who)
             t == [order EXCEPT ![o] = y]
             m == Recall(mail, r.who, o, x.no)
  <1>1. /\ MayRefuse(r) /\ n > 0 /\ request' = request \ {r}
        /\ UNCHANGED <<now, alive, nation, consent, pass>>
    BY DEF Refuse
  <1>2. Penalised(r, x.no)  BY DEF Refuse
  <1>3. Distribute(t, m, o, r.at, c)  BY DEF Refuse
  <1>4. /\ r.who \in Player /\ o \in Order /\ r.rating \in 0..Rating /\ r.at \in 0..MaxTime
    BY DEF OrdersInv, Others
  <1>5. r.at \in Nat /\ r.rating \in Nat  BY <1>4, Constants
  <1>6. Tidy(order, mail, journal, alive, n)  BY DEF OrdersInv
  <1>7. budget \in [Bounds -> Nat] /\ n \in Nat  BY DEF OrdersInv, Others, Bounds
  <1>8. c \in [Bounds -> Nat] /\ c["refusals"] = n - 1  BY <1>1, <1>7 DEF Bounds
  <1>9. x \in Row /\ x.refused \in Seq(Player) /\ x.no \in Numbers /\ x.no \in Nat
        /\ Len(x.refused) \in Nat
    BY <1>4, IsRow, RowTypes
  <1>10. x.stage = "open" /\ x.judge = r.who  BY <1>1 DEF MayRefuse
  <1>11. x.no + n <= MaxRefusals + 1  BY <1>4, <1>6 DEF Tidy, InBudget
  <1>12. x.no + 1 \in Numbers  BY <1>1, <1>7, <1>9, <1>11, Constants DEF Numbers
  <1>13. z \in Row /\ z.judge = None /\ z.stage = x.stage /\ z.refused = x.refused
    BY <1>9, ReleaseFacts
  <1>14. Append(x.refused, r.who) \in Seq(Player)  BY <1>4, <1>9
  <1> HIDE DEF z, x
  <1>15. /\ y \in Row /\ y.judge = None /\ y.stage = "open" /\ y.no = x.no + 1
         /\ y.refused = Append(x.refused, r.who)
    BY <1>10, <1>12, <1>13, <1>14 DEF Row, NextNo, Refused, z
  <1> HIDE DEF y
  <1>16. /\ t \in [Order -> Row] /\ t[o] = y
         /\ \A a \in Order : a # o => t[a] = order[a]
    BY <1>4, <1>15, IsRow
  <1>17. order[o] = x  BY DEF x
  <1> HIDE DEF t
  <1>18. Len(x.refused) = x.no - 1 /\ \A e \in journal : e.about = o => e.no < x.no
    <2>1. o \in Stored(order)  BY <1>4, <1>10, <1>17 DEF Stored
    <2> QED  BY <1>6, <1>17, <2>1 DEF Tidy, Penalties
  <1>19. PICK after \in 0..Rating :
           /\ rating' = [rating EXCEPT ![r.who] = after]
           /\ after <= r.rating
           /\ journal' = journal \cup {[player |-> r.who, about |-> o, no |-> x.no,
                                        applied |-> r.rating - after]}
    <2> DEFINE a == IF r.rating > Penalty THEN r.rating - Penalty ELSE 0
    <2>1. ~ \E e \in journal : e.about = r.about /\ e.no = x.no
      <3>1. \A e \in journal : e.no \in Nat
        BY <1>6, Constants DEF Tidy, Entry, Numbers
      <3> QED  BY <1>9, <1>18, <3>1
    <2>2. /\ rating' = [rating EXCEPT ![r.who] = a]
          /\ journal' = journal \cup {[player |-> r.who, about |-> r.about, no |-> x.no,
                                       applied |-> r.rating - a]}
      BY <1>2, <2>1 DEF Penalised
    <2>3. a \in 0..Rating /\ a <= r.rating  BY <1>4, Constants
    <2> QED  BY <2>2, <2>3
  <1> DEFINE new == [player |-> r.who, about |-> o, no |-> x.no, applied |-> r.rating - after]
  <1>20. /\ new \in Entry /\ new.player = r.who /\ new.about = o /\ new.no = x.no
         /\ journal' = journal \cup {new}
    <2>1. r.rating - after \in Nat  BY <1>5, <1>19, Constants
    <2> QED  BY <1>4, <1>9, <1>19, <2>1 DEF Entry
  <1> HIDE DEF new
  <1>21. /\ m \in [Key -> Marks]
         /\ \A k \in Key : m[k] \in {mail[k], "dropped"}
         /\ \A k \in Key : k.to = r.who /\ k.about = o /\ k.no = x.no => m[k] # "new"
         /\ \A k \in Key : mail[k] = "none" => m[k] = "none"
    BY <1>6, RecallFacts DEF Tidy
  <1> HIDE DEF m, c, o
  <1>22. Tidy(t, m, journal', alive, n - 1)
    <2>1. t \in Tables
      <3>1. \A a \in Order : t[a].stage # "decided" \/ t[a].judge # None
        BY <1>6, <1>15, <1>16 DEF Tidy, Tables
      <3> QED  BY <1>16, <3>1 DEF Tables
    <2>2. journal' \subseteq Entry  BY <1>6, <1>20 DEF Tidy
    <2>3. \A a \in Order : t[a].stage = "absent" => a # o /\ t[a] = order[a]
      BY <1>15, <1>16
    <2>4. Untraced(t, m, journal')
      BY <1>6, <1>20, <1>21, <2>3 DEF Tidy, Untraced
    <2>5. InBudget(t, n - 1)
      <3>1. \A a \in Order : order[a].no \in Nat  BY IsRow, RowTypes
      <3>2. \A a \in Order : order[a].no + n <= MaxRefusals + 1
        BY <1>6 DEF Tidy, InBudget
      <3>3. ASSUME NEW a \in Order PROVE t[a].no + (n - 1) <= MaxRefusals + 1
        <4> DEFINE i == order[a].no  b == MaxRefusals + 1
        <4>1. i \in Nat /\ i + n <= b /\ b \in Nat  BY <3>1, <3>2, Constants
        <4>2. t[a].no \in {i, i + 1}  BY <1>15, <1>16, <1>17
        <4> HIDE DEF n, i, b
        <4> QED  BY <1>7, <4>1, <4>2 DEF b
      <3> QED  BY <3>3 DEF InBudget
    <2>6. \A a \in Stored(t) : a # o => a \in Stored(order) /\ t[a] = order[a]
      BY <1>16 DEF Stored
    <2>7. Penalties(t, journal', alive)
      <3>1. ASSUME NEW a \in Stored(t)
            PROVE  /\ Len(t[a].refused) = t[a].no - 1
                   /\ \A k \in DOMAIN t[a].refused :
                        t[a].refused[k] \in alive =>
                          \E e \in journal' : e.player = t[a].refused[k] /\ e.about = a /\ e.no = k
                   /\ \A e \in journal' : e.about = a => e.no < t[a].no
        <4>1. CASE a # o
          <5>1. a \in Stored(order) /\ t[a] = order[a]  BY <2>6, <4>1
          <5>2. Penalties(order, journal, alive)  BY <1>6 DEF Tidy
          <5>3. /\ Len(t[a].refused) = t[a].no - 1
                /\ \A k \in DOMAIN t[a].refused :
                     t[a].refused[k] \in alive =>
                       \E e \in journal : e.player = t[a].refused[k] /\ e.about = a /\ e.no = k
                /\ \A e \in journal : e.about = a => e.no < t[a].no
            BY <5>1, <5>2 DEF Penalties
          <5> QED  BY <1>20, <4>1, <5>3
        <4>2. CASE a = o
          <5>1. t[a] = y  BY <1>16, <4>2
          <5>2. Len(y.refused) = Len(x.refused) + 1  BY <1>9, <1>4, <1>15
          <5>3. Len(y.refused) = y.no - 1  BY <1>9, <1>15, <1>18, <5>2
          <5>4. ASSUME NEW k \in DOMAIN y.refused, y.refused[k] \in alive
                PROVE  \E e \in journal' : e.player = y.refused[k] /\ e.about = o /\ e.no = k
            <6>1. k \in 1..(Len(x.refused) + 1)  BY <1>4, <1>9, <1>15, <5>2, <5>4
            <6>2. CASE k = Len(x.refused) + 1
              <7>1. y.refused[k] = r.who  BY <1>4, <1>9, <1>15, <6>2
              <7>2. k = x.no  BY <1>9, <1>18, <6>2
              <7> QED  BY <1>20, <7>1, <7>2
            <6>3. CASE k # Len(x.refused) + 1
              <7>1. k \in 1..Len(x.refused)  BY <1>9, <6>1, <6>3
              <7>2. k \in DOMAIN x.refused /\ y.refused[k] = x.refused[k]
                BY <1>4, <1>9, <1>15, <7>1
              <7>3. o \in Stored(order)  BY <1>4, <1>10, <1>17 DEF Stored, o
              <7>4. \E e \in journal : e.player = x.refused[k] /\ e.about = o /\ e.no = k
                BY <1>6, <1>17, <5>4, <7>2, <7>3 DEF Tidy, Penalties
              <7> QED  BY <1>20, <7>2, <7>4
            <6> QED  BY <6>2, <6>3
          <5>5. \A e \in journal' : e.about = o => e.no < y.no
            <6>1. \A e \in journal : e.no \in Nat
              BY <1>6, Constants DEF Tidy, Entry, Numbers
            <6> QED  BY <1>9, <1>15, <1>18, <1>20, <6>1
          <5> QED  BY <4>2, <5>1, <5>3, <5>4, <5>5
        <4> QED  BY <4>1, <4>2
      <3> QED  BY <3>1 DEF Penalties
    <2>8. News(t, m)
      <3> SUFFICES ASSUME NEW k \in Key, k.kind = "assigned", m[k] = "new",
                          k.about \in Stored(t)
                   PROVE  t[k.about].judge = k.to /\ t[k.about].no = k.no
        BY DEF News
      <3>1. mail[k] = "new"  BY <1>21
      <3>2. News(order, mail)  BY <1>6 DEF Tidy
      <3>3. k.about # o
        <4> SUFFICES ASSUME k.about = o PROVE FALSE  OBVIOUS
        <4>1. o \in Stored(order)  BY <1>4, <1>10, <1>17 DEF Stored, o
        <4>2. k.to = r.who /\ k.no = x.no  BY <1>10, <1>17, <3>1, <3>2, <4>1 DEF News
        <4> QED  BY <1>21, <4>2
      <3> QED  BY <2>6, <3>1, <3>2, <3>3 DEF News
    <2> QED  BY <1>21, <2>1, <2>2, <2>4, <2>5, <2>7, <2>8 DEF Tidy
  <1>23. Tidy(order', mail', journal', alive, n - 1)
    <2>1. o \in Order  BY <1>4 DEF o
    <2>2. \A j : Tidy(t, m, j, alive, n - 1) => Tidy(order', mail', j, alive, n - 1)
      BY <1>3, <1>5, <1>8, <2>1, DistributeTidies
    <2> QED  BY <1>22, <2>2
  <1>24. budget' \in [Bounds -> Nat] /\ budget'["refusals"] = n - 1
    BY <1>3, <1>8, DistributeFacts
  <1>25. Limits /\ Reminders
    <2>1. t \in Tables /\ m \in [Key -> Marks]  BY <1>22 DEF Tidy
    <2>2. \A a \in Order : t[a].judge \in {None, order[a].judge}  BY <1>15, <1>16
    <2>3. o \in Order  BY <1>4 DEF o
    <2> QED  BY <1>3, <1>5, <1>8, <1>21, <2>1, <2>2, <2>3, DistributeLimits
  <1>26. Others'
    <2>1. rating' \in [Player -> 0..Rating]  BY <1>4, <1>19 DEF OrdersInv, Others
    <2> QED  BY <1>1, <1>24, <2>1 DEF OrdersInv, Others
  <1>27. Tidy(order', mail', journal', alive', budget'["refusals"])
    BY <1>1, <1>23, <1>24
  <1> QED  BY <1>25, <1>26, <1>27 DEF Kept, OrdersInv

(* The administrator seats a judge of his choice.                          *)
LEMMA AdminAssignStep ==
  ASSUME OrdersInv, NEW o \in Order, NEW p \in Player, AdminAssign(o, p)
  PROVE  Kept
  <1> DEFINE n == budget["refusals"]
             y == [order[o] EXCEPT !.judge = p, !.since = now, !.reminded = TRUE]
  <1>1. /\ order[o].stage = "open" /\ p # order[o].judge
        /\ UNCHANGED <<now, alive, nation, consent, rating, journal, request, pass>>
    BY DEF AdminAssign
  <1>2. order' = [order EXCEPT ![o] = y]  BY DEF AdminAssign
  <1>3. mail' = IF order[o].judge = None THEN mail
                ELSE Recall(mail, order[o].judge, o, order[o].no)
    BY DEF AdminAssign
  <1>4. budget' \in [Bounds -> Nat] /\ budget'["refusals"] = n
    BY DEF AdminAssign, Spend, OrdersInv, Others, Bounds
  <1>5. now \in Nat  BY Constants DEF OrdersInv, Others
  <1>6. /\ y \in Row /\ y.stage = "open" /\ y.judge = p /\ y.no = order[o].no
        /\ y.refused = order[o].refused /\ y.reminded
    BY <1>1, <1>5, IsRow DEF Row
  <1> HIDE DEF y
  <1>7. /\ order' \in [Order -> Row] /\ order'[o] = y
        /\ \A x \in Order : x # o => order'[x] = order[x]
    BY <1>2, <1>6, IsRow
  <1>8. Tidy(order, mail, journal, alive, n)  BY DEF OrdersInv
  <1>9. \A x \in Order : /\ order'[x].no = order[x].no
                         /\ order'[x].refused = order[x].refused
                         /\ order'[x].stage = order[x].stage
                         /\ order'[x].stage = "absent" => order'[x] = order[x] /\ x # o
    BY <1>1, <1>6, <1>7
  <1>10. order' \in Tables
    <2>1. \A x \in Order : order'[x].stage # "decided" \/ order'[x].judge # None
      BY <1>6, <1>7, <1>8 DEF Tidy, Tables
    <2> QED  BY <1>7, <2>1 DEF Tables
  <1>11. /\ mail' \in [Key -> Marks]
         /\ \A k \in Key : mail'[k] \in {mail[k], "dropped"}
         /\ \A k \in Key : mail[k] = "none" => mail'[k] = "none"
         /\ order[o].judge # None =>
              \A k \in Key : k.to = order[o].judge /\ k.about = o /\ k.no = order[o].no =>
                               mail'[k] # "new"
    <2>1. CASE order[o].judge = None  BY <1>3, <1>8, <2>1 DEF Tidy
    <2>2. CASE order[o].judge # None
      <3>1. mail' = Recall(mail, order[o].judge, o, order[o].no)  BY <1>3, <2>2
      <3>2. mail \in [Key -> Marks]  BY <1>8 DEF Tidy
      <3> QED  BY <3>1, <3>2, RecallFacts
    <2> QED  BY <2>1, <2>2
  <1>12. Stored(order') = Stored(order)  BY <1>9 DEF Stored
  <1>13. Untraced(order', mail', journal)  BY <1>8, <1>9, <1>11 DEF Tidy, Untraced
  <1>14. InBudget(order', n)  BY <1>8, <1>9 DEF Tidy, InBudget
  <1>15. Penalties(order', journal, alive)
    <2>1. \A x \in Stored(order) : x \in Order  BY DEF Stored
    <2>2. Penalties(order, journal, alive)  BY <1>8 DEF Tidy
    <2> QED  BY <1>9, <1>12, <2>1, <2>2 DEF Penalties
  <1>16. News(order', mail')
    <2> SUFFICES ASSUME NEW k \in Key, k.kind = "assigned", mail'[k] = "new",
                        k.about \in Stored(order)
                 PROVE  order'[k.about].judge = k.to /\ order'[k.about].no = k.no
      BY <1>12 DEF News
    <2>1. mail[k] = "new"  BY <1>11
    <2>2. order[k.about].judge = k.to /\ order[k.about].no = k.no
      BY <1>8, <2>1 DEF Tidy, News
    <2>3. k.to # None  BY Constants DEF Key
    <2>4. k.about # o  BY <1>11, <2>2, <2>3
    <2>5. k.about \in Order  BY DEF Stored
    <2> QED  BY <1>7, <2>2, <2>4, <2>5
  <1>17. Tidy(order', mail', journal', alive', budget'["refusals"])
    BY <1>1, <1>4, <1>8, <1>10, <1>11, <1>13, <1>14, <1>15, <1>16 DEF Tidy
  <1>18. Limits
    <2>1. \A x \in Order : order'[x].judge \in {None, order[x].judge} \/ order'[x].reminded
      BY <1>6, <1>7
    <2> QED  BY <2>1 DEF Limits
  <1>19. Reminders  BY <1>11 DEF Reminders
  <1>20. Others'  BY <1>1, <1>4 DEF OrdersInv, Others
  <1> QED  BY <1>17, <1>18, <1>19, <1>20 DEF Kept, OrdersInv

(* A player is deleted: his orders are gone, and those he judged wait.     *)
LEMMA DeletePlayerStep ==
  ASSUME OrdersInv, NEW p \in Player, DeletePlayer(p)
  PROVE  Kept
  <1> DEFINE n == budget["refusals"]
             gone == [NoOrder EXCEPT !.stage = "gone"]
             Goes(x) == x \in Stored(order)
                        /\ (Author[x] = p \/ (order[x].stage = "decided" /\ order[x].judge = p))
  <1>1. /\ alive' = alive \ {p} /\ nation' = nation \ {p} /\ consent' = consent \ {p}
        /\ mail' = [k \in Key |-> IF k.to = p THEN "none" ELSE mail[k]]
        /\ journal' = {e \in journal : e.player # p}
        /\ request' = {r \in request : r.who # p}
        /\ UNCHANGED <<now, rating, pass>>
    BY DEF DeletePlayer
  <1>2. order' = [o \in Order |-> IF Goes(o) THEN gone
                                  ELSE IF o \in Undecided(order, p) THEN Released(order[o])
                                  ELSE order[o]]
    BY DEF DeletePlayer
  <1>3. budget' \in [Bounds -> Nat] /\ budget'["refusals"] = n
    BY DEF DeletePlayer, Spend, OrdersInv, Others, Bounds
  <1>4. /\ gone \in Row /\ gone.stage = "gone" /\ gone.judge = None /\ gone.no = 1
    BY NoOrderFacts DEF Row
  <1>5. Tidy(order, mail, journal, alive, n) /\ n \in Nat
    BY DEF OrdersInv, Others, Bounds
  <1> HIDE DEF gone
  <1>6. \A x \in Order :
          \/ order'[x] = gone /\ x \in Stored(order)
          \/ x \in Undecided(order, p) /\ order'[x] = Released(order[x])
          \/ order'[x] = order[x] /\ ~Goes(x) /\ x \notin Undecided(order, p)
    BY <1>2
  <1>7. \A x \in Undecided(order, p) :
          /\ x \in Order /\ order[x].stage = "open"
          /\ Released(order[x]) \in Row /\ Released(order[x]).judge = None
          /\ Released(order[x]).stage = "open" /\ Released(order[x]).no = order[x].no
          /\ Released(order[x]).refused = order[x].refused
    BY IsRow, ReleaseFacts DEF Undecided
  <1>8. \A x \in Order : order'[x] \in Row  BY <1>4, <1>6, <1>7, IsRow
  <1>9. order' \in [Order -> Row]
    <2>1. order' = [o \in Order |-> order'[o]]  BY <1>2
    <2> QED  BY <1>8, <2>1
  <1>10. \A x \in Stored(order') :
           /\ x \in Stored(order) /\ order'[x].stage = order[x].stage
           /\ order'[x].no = order[x].no /\ order'[x].refused = order[x].refused
           /\ order'[x].judge = order[x].judge \/ order[x].judge = p
    BY <1>4, <1>6, <1>7 DEF Stored, Undecided
  <1>11. order' \in Tables
    <2>1. \A x \in Order : order'[x].stage # "decided" \/ order'[x].judge # None
      BY <1>4, <1>5, <1>6, <1>7 DEF Tidy, Tables
    <2> QED  BY <1>9, <2>1 DEF Tables
  <1>12. mail' \in [Key -> Marks] /\ \A k \in Key : mail'[k] = "none" \/ mail'[k] = mail[k]
    BY <1>1, <1>5 DEF Tidy, Marks
  <1>13. journal' \subseteq journal  BY <1>1
  <1>14. Untraced(order', mail', journal')
    <2>1. \A x \in Order : order'[x].stage = "absent" => order'[x] = order[x]
      BY <1>4, <1>6, <1>7
    <2> QED  BY <1>5, <1>12, <1>13, <2>1 DEF Tidy, Untraced
  <1>15. InBudget(order', n)
    <2>1. \A x \in Order : order'[x].no \in {1, order[x].no}  BY <1>4, <1>6, <1>7
    <2>2. ASSUME NEW x \in Order PROVE order'[x].no + n <= MaxRefusals + 1
      <3> DEFINE i == order[x].no  b == MaxRefusals + 1
      <3>1. i \in Nat /\ i >= 1  BY IsRow, RowTypes DEF Numbers
      <3>2. i + n <= b  BY <1>5 DEF Tidy, InBudget
      <3>3. order'[x].no \in {1, i} /\ b \in Nat  BY <2>1, Constants
      <3> HIDE DEF n, i, b
      <3> QED  BY <1>5, <3>1, <3>2, <3>3 DEF b
    <2> QED  BY <2>2 DEF InBudget
  <1>16. Penalties(order', journal', alive')
    <2>1. ASSUME NEW x \in Stored(order')
          PROVE  /\ Len(order'[x].refused) = order'[x].no - 1
                 /\ \A k \in DOMAIN order'[x].refused :
                      order'[x].refused[k] \in alive' =>
                        \E e \in journal' : e.player = order'[x].refused[k] /\ e.about = x /\ e.no = k
                 /\ \A e \in journal' : e.about = x => e.no < order'[x].no
      <3>1. /\ x \in Stored(order) /\ order'[x].no = order[x].no
            /\ order'[x].refused = order[x].refused
        BY <1>10
      <3>2. Penalties(order, journal, alive)  BY <1>5 DEF Tidy
      <3>3. /\ Len(order[x].refused) = order[x].no - 1
            /\ \A k \in DOMAIN order[x].refused :
                 order[x].refused[k] \in alive =>
                   \E e \in journal : e.player = order[x].refused[k] /\ e.about = x /\ e.no = k
            /\ \A e \in journal : e.about = x => e.no < order[x].no
        BY <3>1, <3>2 DEF Penalties
      <3> QED  BY <1>1, <3>1, <3>3
    <2> QED  BY <2>1 DEF Penalties
  <1>17. News(order', mail')
    <2> SUFFICES ASSUME NEW k \in Key, k.kind = "assigned", mail'[k] = "new",
                        k.about \in Stored(order')
                 PROVE  order'[k.about].judge = k.to /\ order'[k.about].no = k.no
      BY DEF News
    <2>1. k.to # p /\ mail[k] = "new"  BY <1>1
    <2>2. order[k.about].judge = k.to /\ order[k.about].no = k.no
      BY <1>5, <1>10, <2>1 DEF Tidy, News
    <2> QED  BY <1>10, <2>1, <2>2
  <1>18. Tidy(order', mail', journal', alive', budget'["refusals"])
    BY <1>3, <1>5, <1>11, <1>12, <1>13, <1>14, <1>15, <1>16, <1>17 DEF Tidy
  <1>19. Limits
    <2>1. \A x \in Order : order'[x].judge \in {None, order[x].judge}
      BY <1>4, <1>6, <1>7
    <2> QED  BY <2>1, NobodySeated
  <1>20. Reminders  BY <1>12 DEF Reminders
  <1>21. Others'  BY <1>1, <1>3 DEF OrdersInv, Others
  <1> QED  BY <1>18, <1>19, <1>20, <1>21 DEF Kept, OrdersInv

(* What the worker lists, and what the requests leave alone.               *)
LEMMA PassStep ==
  ASSUME OrdersInv, NEW w \in Worker, ReadWaiting(w) \/ ReadDue(w) \/ Restart(w)
  PROVE  Kept
  <1>1. now \in Nat /\ pass \in [Worker -> PassType] /\ pass[w] \in PassType
    BY Constants DEF OrdersInv, Others
  <1>2. CASE ReadWaiting(w)
    <2> DEFINE older(x, y) == order[x].number < order[y].number
    <2>1. PICK B \in Batches({o \in Order : Waiting(order, o)}, older) :
            pass' = [pass EXCEPT ![w] = [Idle EXCEPT !.stage = "seat", !.todo = B, !.at = now]]
      BY <1>2 DEF ReadWaiting
    <2>2. B \in SUBSET Order  BY DEF Batches
    <2> DEFINE y == [Idle EXCEPT !.stage = "seat", !.todo = B, !.at = now]
    <2>3. y \in PassType  BY <1>1, <2>2 DEF Idle, PassType
    <2>4. pass' = [pass EXCEPT ![w] = y]  BY <2>1
    <2> HIDE DEF y
    <2>5. Others'  BY <1>1, <1>2, <2>3, <2>4 DEF ReadWaiting, OrdersInv, Others
    <2> QED  BY <1>2, <2>5, QuietStep DEF ReadWaiting
  <1>3. CASE ReadDue(w)
    <2> DEFINE seen == {[id |-> o, judge |-> order[o].judge, no |-> order[o].no,
                         since |-> order[o].since] : o \in {x \in Order : Due(x, pass[w].at)}}
               earlier(x, y) == x.since < y.since
    <2>1. PICK B \in Batches(seen, earlier) : pass' = [pass EXCEPT ![w] = Listed(pass[w], B)]
      BY <1>3 DEF ReadDue
    <2>2. seen \subseteq Seen
      <3>1. \A x \in Order : /\ order[x].no \in Numbers /\ order[x].since \in Nat
                             /\ Due(x, pass[w].at) => order[x].judge \in Player
        BY IsRow, RowTypes DEF Due
      <3> SUFFICES ASSUME NEW d \in seen PROVE d \in Seen  OBVIOUS
      <3>2. PICK x \in Order : /\ Due(x, pass[w].at)
                               /\ d = [id |-> x, judge |-> order[x].judge,
                                       no |-> order[x].no, since |-> order[x].since]
        OBVIOUS
      <3> QED  BY <3>1, <3>2 DEF Seen
    <2>3. B \in SUBSET seen  BY DEF Batches
    <2> HIDE DEF seen
    <2>4. Listed(pass[w], B) \in PassType  BY <1>1, <2>2, <2>3 DEF Listed, Idle, PassType
    <2>5. Others'  BY <1>1, <1>3, <2>1, <2>4 DEF ReadDue, OrdersInv, Others
    <2> QED  BY <1>3, <2>5, QuietStep DEF ReadDue
  <1>4. CASE Restart(w)
    <2>1. Idle \in PassType  BY DEF Idle, PassType
    <2>2. budget' \in [Bounds -> Nat] /\ budget'["refusals"] = budget["refusals"]
      BY <1>4 DEF Restart, Spend, OrdersInv, Others, Bounds
    <2>3. pass' \in [Worker -> PassType]  BY <1>1, <1>4, <2>1 DEF Restart
    <2>4. Others'  BY <1>4, <2>2, <2>3 DEF Restart, OrdersInv, Others
    <2> QED  BY <1>4, <2>2, <2>4, QuietStep DEF Restart
  <1> QED  BY <1>2, <1>3, <1>4

LEMMA AskStep ==
  ASSUME OrdersInv, NEW o \in Order, NEW p \in Player, AskRefusal(p, o)
  PROVE  Kept
  <1>1. rating[p] \in 0..Rating /\ now \in 0..MaxTime  BY DEF OrdersInv, Others
  <1>2. Others'  BY <1>1 DEF AskRefusal, OrdersInv, Others
  <1> QED  BY <1>2, QuietStep DEF AskRefusal

LEMMA TurnDownStep ==
  ASSUME OrdersInv, NEW r \in request, TurnDown(r)
  PROVE  Kept
  <1>1. Others'  BY DEF TurnDown, OrdersInv, Others
  <1> QED  BY <1>1, QuietStep DEF TurnDown

LEMMA LoseNationStep ==
  ASSUME OrdersInv, NEW p \in Player, LoseNation(p)
  PROVE  Kept
  <1>1. budget' \in [Bounds -> Nat] /\ budget'["refusals"] = budget["refusals"]
    BY DEF LoseNation, Spend, OrdersInv, Others, Bounds
  <1>2. Others'  BY <1>1 DEF LoseNation, OrdersInv, Others
  <1> QED  BY <1>1, <1>2, QuietStep DEF LoseNation

LEMMA TickStep ==
  ASSUME OrdersInv, Tick
  PROVE  Kept
  <1>1. now' \in 0..MaxTime  BY Constants DEF Tick, OrdersInv, Others
  <1>2. Others'  BY <1>1 DEF Tick, OrdersInv, Others
  <1> QED  BY <1>2, QuietStep DEF Tick

LEMMA SenderStep ==
  ASSUME OrdersInv, NEW k \in Key, Deliver(k) \/ Return(k)
  PROVE  Kept
  <1>1. mail \in [Key -> Marks]  BY DEF OrdersInv, Tidy
  <1>2. CASE Deliver(k)
    <2>1. Others'  BY <1>2 DEF Deliver, OrdersInv, Others
    <2>2. /\ mail' \in [Key -> Marks]
          /\ \A h \in Key : mail'[h] = mail[h] \/ (mail[h] # "none" /\ mail'[h] # "new")
      BY <1>1, <1>2 DEF Deliver, Marks
    <2> QED  BY <1>2, <2>1, <2>2, MailStep DEF Deliver
  <1>3. CASE Return(k)
    <2>1. budget' \in [Bounds -> Nat] /\ budget'["refusals"] = budget["refusals"]
      BY <1>3 DEF Return, Spend, OrdersInv, Others, Bounds
    <2>2. Others'  BY <1>3, <2>1 DEF Return, OrdersInv, Others
    <2>3. /\ mail' \in [Key -> Marks]
          /\ \A h \in Key : mail'[h] = mail[h] \/ (mail[h] # "none" /\ mail'[h] # "new")
      BY <1>1, <1>3 DEF Return, Marks
    <2> QED  BY <1>3, <2>1, <2>2, <2>3, MailStep DEF Return
  <1> QED  BY <1>2, <1>3

(***************************************************************************)
(* The theorems.                                                           *)
(***************************************************************************)
LEMMA InitHolds ==
  ASSUME Init
  PROVE  OrdersInv
  <1>1. budget \in [Bounds -> Nat] /\ budget["refusals"] = MaxRefusals
    BY Constants DEF Init, Bounds
  <1>2. \A w \in Worker : pass[w] \in PassType
    <2>1. Idle \in PassType  BY DEF Idle, PassType
    <2> QED  BY <2>1 DEF Init
  <1>3. pass \in [Worker -> PassType]  BY <1>2 DEF Init
  <1>4. Others  BY <1>1, <1>3, Constants, OrdersAssumption DEF Init, Others
  <1>5. \A o \in Order : order[o] = NoOrder  BY DEF Init
  <1>6. order \in Tables
    <2>1. order \in [Order -> Row]  BY NoOrderFacts DEF Init
    <2> QED  BY <1>5, <2>1, NoOrderFacts DEF Tables
  <1>7. Stored(order) = {}  BY <1>5, NoOrderFacts DEF Stored
  <1>8. InBudget(order, budget["refusals"])
    BY <1>1, <1>5, NoOrderFacts, Constants DEF InBudget
  <1>9. mail \in [Key -> Marks] /\ \A k \in Key : mail[k] = "none"  BY DEF Init, Marks
  <1>10. Tidy(order, mail, journal, alive, budget["refusals"])
    BY <1>5, <1>6, <1>7, <1>8, <1>9 DEF Init, Tidy, Untraced, Penalties, News
  <1> QED  BY <1>4, <1>10 DEF OrdersInv

LEMMA OrdersStep ==
  ASSUME OrdersInv, [Next]_vars
  PROVE  Kept
  <1>1. CASE UNCHANGED vars
    <2>1. UNCHANGED <<now, order, mail, alive, nation, consent, rating, journal, request,
                      pass, budget>>
      BY <1>1 DEF vars
    <2>2. Others'  BY <2>1 DEF OrdersInv, Others
    <2> QED  BY <2>1, <2>2, QuietStep
  <1>2. CASE Next
    <2>1. CASE Tick  BY <2>1, TickStep
    <2>2. CASE \E o \in Order : \/ Submit(o) \/ WriteVerdict(o)
                                \/ \E p \in Player : AskRefusal(p, o) \/ AdminAssign(o, p)
      BY <2>2, SubmitStep, VerdictStep, AskStep, AdminAssignStep
    <2>3. CASE \E r \in request : Refuse(r) \/ TurnDown(r)
      BY <2>3, RefuseStep, TurnDownStep
    <2>4. CASE \E p \in Player : DeletePlayer(p) \/ LoseNation(p)
      BY <2>4, DeletePlayerStep, LoseNationStep
    <2>5. CASE \E w \in Worker : Pass(w) \/ Restart(w)
      BY <2>5, PassStep, SeatStep, RemindStep DEF Pass
    <2>6. CASE \E k \in Key : Deliver(k) \/ Return(k)
      BY <2>6, SenderStep
    <2> QED  BY <1>2, <2>1, <2>2, <2>3, <2>4, <2>5, <2>6 DEF Next
  <1> QED  BY <1>1, <1>2

(* The invariant holds in every reachable state.                           *)
THEOREM OrdersInvariant == Spec => []OrdersInv
  <1>1. OrdersInv /\ [Next]_vars => OrdersInv'  BY OrdersStep DEF Kept
  <1> QED  BY InitHolds, <1>1, PTL DEF Spec

(* Every column, list and request has its type, and a decided order has    *)
(* its judge.                                                              *)
THEOREM OrdersTypeCorrect == Spec => []TypeOK
  <1>1. OrdersInv => TypeOK
    BY DEF OrdersInv, Others, Tidy, Tables, Marks, TypeOK
  <1> QED  BY OrdersInvariant, <1>1, PTL

(* Every refusal is in the rating journal, once, under its own number,     *)
(* whatever refusals, deletions and assignments interleave.                *)
THEOREM RefusalsPenalised == Spec => []RefusalsArePenalised
  <1>1. OrdersInv => RefusalsArePenalised
    BY DEF OrdersInv, Tidy, Penalties, RefusalsArePenalised
  <1> QED  BY OrdersInvariant, <1>1, PTL

(* Distribution seats neither the author nor a judge who refused, and      *)
(* nobody beyond the load limit.                                           *)
THEOREM SeatedWithin == Spec => SeatedWithinLimits
  <1>1. OrdersInv /\ [Next]_vars => Limits  BY OrdersStep DEF Kept
  <1>2. OrdersInv /\ [Next]_vars =>
          [\A o \in Order :
             LET p == order'[o].judge
             IN p \notin {None, order[o].judge} /\ ~order'[o].reminded =>
                  /\ p # Author[o]
                  /\ \A i \in DOMAIN order'[o].refused : order'[o].refused[i] # p
                  /\ Cardinality(Undecided(order', p)) <= MaxPending]_vars
    BY <1>1 DEF Limits
  <1> QED  BY OrdersInvariant, <1>2, PTL DEF Spec, SeatedWithinLimits

(* A message that was never sent names the judge of today, and nobody is   *)
(* reminded of a decided order.                                            *)
THEOREM TruthIsTold == Spec => TheTruthIsTold
  <1>1. OrdersInv => NewsIsForTheJudge
    BY DEF OrdersInv, Tidy, News, NewsIsForTheJudge
  <1>2. OrdersInv /\ [Next]_vars =>
          [\A k \in Key : k.kind = "reminder" /\ mail[k] = "none" /\ mail'[k] = "new"
             => order[k.about].stage = "open"]_vars
    BY OrdersStep DEF Kept, Reminders
  <1> QED
    BY OrdersInvariant, <1>1, <1>2, PTL DEF Spec, TheTruthIsTold, NoReminderAfterVerdict
=============================================================================
