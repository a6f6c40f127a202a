--------------------------- MODULE Nations_proofs ---------------------------
(***************************************************************************)
(* Proofs about Nations for every set of players, provinces, names, forms  *)
(* and sessions and every bound.                                           *)
(*                                                                         *)
(* One inductive invariant, NationsInv.  Its heart is Current: as long as  *)
(* a request has not been overtaken, what it has read is still so.  A      *)
(* write that acts on what it has read is then right, or the request that  *)
(* makes it has been overtaken, and overtaken holds its kind.              *)
(***************************************************************************)
EXTENDS Nations, FiniteSetTheorems, TLAPS

(***************************************************************************)
(* What a session may have read.                                           *)
(***************************************************************************)
SaveViews     == [op : {"save"}, stale : BOOLEAN, who : Player,
                  seen : SUBSET (Filing \X Name \X (Province \cup {None}))]
SubmitViews   == [op : {"submit"}, stale : BOOLEAN, who : Player, app : Filing,
                  seen : Application]
DecisionViews == [op : {"accept", "return"}, stale : BOOLEAN, app : Filing]
TransferViews == [op : {"transfer"}, stale : BOOLEAN, province : Province,
                  to : Nation \cup {None}, was : Nation \cup {None}]
DeleteViews   == [op : {"delete"}, stale : BOOLEAN, nation : Nation,
                  listed : SUBSET Province]
EvictViews    == [op : {"evict"}, stale : BOOLEAN, victim : Player,
                  nation : SUBSET Nation, listed : SUBSET Province]
PassViews     == [op : {"pass"}, stale : BOOLEAN, left : SUBSET Filing]
AutoViews     == [op : {"auto"}, stale : BOOLEAN, app : Filing, left : SUBSET Filing]

Views == {Idle} \cup SaveViews \cup SubmitViews \cup DecisionViews \cup TransferViews
           \cup DeleteViews \cup EvictViews \cup PassViews \cup AutoViews

(* What r has read is still so.                                            *)
StillSaves(r)     == \A v \in r.seen : app[v[1]].status # "PENDING"
StillSubmits(r)   == app[r.app].number = r.seen.number
StillTransfers(r) == r.was = holder[r.province]
StillDeletes(r)   == r.listed = HeldBy(r.nation)
StillEvicts(r)    == \A n \in r.nation : r.listed = HeldBy(n)
StillPasses(r)    == \A a \in r.left : app[a].status = "PENDING" => app[a].due
StillAccepts(r)   == app[r.app].status = "PENDING" /\ app[r.app].due

Current(r) ==
  /\ r.op = "save" => StillSaves(r)
  /\ r.op = "submit" => StillSubmits(r)
  /\ r.op = "transfer" => StillTransfers(r)
  /\ r.op = "delete" => StillDeletes(r)
  /\ r.op = "evict" => StillEvicts(r)
  /\ r.op \in {"pass", "auto"} => StillPasses(r)
  /\ r.op = "auto" => StillAccepts(r)

(***************************************************************************)
(* The inductive invariant.                                                *)
(***************************************************************************)
Typed ==
  /\ nation \in [Nation -> Rule \cup {NoNation}] /\ born \in 0..MaxNations
  /\ holder \in [Province -> Nation \cup {None}]
  /\ journal \in [Province -> Nation \cup {None, Broken}]
  /\ app \in [Filing -> Application \cup {NoApplication}] /\ filed \in 0..MaxFiled

(* There is an id left for each nation a pending application will make.    *)
RoomIsKept == born + Cardinality(With("PENDING")) <= MaxNations

Unfiled == \A a \in Filing : a > filed => app[a] = NoApplication

OneNationEach == \A m, n \in Nations : nation[m].owner = nation[n].owner => m = n

(* What every write keeps, whatever its request has read.                  *)
Sound == Typed /\ RoomIsKept /\ Unfiled /\ OneNationEach /\ ReservedIsFree

(* What a write keeps unless it acts on what has changed.                  *)
ReserveHeld  == \A a \in With("PENDING") : app[a].reserved /\ RightCount(app[a].picks)
CapitalsHeld ==
  \A n \in Nations : nation[n].capital \in Province /\ holder[nation[n].capital] = n
Journalled   == journal = holder

Sessions ==
  /\ tx \in [Client -> Views] /\ tx[Worker].op \in {"idle", "pass", "auto"}
  /\ \A s \in Client : ~tx[s].stale => Current(tx[s])

Held ==
  /\ Unless({"save"}) => ReserveHeld
  /\ Unless({"transfer", "delete", "evict"}) => CapitalsHeld /\ Journalled

NationsInv ==
  Sound /\ Sessions /\ Held /\ overtaken \subseteq Fragile /\ orders \in 0..MaxOrders

(***************************************************************************)
(* What the writes do to an application.                                   *)
(***************************************************************************)
Known == app \in [Filing -> Application \cup {NoApplication}]

(* Only a is written, and it is then y.                                    *)
Writes(a, y) ==
  /\ y \in Application
  /\ app' \in [Filing -> Application \cup {NoApplication}]
  /\ app'[a] = y /\ \A b \in Filing : b # a => app'[b] = app[b]

LEMMA Statuses ==
  /\ NoApplication.status = "none" /\ NoApplication.reserved = FALSE
  /\ \A x \in Application : /\ x.status \in {"DRAFT", "PENDING", "ACCEPTED"}
                            /\ x.reserved \in BOOLEAN /\ x.due \in BOOLEAN
                            /\ x.picks \subseteq Province /\ x.owner \in Player
                            /\ x.name \in Name /\ x.number \in 0..MaxNumber
                            /\ x.capital \in Province \cup {None}
                            /\ x # NoApplication
  <1>1. NoApplication.status = "none" /\ NoApplication.reserved = FALSE  BY DEF NoApplication
  <1>2. ASSUME NEW x \in Application
        PROVE  /\ x.status \in {"DRAFT", "PENDING", "ACCEPTED"}
               /\ x.reserved \in BOOLEAN /\ x.due \in BOOLEAN
               /\ x.picks \subseteq Province /\ x.owner \in Player
               /\ x.name \in Name /\ x.number \in 0..MaxNumber
               /\ x.capital \in Province \cup {None}
    BY DEF Application
  <1>3. \A x \in Application : x # NoApplication  BY <1>1, <1>2
  <1> QED  BY <1>1, <1>2, <1>3

LEMMA DraftAgain ==
  ASSUME Known, NEW a \in Filing, app[a] # NoApplication,
         NEW why \in {"returned", "cancelled", "failed"}, BackToDraft(a, why)
  PROVE  /\ Writes(a, app'[a])
         /\ app'[a].status = "DRAFT" /\ ~app'[a].reserved /\ app'[a].reason = why
         /\ app'[a].owner = app[a].owner
  <1>1. app[a] \in Application  BY DEF Known
  <1> DEFINE y == [app[a] EXCEPT !.status = "DRAFT", !.reason = why, !.due = FALSE,
                                 !.reserved = FALSE]
  <1>2. app' = [app EXCEPT ![a] = y]  BY DEF BackToDraft
  <1>3. /\ y \in Application /\ y.status = "DRAFT" /\ y.reserved = FALSE /\ y.reason = why
        /\ y.owner = app[a].owner
    BY <1>1 DEF Application
  <1> QED  BY <1>2, <1>3 DEF Known, Writes

LEMMA Accepted ==
  ASSUME Known, NEW a \in Filing, app[a] # NoApplication, Accept(a)
  PROVE  /\ Writes(a, app'[a])
         /\ app'[a].status = "ACCEPTED" /\ ~app'[a].reserved
  <1>1. app[a] \in Application  BY DEF Known
  <1> DEFINE y == [app[a] EXCEPT !.status = "ACCEPTED", !.reserved = FALSE]
  <1>2. app' = [app EXCEPT ![a] = y]  BY DEF Accept
  <1>3. y \in Application /\ y.status = "ACCEPTED" /\ y.reserved = FALSE
    BY <1>1 DEF Application
  <1> QED  BY <1>2, <1>3 DEF Known, Writes

LEMMA Expired ==
  ASSUME Known, NEW a \in Filing, app[a] # NoApplication, Expire(a)
  PROVE  /\ Writes(a, app'[a]) /\ app'[a].due
         /\ app'[a].status = app[a].status /\ app'[a].owner = app[a].owner
         /\ app'[a].picks = app[a].picks /\ app'[a].reserved = app[a].reserved
         /\ app'[a].name = app[a].name /\ app'[a].reason = app[a].reason
         /\ app'[a].number = app[a].number
  BY DEF Known, Expire, Writes, Application

(***************************************************************************)
(* What the writes do to nations and provinces.                            *)
(***************************************************************************)
World ==
  /\ nation \in [Nation -> Rule \cup {NoNation}] /\ born \in 0..MaxNations
  /\ holder \in [Province -> Nation \cup {None}]
  /\ journal \in [Province -> Nation \cup {None, Broken}]

LEMMA Constants ==
  /\ MaxNations \in Nat /\ MaxFiled \in Nat /\ MaxNumber \in Nat /\ MaxOrders \in Nat
  /\ None = 0 /\ Broken = 0 - 1 /\ None \notin Province /\ Province \subseteq Nat
  /\ None \notin Nation /\ Broken \notin Nation /\ None \notin Client
  BY NationsAssumption DEF None, Broken, Nation, Client

(* A nation founded on free provinces by a player who has none.            *)
LEMMA FoundFacts ==
  ASSUME World, NEW p \in Player, NEW x \in Name, NEW Q \in SUBSET Province,
         NEW c \in Q, born < MaxNations, NationOf(p) = {},
         \A q \in Q : holder[q] = None, Found(p, x, Q, c)
  PROVE  /\ World' /\ born' = born + 1
         /\ \A q \in Province \ Q : holder'[q] = holder[q]
         /\ OneNationEach => OneNationEach'
         /\ CapitalsHeld => CapitalsHeld'
         /\ Journalled => Journalled'
  <1> DEFINE m == born + 1  new == [owner |-> p, name |-> x, capital |-> c]
  <1>1. m \in Nation /\ born' = m /\ born' \in 0..MaxNations
    BY Constants DEF World, Found, Nation
  <1>2. new \in Rule /\ new.owner = p /\ new.capital = c  BY DEF Rule
  <1>3. nation' = [nation EXCEPT ![m] = new]  BY DEF Found
  <1> HIDE DEF new
  <1>4. holder' = [q \in Province |-> IF q \in Q THEN m ELSE holder[q]]
    BY DEF Found, Hand
  <1>5. journal' = [q \in Province |-> IF q \notin Q THEN journal[q]
                                       ELSE IF journal[q] = None THEN m ELSE Broken]
    BY DEF Found, Announce
  <1> HIDE DEF m
  <1>6. World'
    <2>1. nation' \in [Nation -> Rule \cup {NoNation}]  BY <1>1, <1>2, <1>3 DEF World
    <2>2. holder' \in [Province -> Nation \cup {None}]  BY <1>1, <1>4 DEF World
    <2>3. journal' \in [Province -> Nation \cup {None, Broken}]
      BY <1>1, <1>5 DEF World
    <2> QED  BY <1>1, <2>1, <2>2, <2>3 DEF World
  <1>7. /\ nation'[m] = new
        /\ \A n \in Nation : n # m => nation'[n] = nation[n]
    BY <1>1, <1>3 DEF World
  <1>8. Nations' \subseteq Nations \cup {m}  BY <1>7 DEF Nations
  <1>9. \A n \in Nations : nation[n].owner # p  BY DEF NationOf
  <1>10. ASSUME OneNationEach PROVE OneNationEach'
    BY <1>2, <1>7, <1>8, <1>9, <1>10 DEF OneNationEach, Nations
  <1>11. ASSUME CapitalsHeld PROVE CapitalsHeld'
    <2> SUFFICES ASSUME NEW n \in Nations'
                 PROVE  /\ nation'[n].capital \in Province
                        /\ holder'[nation'[n].capital] = n
      BY DEF CapitalsHeld
    <2>1. CASE n = m  BY <2>1, <1>2, <1>4, <1>7
    <2>2. CASE n # m
      <3>1. n \in Nations /\ nation'[n] = nation[n] /\ n \in Nation
        BY <2>2, <1>7, <1>8 DEF Nations
      <3>2. nation[n].capital \in Province /\ holder[nation[n].capital] = n
        BY <3>1, <1>11 DEF CapitalsHeld
      <3>3. n # None  BY <3>1, Constants
      <3> DEFINE k == nation[n].capital
      <3>4. k \in Province /\ k \notin Q  BY <3>2, <3>3
      <3> HIDE DEF k
      <3>5. holder'[k] = holder[k]  BY <1>4, <3>4
      <3> QED  BY <3>1, <3>2, <3>5 DEF k
    <2> QED  BY <2>1, <2>2
  <1>12. ASSUME Journalled PROVE Journalled'
    BY <1>4, <1>5, <1>12 DEF Journalled, World
  <1> QED  BY <1>1, <1>4, <1>6, <1>10, <1>11, <1>12 DEF m

(* A nation is deleted; Q is the list of its provinces its request has.    *)
LEMMA RazeFacts ==
  ASSUME World, NEW n \in Nation, NEW Q \in SUBSET Province, Raze(n, Q)
  PROVE  /\ nation' \in [Nation -> Rule \cup {NoNation}]
         /\ holder' \in [Province -> Nation \cup {None}]
         /\ journal' \in [Province -> Nation \cup {None, Broken}]
         /\ \A q \in Province : holder'[q] \in {holder[q], None}
         /\ OneNationEach => OneNationEach'
         /\ Q = HeldBy(n) /\ CapitalsHeld => CapitalsHeld'
         /\ Q = HeldBy(n) /\ Journalled => Journalled'
  <1>1. nation' = [nation EXCEPT ![n] = NoNation]  BY DEF Raze
  <1>2. holder' = [q \in Province |-> IF q \in Q \cup HeldBy(n) THEN None ELSE holder[q]]
    BY DEF Raze, Hand
  <1>3. journal' = [q \in Province |-> IF q \notin Q THEN journal[q]
                                       ELSE IF journal[q] = n THEN None ELSE Broken]
    BY DEF Raze, Announce
  <1>4. nation' \in [Nation -> Rule \cup {NoNation}]  BY <1>1 DEF World
  <1>5. holder' \in [Province -> Nation \cup {None}]  BY <1>2 DEF World
  <1>6. journal' \in [Province -> Nation \cup {None, Broken}]  BY <1>3 DEF World
  <1>7. \A m \in Nations' : m \in Nations /\ m # n /\ nation'[m] = nation[m]
    BY <1>1 DEF World, Nations
  <1>8. OneNationEach => OneNationEach'  BY <1>7 DEF OneNationEach
  <1>9. ASSUME Q = HeldBy(n), CapitalsHeld PROVE CapitalsHeld'
    <2> SUFFICES ASSUME NEW m \in Nations'
                 PROVE  /\ nation'[m].capital \in Province
                        /\ holder'[nation'[m].capital] = m
      BY DEF CapitalsHeld
    <2>1. m \in Nations /\ m # n /\ nation'[m] = nation[m]  BY <1>7
    <2>2. nation[m].capital \in Province /\ holder[nation[m].capital] = m
      BY <2>1, <1>9 DEF CapitalsHeld
    <2>3. nation[m].capital \notin HeldBy(n)  BY <2>1, <2>2 DEF HeldBy
    <2> QED  BY <1>2, <1>9, <2>1, <2>2, <2>3
  <1>10. ASSUME Q = HeldBy(n), Journalled PROVE Journalled'
    BY <1>2, <1>3, <1>10 DEF Journalled, World, HeldBy
  <1> QED  BY <1>2, <1>4, <1>5, <1>6, <1>8, <1>9, <1>10

(* An administrator moves a province; r.was is the owner its request saw.  *)
LEMMA TransferFacts ==
  ASSUME World, NEW r \in TransferViews, Transfer(r)
  PROVE  /\ World'
         /\ \A q \in Province : q # r.province => holder'[q] = holder[q]
         /\ OneNationEach => OneNationEach'
         /\ StillTransfers(r) /\ CapitalsHeld => CapitalsHeld'
         /\ StillTransfers(r) /\ Journalled => Journalled'
  <1> DEFINE q == r.province  w == r.was  t == r.to
  <1>0. q \in Province /\ w \in Nation \cup {None} /\ t \in Nation \cup {None}
    BY DEF TransferViews
  <1>1. MoveCapital(w, q) /\ w # t /\ t \in Nations \cup {None} /\ born' = born
    BY DEF Transfer
  <1>2. holder' = [z \in Province |-> IF z \in {q} THEN t ELSE holder[z]]
    BY DEF Transfer, Hand
  <1>3. journal' = [z \in Province |-> IF z \notin {q} THEN journal[z]
                                       ELSE IF journal[z] = w THEN t ELSE Broken]
    BY DEF Transfer, Announce
  <1>a. StillTransfers(r) => w = holder[q]  BY DEF StillTransfers
  <1> HIDE DEF q, w, t
  <1>4. holder' \in [Province -> Nation \cup {None}]  BY <1>0, <1>2 DEF World
  <1>5. journal' \in [Province -> Nation \cup {None, Broken}]  BY <1>0, <1>3 DEF World
  <1>6. /\ nation' \in [Nation -> Rule \cup {NoNation}]
        /\ \A n \in Nations' : n \in Nations /\ nation'[n].owner = nation[n].owner
        /\ \A n \in Nation : n # w => nation'[n] = nation[n]
        /\ ~(w \in Nations /\ nation[w].capital = q) => nation' = nation
        /\ w \in Nations /\ nation[w].capital = q =>
             nation'[w].capital \in HeldBy(w) \ {q}
    <2>1. CASE w \in Nations /\ nation[w].capital = q
      <3>1. PICK c \in HeldBy(w) \ {q} : nation' = [nation EXCEPT ![w].capital = c]
        BY <1>1, <2>1 DEF MoveCapital
      <3> DEFINE y == [nation[w] EXCEPT !.capital = c]
      <3>2. w \in Nation /\ nation[w] \in Rule /\ c \in Province
        BY <2>1, <3>1 DEF Nations, World, HeldBy
      <3>3. y \in Rule /\ y.owner = nation[w].owner /\ y.capital = c  BY <3>2 DEF Rule
      <3>4. nation' = [nation EXCEPT ![w] = y]  BY <3>1
      <3> HIDE DEF y
      <3>5. nation' \in [Nation -> Rule \cup {NoNation}]  BY <3>2, <3>3, <3>4 DEF World
      <3>6. nation'[w] = y /\ \A n \in Nation : n # w => nation'[n] = nation[n]
        BY <3>2, <3>4 DEF World
      <3>7. \A n \in Nations' : n \in Nations /\ nation'[n].owner = nation[n].owner
        BY <2>1, <3>3, <3>6 DEF Nations
      <3> QED  BY <2>1, <3>1, <3>3, <3>5, <3>6, <3>7
    <2>2. CASE ~(w \in Nations /\ nation[w].capital = q)
      <3>1. nation' = nation  BY <1>1, <2>2 DEF MoveCapital
      <3> QED  BY <2>2, <3>1 DEF World, Nations
    <2> QED  BY <2>1, <2>2
  <1>7. OneNationEach => OneNationEach'  BY <1>6 DEF OneNationEach
  <1>8. ASSUME w = holder[q], CapitalsHeld PROVE CapitalsHeld'
    <2> SUFFICES ASSUME NEW n \in Nations'
                 PROVE  /\ nation'[n].capital \in Province
                        /\ holder'[nation'[n].capital] = n
      BY DEF CapitalsHeld
    <2>1. n \in Nations /\ n \in Nation  BY <1>6 DEF Nations
    <2>2. nation[n].capital \in Province /\ holder[nation[n].capital] = n
      BY <2>1, <1>8 DEF CapitalsHeld
    <2>3. CASE n = w /\ nation[w].capital = q
      <3>1. nation'[w].capital \in HeldBy(w) \ {q}  BY <1>6, <2>1, <2>3
      <3> QED  BY <1>2, <2>3, <3>1 DEF HeldBy
    <2>4. CASE ~(n = w /\ nation[w].capital = q)
      <3>1. nation'[n] = nation[n]  BY <1>6, <2>1, <2>4
      <3>2. nation[n].capital # q  BY <1>8, <2>2, <2>4
      <3> QED  BY <1>2, <2>2, <3>1, <3>2
    <2> QED  BY <2>3, <2>4
  <1>9. ASSUME w = holder[q], Journalled PROVE Journalled'
    BY <1>0, <1>2, <1>3, <1>9 DEF Journalled, World
  <1>10. \A z \in Province : z # q => holder'[z] = holder[z]  BY <1>2
  <1>11. World'  BY <1>1, <1>4, <1>5, <1>6 DEF World
  <1> QED  BY <1>a, <1>7, <1>8, <1>9, <1>10, <1>11 DEF q

(* A nation takes another name.                                            *)
LEMMA RenameFacts ==
  ASSUME World, NEW n \in Nations, NEW x \in Name, Rename(n, x)
  PROVE  /\ World' /\ holder' = holder
         /\ OneNationEach => OneNationEach'
         /\ CapitalsHeld => CapitalsHeld'
         /\ Journalled => Journalled'
  <1> DEFINE y == [nation[n] EXCEPT !.name = x]
  <1>1. nation' = [nation EXCEPT ![n] = y] /\ UNCHANGED <<born, holder, journal>>
    BY DEF Rename
  <1>2. n \in Nation /\ nation[n] \in Rule  BY DEF Nations, World
  <1>3. y \in Rule /\ y.owner = nation[n].owner /\ y.capital = nation[n].capital
    BY <1>2 DEF Rule
  <1> HIDE DEF y
  <1>4. World'  BY <1>1, <1>2, <1>3 DEF World
  <1>5. \A m \in Nations' : /\ m \in Nations
                            /\ nation'[m].owner = nation[m].owner
                            /\ nation'[m].capital = nation[m].capital
    BY <1>1, <1>2, <1>3 DEF World, Nations
  <1>6. OneNationEach => OneNationEach'  BY <1>5 DEF OneNationEach
  <1>7. CapitalsHeld => CapitalsHeld'  BY <1>1, <1>5 DEF CapitalsHeld
  <1> QED  BY <1>1, <1>4, <1>6, <1>7 DEF Journalled

(***************************************************************************)
(* What every write keeps.                                                 *)
(***************************************************************************)
Frozen ==
  \A a \in Filing : app[a].status = "PENDING" /\ app'[a].status = "PENDING" =>
                      app'[a].picks = app[a].picks /\ app'[a].name = app[a].name

Numbered ==
  \A a \in Filing : app[a].status = "DRAFT" /\ app'[a].status = "PENDING" =>
                      app'[a].number > app[a].number

(* As applications are decided: as they were submitted, and once.          *)
Orderly == Frozen /\ DecisionStands /\ Numbered

LEMMA AppTypes ==
  ASSUME Typed, NEW a \in Filing
  PROVE  /\ app[a] \in Application \cup {NoApplication}
         /\ app[a].status # "none" <=> app[a] # NoApplication
         /\ app[a].reserved \in BOOLEAN
         /\ app[a].reserved => app[a] # NoApplication
  BY Statuses DEF Typed

LEMMA PendingIsFinite == IsFiniteSet(With("PENDING"))
  <1>1. IsFiniteSet(1..MaxFiled)  BY Constants, FS_Interval, 1 \in Int
  <1>2. With("PENDING") \subseteq 1..MaxFiled  BY DEF With, Filing
  <1> QED  BY <1>1, <1>2, FS_Subset

LEMMA RoomStays ==
  ASSUME Typed, RoomIsKept, born' = born, With("PENDING")' \subseteq With("PENDING")
  PROVE  RoomIsKept'
  <1>1. IsFiniteSet(With("PENDING"))  BY PendingIsFinite
  <1>2. Cardinality(With("PENDING")') <= Cardinality(With("PENDING"))
    BY <1>1, FS_Subset
  <1>3. Cardinality(With("PENDING")) \in Nat /\ Cardinality(With("PENDING")') \in Nat
    BY <1>1, FS_Subset, FS_CardinalityType
  <1> QED  BY <1>2, <1>3, Constants DEF RoomIsKept, Typed

(* The reserves of what stays reserved, when nobody takes a province.      *)
LEMMA FreeStays ==
  ASSUME Typed, ReservedIsFree,
         \A a \in Filing : app'[a].reserved =>
           /\ app[a].reserved /\ app'[a].status = app[a].status
           /\ app'[a].picks = app[a].picks
           /\ \A q \in app[a].picks : holder'[q] = None
  PROVE  ReservedIsFree'
  BY DEF ReservedIsFree, Reserved

(* An application is withdrawn or decided.                                 *)
LEMMA Withdrawn ==
  ASSUME Sound, NEW a \in Filing, app[a] # NoApplication, filed' = filed,
         Writes(a, app'[a]), app'[a].status \in {"DRAFT", "ACCEPTED"},
         ~app'[a].reserved
  PROVE  /\ app' \in [Filing -> Application \cup {NoApplication}]
         /\ With("PENDING")' = With("PENDING") \ {a}
         /\ Unfiled'
         /\ \A b \in Filing : app'[b].reserved => b # a /\ app'[b] = app[b]
         /\ ReserveHeld => ReserveHeld'
         /\ Frozen /\ Numbered
         /\ app[a].status = "PENDING" => DecisionStands
  <1>1. app' \in [Filing -> Application \cup {NoApplication}]  BY DEF Writes
  <1>2. \A b \in Filing : b # a => app'[b] = app[b]  BY DEF Writes
  <1>3. With("PENDING")' = With("PENDING") \ {a}  BY <1>2 DEF With
  <1>4. a <= filed /\ Unfiled'
    <2>1. filed \in Nat /\ a \in Nat  BY Constants DEF Sound, Typed, Filing
    <2> QED  BY <1>2, <2>1 DEF Sound, Unfiled
  <1>5. \A b \in Filing : app'[b].reserved => b # a /\ app'[b] = app[b]  BY <1>2
  <1>6. ReserveHeld => ReserveHeld'  BY <1>2, <1>3 DEF ReserveHeld, With
  <1>7. Frozen  BY <1>2 DEF Frozen
  <1>8. Numbered  BY <1>2 DEF Numbered
  <1>9. app[a].status = "PENDING" => DecisionStands  BY <1>2 DEF DecisionStands
  <1> QED  BY <1>1, <1>3, <1>4, <1>5, <1>6, <1>7, <1>8, <1>9

(* Nothing happens to the applications.                                    *)
LEMMA AppStands ==
  ASSUME Sound, UNCHANGED appVars
  PROVE  /\ With("PENDING")' = With("PENDING") /\ Unfiled'
         /\ ReserveHeld => ReserveHeld'
         /\ Orderly
  <1>1. app' = app /\ filed' = filed  BY DEF appVars
  <1>2. With("PENDING")' = With("PENDING") /\ Unfiled'  BY <1>1 DEF With, Sound, Unfiled
  <1>3. ReserveHeld => ReserveHeld'  BY <1>1, <1>2 DEF ReserveHeld
  <1>4. \A a \in Filing : app[a].status = "DRAFT" => app[a].status # "PENDING"  OBVIOUS
  <1>5. Frozen  BY <1>1 DEF Frozen
  <1>6. Numbered  BY <1>1 DEF Numbered
  <1>7. DecisionStands  BY <1>1 DEF DecisionStands
  <1> QED  BY <1>2, <1>3, <1>5, <1>6, <1>7 DEF Orderly

(* The pending application or the draft a of a player is withdrawn: cancel, *)
(* return, and an acceptance that was refused.                             *)
LEMMA BackWrite ==
  ASSUME Sound, NEW a \in Filing, app[a] # NoApplication,
         NEW why \in {"returned", "cancelled", "failed"}, BackToDraft(a, why),
         filed' = filed, UNCHANGED worldVars
  PROVE  /\ Sound' /\ Frozen /\ Numbered
         /\ ReserveHeld => ReserveHeld'
         /\ app[a].status = "PENDING" => DecisionStands
         /\ app'[a].status = "DRAFT"
         /\ \A b \in Filing : b # a => app'[b] = app[b]
  <1>1. Known  BY DEF Known, Sound, Typed
  <1>2. Writes(a, app'[a]) /\ app'[a].status = "DRAFT" /\ ~app'[a].reserved
    BY <1>1, DraftAgain
  <1>3. /\ app' \in [Filing -> Application \cup {NoApplication}]
        /\ With("PENDING")' = With("PENDING") \ {a}
        /\ Unfiled'
        /\ \A b \in Filing : app'[b].reserved => b # a /\ app'[b] = app[b]
        /\ ReserveHeld => ReserveHeld'
        /\ Frozen /\ Numbered
        /\ app[a].status = "PENDING" => DecisionStands
    BY <1>2, Withdrawn
  <1>4. Typed'  BY <1>3 DEF Sound, Typed, worldVars
  <1>5. RoomIsKept'  BY <1>3, RoomStays DEF Sound, worldVars
  <1>6. OneNationEach'  BY DEF Sound, OneNationEach, Nations, worldVars
  <1>7. \A b \in Filing : app'[b].reserved =>
             /\ app[b].reserved /\ app'[b].status = app[b].status
             /\ app'[b].picks = app[b].picks
             /\ \A q \in app[b].picks : holder'[q] = None
    BY <1>3 DEF Sound, ReservedIsFree, worldVars
  <1>8. ReservedIsFree'  BY <1>7, FreeStays DEF Sound
  <1> QED  BY <1>2, <1>3, <1>4, <1>5, <1>6, <1>8 DEF Sound, Writes

(* The picks of a pending application become a nation.                     *)
LEMMA AcceptWrite ==
  ASSUME Sound, NEW a \in Filing, Accept(a), filed' = filed
  PROVE  /\ Sound' /\ Orderly
         /\ ReserveHeld => ReserveHeld'
         /\ CapitalsHeld => CapitalsHeld'
         /\ Journalled => Journalled'
         /\ app[a].status = "PENDING" /\ app'[a].status = "ACCEPTED"
         /\ \A b \in Filing : b # a => app'[b] = app[b]
  <1> DEFINE p == app[a].owner  x == app[a].name  Q == app[a].picks  c == app[a].capital
  <1>1. app[a].status = "PENDING" /\ Grantable(a)  BY DEF Accept, Acceptable
  <1>2. app[a] \in Application /\ app[a] # NoApplication
    BY <1>1, Statuses DEF Sound, Typed
  <1>3. p \in Player /\ x \in Name /\ Q \in SUBSET Province /\ c \in Q
    BY <1>1, <1>2, Statuses DEF Grantable
  <1>4. NationOf(p) = {} /\ Available(Q, a)  BY <1>1 DEF Grantable
  <1>5. \A q \in Q : holder[q] = None /\ ~Reserved(q, a)  BY <1>4 DEF Available
  <1>6. Found(p, x, Q, c)  BY DEF Accept
  <1>7. a \in With("PENDING")  BY <1>1 DEF With
  <1>8. born < MaxNations /\ Cardinality(With("PENDING") \ {a}) = Cardinality(With("PENDING")) - 1
        /\ Cardinality(With("PENDING")) \in Nat
    <2>1. Cardinality(With("PENDING")) \in Nat /\ Cardinality(With("PENDING") \ {a}) \in Nat
          /\ Cardinality(With("PENDING") \ {a}) = Cardinality(With("PENDING")) - 1
      BY <1>7, PendingIsFinite, FS_RemoveElement, FS_CardinalityType
    <2> QED  BY <2>1, Constants DEF Sound, RoomIsKept, Typed
  <1>9. World  BY DEF World, Sound, Typed
  <1> HIDE DEF p, x, Q, c
  <1>10. /\ World' /\ born' = born + 1
         /\ \A q \in Province \ Q : holder'[q] = holder[q]
         /\ OneNationEach => OneNationEach'
         /\ CapitalsHeld => CapitalsHeld'
         /\ Journalled => Journalled'
    BY <1>3, <1>4, <1>5, <1>6, <1>8, <1>9, FoundFacts
  <1>11. Known  BY DEF Known, Sound, Typed
  <1>12. Writes(a, app'[a]) /\ app'[a].status = "ACCEPTED" /\ ~app'[a].reserved
    BY <1>2, <1>11, Accepted
  <1>13. /\ app' \in [Filing -> Application \cup {NoApplication}]
         /\ With("PENDING")' = With("PENDING") \ {a}
         /\ Unfiled'
         /\ \A b \in Filing : app'[b].reserved => b # a /\ app'[b] = app[b]
         /\ ReserveHeld => ReserveHeld'
         /\ Frozen /\ Numbered
         /\ app[a].status = "PENDING" => DecisionStands
    BY <1>2, <1>12, Withdrawn
  <1>14. Typed'  BY <1>10, <1>13 DEF World, Sound, Typed
  <1>15. RoomIsKept'
    <2> DEFINE n == Cardinality(With("PENDING"))
    <2>1. born + n <= MaxNations /\ n \in Nat /\ born \in Int /\ MaxNations \in Int
      BY <1>8, Constants DEF Sound, RoomIsKept, Typed
    <2>2. Cardinality(With("PENDING")') = n - 1 /\ born' = born + 1
      BY <1>8, <1>10, <1>13
    <2> HIDE DEF n
    <2>3. born' + Cardinality(With("PENDING")') <= MaxNations  BY <2>1, <2>2
    <2> QED  BY <2>3 DEF RoomIsKept
  <1>16. ASSUME NEW b \in Filing, app'[b].reserved
         PROVE  /\ app[b].reserved /\ app'[b].status = app[b].status
                /\ app'[b].picks = app[b].picks
                /\ \A q \in app[b].picks : holder'[q] = None
    <2>1. b # a /\ app'[b] = app[b]  BY <1>13, <1>16
    <2>2. app[b].picks \subseteq Province /\ \A q \in app[b].picks : holder[q] = None
      BY <1>16, <2>1, AppTypes, Statuses DEF Sound, ReservedIsFree
    <2>3. \A q \in app[b].picks : q \notin Q  BY <1>5, <1>16, <2>1 DEF Reserved
    <2> QED  BY <1>10, <1>16, <2>1, <2>2, <2>3
  <1>17. ReservedIsFree'  BY <1>16, FreeStays DEF Sound
  <1>18. Sound'  BY <1>10, <1>13, <1>14, <1>15, <1>17 DEF Sound
  <1> QED  BY <1>1, <1>10, <1>12, <1>13, <1>18 DEF Orderly, Writes

(* A player founds a nation at once.                                       *)
LEMMA CreateWrite ==
  ASSUME Sound, NEW p \in Player, Create(p)
  PROVE  /\ Sound' /\ Orderly
         /\ ReserveHeld => ReserveHeld'
         /\ CapitalsHeld => CapitalsHeld'
         /\ Journalled => Journalled'
  <1>1. PICK form \in Wish :
          /\ Available(form.picks, None) /\ form.capital \in form.picks
          /\ Found(p, form.name, form.picks, form.capital)
    BY DEF Create
  <1> DEFINE x == form.name  Q == form.picks  c == form.capital
  <1>2. x \in Name /\ Q \in SUBSET Province /\ c \in Q
    BY <1>1, NationsAssumption
  <1>3. NationOf(p) = {} /\ RoomForNation /\ UNCHANGED appVars  BY DEF Create
  <1>4. \A q \in Q : holder[q] = None /\ ~Reserved(q, None)
    BY <1>1 DEF Available
  <1>5. Found(p, x, Q, c)  BY <1>1
  <1>6. Cardinality(With("PENDING")) \in Nat  BY PendingIsFinite, FS_CardinalityType
  <1>7. born < MaxNations /\ born \in Nat
    BY <1>3, <1>6, Constants DEF RoomForNation, Sound, Typed
  <1>8. World  BY DEF World, Sound, Typed
  <1> HIDE DEF x, Q, c
  <1>9. /\ World' /\ born' = born + 1
        /\ \A q \in Province \ Q : holder'[q] = holder[q]
        /\ OneNationEach => OneNationEach'
        /\ CapitalsHeld => CapitalsHeld'
        /\ Journalled => Journalled'
    BY <1>2, <1>3, <1>4, <1>5, <1>7, <1>8, FoundFacts
  <1>10. /\ With("PENDING")' = With("PENDING") /\ Unfiled'
         /\ ReserveHeld => ReserveHeld'
         /\ Orderly
    BY <1>3, AppStands
  <1>11. Typed'  BY <1>3, <1>9 DEF World, Sound, Typed, appVars
  <1>12. RoomIsKept'
    BY <1>3, <1>6, <1>7, <1>9, <1>10, Constants DEF RoomForNation, RoomIsKept
  <1>13. ASSUME NEW b \in Filing, app'[b].reserved
         PROVE  /\ app[b].reserved /\ app'[b].status = app[b].status
                /\ app'[b].picks = app[b].picks
                /\ \A q \in app[b].picks : holder'[q] = None
    <2>1. app'[b] = app[b]  BY <1>3 DEF appVars
    <2>2. app[b].picks \subseteq Province /\ \A q \in app[b].picks : holder[q] = None
      BY <1>13, <2>1, AppTypes, Statuses DEF Sound, ReservedIsFree
    <2>3. None \notin Filing  BY Constants DEF Filing
    <2>4. \A q \in app[b].picks : q \notin Q  BY <1>4, <1>13, <2>1, <2>3 DEF Reserved
    <2> QED  BY <1>9, <1>13, <2>1, <2>2, <2>4
  <1>14. ReservedIsFree'  BY <1>13, FreeStays DEF Sound
  <1>15. Sound'  BY <1>9, <1>10, <1>11, <1>12, <1>14 DEF Sound
  <1> QED  BY <1>9, <1>10, <1>15

(* A nation is renamed.                                                    *)
LEMMA RenameWrite ==
  ASSUME Sound, NEW n \in Nations, NEW x \in Name, Rename(n, x)
  PROVE  /\ Sound' /\ Orderly
         /\ ReserveHeld => ReserveHeld'
         /\ CapitalsHeld => CapitalsHeld'
         /\ Journalled => Journalled'
  <1>1. World  BY DEF World, Sound, Typed
  <1>2. /\ World' /\ holder' = holder
        /\ OneNationEach => OneNationEach'
        /\ CapitalsHeld => CapitalsHeld'
        /\ Journalled => Journalled'
    BY <1>1, RenameFacts
  <1>3. UNCHANGED appVars /\ born' = born  BY DEF Rename
  <1>4. /\ With("PENDING")' = With("PENDING") /\ Unfiled'
        /\ ReserveHeld => ReserveHeld'
        /\ Orderly
    BY <1>3, AppStands
  <1>5. Typed'  BY <1>2, <1>3 DEF World, Sound, Typed, appVars
  <1>6. RoomIsKept'  BY <1>3, <1>4, RoomStays DEF Sound
  <1>7. ReservedIsFree'
    BY <1>2, <1>3, FreeStays DEF Sound, ReservedIsFree, appVars
  <1> QED  BY <1>2, <1>4, <1>5, <1>6, <1>7 DEF Sound

(* A province changes hands.                                               *)
LEMMA TransferWrite ==
  ASSUME Sound, NEW r \in TransferViews, Transfer(r)
  PROVE  /\ Sound' /\ Orderly
         /\ ReserveHeld => ReserveHeld'
         /\ StillTransfers(r) /\ CapitalsHeld => CapitalsHeld'
         /\ StillTransfers(r) /\ Journalled => Journalled'
  <1>1. World  BY DEF World, Sound, Typed
  <1>2. /\ World'
        /\ \A q \in Province : q # r.province => holder'[q] = holder[q]
        /\ OneNationEach => OneNationEach'
        /\ StillTransfers(r) /\ CapitalsHeld => CapitalsHeld'
        /\ StillTransfers(r) /\ Journalled => Journalled'
    BY <1>1, TransferFacts
  <1>3. UNCHANGED appVars /\ born' = born /\ ~Reserved(r.province, None)
    BY DEF Transfer
  <1>4. /\ With("PENDING")' = With("PENDING") /\ Unfiled'
        /\ ReserveHeld => ReserveHeld'
        /\ Orderly
    BY <1>3, AppStands
  <1>5. Typed'  BY <1>2, <1>3 DEF World, Sound, Typed, appVars
  <1>6. RoomIsKept'  BY <1>3, <1>4, RoomStays DEF Sound
  <1>7. ASSUME NEW b \in Filing, app'[b].reserved
        PROVE  /\ app[b].reserved /\ app'[b].status = app[b].status
               /\ app'[b].picks = app[b].picks
               /\ \A q \in app[b].picks : holder'[q] = None
    <2>1. app'[b] = app[b]  BY <1>3 DEF appVars
    <2>2. app[b].picks \subseteq Province /\ \A q \in app[b].picks : holder[q] = None
      BY <1>7, <2>1, AppTypes, Statuses DEF Sound, ReservedIsFree
    <2>3. None \notin Filing  BY Constants DEF Filing
    <2>4. r.province \notin app[b].picks  BY <1>3, <1>7, <2>1, <2>3 DEF Reserved
    <2> QED  BY <1>2, <1>7, <2>1, <2>2, <2>4
  <1>8. ReservedIsFree'  BY <1>7, FreeStays DEF Sound
  <1> QED  BY <1>2, <1>4, <1>5, <1>6, <1>8 DEF Sound

(* What a deletion does to the reserves: nothing.                          *)
LEMMA FreedStays ==
  ASSUME Sound, \A q \in Province : holder'[q] \in {holder[q], None},
         \A b \in Filing : app'[b].reserved => app'[b] = app[b]
  PROVE  ReservedIsFree'
  <1>1. ASSUME NEW b \in Filing, app'[b].reserved
        PROVE  /\ app[b].reserved /\ app'[b].status = app[b].status
               /\ app'[b].picks = app[b].picks
               /\ \A q \in app[b].picks : holder'[q] = None
    <2>1. app'[b] = app[b]  BY <1>1
    <2>2. app[b].picks \subseteq Province /\ \A q \in app[b].picks : holder[q] = None
      BY <1>1, <2>1, AppTypes, Statuses DEF Sound, ReservedIsFree
    <2> QED  BY <1>1, <2>1, <2>2
  <1> QED  BY <1>1, FreeStays DEF Sound

(* A nation is deleted.                                                    *)
LEMMA DeleteWrite ==
  ASSUME Sound, NEW r \in DeleteViews, Delete(r)
  PROVE  /\ Sound' /\ Orderly
         /\ ReserveHeld => ReserveHeld'
         /\ StillDeletes(r) /\ CapitalsHeld => CapitalsHeld'
         /\ StillDeletes(r) /\ Journalled => Journalled'
  <1> DEFINE n == r.nation  Q == r.listed
  <1>1. World  BY DEF World, Sound, Typed
  <1>2. n \in Nation /\ Q \in SUBSET Province /\ Raze(n, Q)  BY DEF DeleteViews, Delete
  <1>3. StillDeletes(r) => Q = HeldBy(n)  BY DEF StillDeletes
  <1>4. UNCHANGED appVars /\ born' = born  BY DEF Delete
  <1> HIDE DEF n, Q
  <1>5. /\ nation' \in [Nation -> Rule \cup {NoNation}]
        /\ holder' \in [Province -> Nation \cup {None}]
        /\ journal' \in [Province -> Nation \cup {None, Broken}]
        /\ \A q \in Province : holder'[q] \in {holder[q], None}
        /\ OneNationEach => OneNationEach'
        /\ Q = HeldBy(n) /\ CapitalsHeld => CapitalsHeld'
        /\ Q = HeldBy(n) /\ Journalled => Journalled'
    BY <1>1, <1>2, RazeFacts
  <1>6. /\ With("PENDING")' = With("PENDING") /\ Unfiled'
        /\ ReserveHeld => ReserveHeld'
        /\ Orderly
    BY <1>4, AppStands
  <1>7. Typed'  BY <1>4, <1>5 DEF Sound, Typed, appVars
  <1>8. RoomIsKept'  BY <1>4, <1>6, RoomStays DEF Sound
  <1>9. ReservedIsFree'  BY <1>4, <1>5, FreedStays DEF appVars
  <1> QED  BY <1>3, <1>5, <1>6, <1>7, <1>8, <1>9 DEF Sound

(* Applications disappear, with their players or in a reset.               *)
LEMMA Gone ==
  ASSUME Sound, filed' = filed, app' \in [Filing -> Application \cup {NoApplication}],
         \A b \in Filing : app'[b] \in {app[b], NoApplication}
  PROVE  /\ With("PENDING")' \subseteq With("PENDING") /\ Unfiled'
         /\ ReserveHeld => ReserveHeld'
         /\ Orderly
         /\ \A b \in Filing : app'[b].reserved => app'[b] = app[b]
  <1>1. \A b \in Filing : app'[b].status # "none" \/ app'[b].reserved => app'[b] = app[b]
    BY Statuses
  <1>2. With("PENDING")' \subseteq With("PENDING")  BY <1>1 DEF With
  <1>3. Unfiled'  BY <1>1 DEF Sound, Unfiled
  <1>4. ReserveHeld => ReserveHeld'  BY <1>1, <1>2 DEF ReserveHeld, With
  <1>5. Frozen  BY <1>1 DEF Frozen
  <1>6. Numbered  BY <1>1 DEF Numbered
  <1>7. \A b \in Filing : app'[b].status = "none" \/ app'[b] = app[b]  BY <1>1
  <1>8. DecisionStands  BY <1>7 DEF DecisionStands
  <1> QED  BY <1>1, <1>2, <1>3, <1>4, <1>5, <1>6, <1>8 DEF Orderly

(* A player is deleted.                                                    *)
LEMMA EvictWrite ==
  ASSUME Sound, NEW r \in EvictViews, Evict(r)
  PROVE  /\ Sound' /\ Orderly
         /\ ReserveHeld => ReserveHeld'
         /\ StillEvicts(r) /\ CapitalsHeld => CapitalsHeld'
         /\ StillEvicts(r) /\ Journalled => Journalled'
  <1>1. World  BY DEF World, Sound, Typed
  <1>2. r.nation \subseteq Nation /\ r.listed \in SUBSET Province  BY DEF EvictViews
  <1>3. /\ nation' \in [Nation -> Rule \cup {NoNation}]
        /\ holder' \in [Province -> Nation \cup {None}]
        /\ journal' \in [Province -> Nation \cup {None, Broken}]
        /\ \A q \in Province : holder'[q] \in {holder[q], None}
        /\ OneNationEach => OneNationEach'
        /\ StillEvicts(r) /\ CapitalsHeld => CapitalsHeld'
        /\ StillEvicts(r) /\ Journalled => Journalled'
        /\ born' = born
    <2>1. CASE r.nation = {}
      <3>1. UNCHANGED worldVars  BY <2>1 DEF Evict
      <3> QED  BY <3>1, <1>1 DEF World, worldVars, OneNationEach, Nations, CapitalsHeld,
                                 Journalled
    <2>2. CASE r.nation # {}
      <3>1. PICK n \in r.nation : Raze(n, r.listed)  BY <2>2 DEF Evict
      <3>2. born' = born  BY <2>2 DEF Evict
      <3>3. StillEvicts(r) => r.listed = HeldBy(n)  BY <3>1 DEF StillEvicts
      <3>4. n \in Nation  BY <1>2, <3>1
      <3> DEFINE Q == r.listed
      <3>5. Q \in SUBSET Province /\ Raze(n, Q)  BY <1>2, <3>1
      <3>6. StillEvicts(r) => Q = HeldBy(n)  BY <3>3
      <3> HIDE DEF Q
      <3>7. /\ nation' \in [Nation -> Rule \cup {NoNation}]
            /\ holder' \in [Province -> Nation \cup {None}]
            /\ journal' \in [Province -> Nation \cup {None, Broken}]
            /\ \A q \in Province : holder'[q] \in {holder[q], None}
            /\ OneNationEach => OneNationEach'
            /\ Q = HeldBy(n) /\ CapitalsHeld => CapitalsHeld'
            /\ Q = HeldBy(n) /\ Journalled => Journalled'
        BY <1>1, <3>4, <3>5, RazeFacts
      <3> QED  BY <3>2, <3>6, <3>7
    <2> QED  BY <2>1, <2>2
  <1>4. app' = Without(r.victim) /\ filed' = filed  BY DEF Evict
  <1>5. /\ app' \in [Filing -> Application \cup {NoApplication}]
        /\ \A b \in Filing : app'[b] \in {app[b], NoApplication}
    BY <1>4 DEF Without, Sound, Typed
  <1>6. /\ With("PENDING")' \subseteq With("PENDING") /\ Unfiled'
        /\ ReserveHeld => ReserveHeld'
        /\ Orderly
        /\ \A b \in Filing : app'[b].reserved => app'[b] = app[b]
    BY <1>4, <1>5, Gone
  <1>7. Typed'  BY <1>3, <1>4, <1>5 DEF Sound, Typed
  <1>8. RoomIsKept'  BY <1>3, <1>6, RoomStays DEF Sound
  <1>9. ReservedIsFree'  BY <1>3, <1>6, FreedStays
  <1> QED  BY <1>3, <1>6, <1>7, <1>8, <1>9 DEF Sound

(* The reset.                                                              *)
LEMMA ResetWrite ==
  ASSUME Sound, Reset
  PROVE  Sound' /\ Orderly /\ ReserveHeld' /\ CapitalsHeld' /\ Journalled'
  <1>1. /\ nation' = [n \in Nation |-> NoNation]
        /\ holder' = [q \in Province |-> None] /\ journal' = holder'
        /\ app' = [a \in Filing |-> NoApplication]
        /\ UNCHANGED <<born, filed>>
    BY DEF Reset
  <1>2. /\ app' \in [Filing -> Application \cup {NoApplication}]
        /\ \A b \in Filing : app'[b] \in {app[b], NoApplication}
    BY <1>1
  <1>3. /\ With("PENDING")' \subseteq With("PENDING") /\ Unfiled'
        /\ Orderly
        /\ \A b \in Filing : app'[b].reserved => app'[b] = app[b]
    BY <1>1, <1>2, Gone
  <1>4. Typed'  BY <1>1, <1>2 DEF Sound, Typed
  <1>5. RoomIsKept'  BY <1>1, <1>3, RoomStays DEF Sound
  <1>6. ReservedIsFree'  BY <1>1, <1>3, FreedStays
  <1>7. Nations' = {}  BY <1>1 DEF Nations
  <1>8. OneNationEach' /\ CapitalsHeld'  BY <1>7 DEF OneNationEach, CapitalsHeld
  <1>9. With("PENDING")' = {}  BY <1>1, Statuses DEF With
  <1>10. ReserveHeld' /\ Journalled'  BY <1>1, <1>9 DEF ReserveHeld, Journalled
  <1> QED  BY <1>3, <1>4, <1>5, <1>6, <1>8, <1>10 DEF Sound

(* A draft is written, perhaps over a submission its request did not see.  *)
LEMMA SaveWrite ==
  ASSUME Sound, NEW r \in SaveViews, Save(r)
  PROVE  /\ Sound' /\ DecisionStands /\ Numbered
         /\ UNCHANGED worldVars
         /\ StillSaves(r) => Frozen /\ (ReserveHeld => ReserveHeld')
  <1>1. UNCHANGED worldVars  BY DEF Save
  <1>2. filed \in Nat /\ r.who \in Player  BY Constants DEF Sound, Typed, SaveViews
  <1>3. PICK form \in Wish :
          \/ /\ filed < MaxFiled /\ filed' = filed + 1
             /\ app' = [app EXCEPT ![filed + 1] = Draft(r.who, form)]
          \/ \E a \in Live(r.who) :
               /\ (\E v \in r.seen : v[1] = a) \/ app[a].status = "DRAFT"
               /\ app' = [app EXCEPT
                    ![a].name = IF \E v \in r.seen : v[1] = a /\ v[2] = form.name
                                THEN @ ELSE form.name,
                    ![a].capital = IF \E v \in r.seen : v[1] = a /\ v[3] = form.capital
                                   THEN @ ELSE form.capital,
                    ![a].picks = form.picks, ![a].reserved = FALSE]
               /\ filed' = filed
    BY DEF Save
  <1>4. form.name \in Name /\ form.picks \subseteq Province
        /\ form.capital \in Province \cup {None}
    BY NationsAssumption DEF None
  <1> DEFINE Saved(a) ==
        /\ Writes(a, app'[a]) /\ ~app'[a].reserved
        /\ \/ app[a] = NoApplication /\ app'[a].status = "DRAFT"
           \/ /\ app'[a].status = app[a].status /\ app'[a].reason = app[a].reason
              /\ app'[a].number = app[a].number
              /\ StillSaves(r) => app[a].status = "DRAFT"
        /\ filed' \in 0..MaxFiled /\ filed' >= filed /\ a <= filed'
  <1>5. \E a \in Filing : Saved(a)
    <2>1. CASE /\ filed < MaxFiled /\ filed' = filed + 1
               /\ app' = [app EXCEPT ![filed + 1] = Draft(r.who, form)]
      <3> DEFINE a == filed + 1  y == Draft(r.who, form)
      <3>1. a \in Filing /\ filed' \in 0..MaxFiled /\ filed' >= filed /\ a <= filed'
            /\ a > filed
        BY <1>2, <2>1, Constants DEF Filing
      <3>2. app[a] = NoApplication  BY <3>1 DEF Sound, Unfiled
      <3>3. 0 \in 0..MaxNumber  BY Constants
      <3>4. y \in Application /\ y.status = "DRAFT" /\ y.reserved = FALSE
        BY <1>2, <1>4, <3>3 DEF Draft, Application
      <3>5. app' = [app EXCEPT ![a] = y]  BY <2>1
      <3> HIDE DEF a, y
      <3>6. Writes(a, app'[a]) /\ app'[a] = y
        BY <3>1, <3>4, <3>5 DEF Writes, Sound, Typed
      <3> QED  BY <3>1, <3>2, <3>4, <3>6
    <2>2. ASSUME NEW a \in Live(r.who),
                 (\E v \in r.seen : v[1] = a) \/ app[a].status = "DRAFT",
                 app' = [app EXCEPT
                    ![a].name = IF \E v \in r.seen : v[1] = a /\ v[2] = form.name
                                THEN @ ELSE form.name,
                    ![a].capital = IF \E v \in r.seen : v[1] = a /\ v[3] = form.capital
                                   THEN @ ELSE form.capital,
                    ![a].picks = form.picks, ![a].reserved = FALSE],
                 filed' = filed
          PROVE  Saved(a) /\ a \in Filing
      <3> DEFINE x == IF \E v \in r.seen : v[1] = a /\ v[2] = form.name
                      THEN app[a].name ELSE form.name
                 c == IF \E v \in r.seen : v[1] = a /\ v[3] = form.capital
                      THEN app[a].capital ELSE form.capital
                 y == [app[a] EXCEPT !.name = x, !.capital = c, !.picks = form.picks,
                                     !.reserved = FALSE]
      <3>0. filed' = filed /\ ((\E v \in r.seen : v[1] = a) \/ app[a].status = "DRAFT")
        BY <2>2
      <3>1. a \in Filing /\ app[a].status \in {"DRAFT", "PENDING"} /\ app[a] \in Application
        BY Statuses DEF Live, With, Sound, Typed
      <3>2. app' = [app EXCEPT ![a] = y]  BY <2>2
      <3>3. x \in Name /\ c \in Province \cup {None}  BY <1>4, <3>1, Statuses
      <3>4. /\ y \in Application /\ y.reserved = FALSE /\ y.status = app[a].status
            /\ y.reason = app[a].reason /\ y.number = app[a].number
        BY <1>4, <3>1, <3>3 DEF Application
      <3> HIDE DEF y
      <3>5. Writes(a, app'[a]) /\ app'[a] = y
        BY <3>1, <3>2, <3>4 DEF Writes, Sound, Typed
      <3>6. StillSaves(r) => app[a].status = "DRAFT"
        BY <3>0, <3>1 DEF StillSaves
      <3>7. a <= filed
        BY <1>2, <3>1, Statuses, Constants DEF Sound, Unfiled, Filing
      <3>8. filed' \in 0..MaxFiled /\ filed' >= filed  BY <1>2, <3>0 DEF Sound, Typed
      <3> QED  BY <3>0, <3>1, <3>4, <3>5, <3>6, <3>7, <3>8
    <2> QED  BY <1>3, <2>1, <2>2
  <1>6. PICK a \in Filing : Saved(a)  BY <1>5
  <1>7. /\ app' \in [Filing -> Application \cup {NoApplication}]
        /\ \A b \in Filing : b # a => app'[b] = app[b]
    BY <1>6 DEF Writes
  <1>8. With("PENDING")' \subseteq With("PENDING")
    <2>1. app'[a].status = "PENDING" => app[a].status = "PENDING"  BY <1>6
    <2> QED  BY <1>7, <2>1 DEF With
  <1>9. Unfiled'
    <2>1. \A b \in Filing : b > filed' => b > filed /\ b # a
      BY <1>2, <1>6, Constants DEF Filing
    <2> QED  BY <1>7, <2>1 DEF Unfiled, Sound
  <1>10. Typed'  BY <1>1, <1>6, <1>7 DEF Sound, Typed, worldVars
  <1>11. RoomIsKept'  BY <1>1, <1>8, RoomStays DEF Sound, worldVars
  <1>12. OneNationEach'  BY <1>1 DEF Sound, OneNationEach, Nations, worldVars
  <1>13. ReservedIsFree'
    <2>1. \A q \in Province : holder'[q] \in {holder[q], None}  BY <1>1 DEF worldVars
    <2>2. \A b \in Filing : app'[b].reserved => app'[b] = app[b]  BY <1>6, <1>7
    <2> QED  BY <2>1, <2>2, FreedStays
  <1>14. DecisionStands
    <2>1. ASSUME NEW b \in Filing
          PROVE  /\ app[b].status = "ACCEPTED" => app'[b].status \in {"ACCEPTED", "none"}
                 /\ app[b].status = "DRAFT" =>
                      /\ app'[b].status # "ACCEPTED"
                      /\ app'[b].status = "DRAFT" => app'[b].reason = app[b].reason
      <3>1. CASE b = a
        <4>1. app[a] = NoApplication => app[a].status = "none"  BY Statuses
        <4> QED  BY <1>6, <3>1, <4>1
      <3>2. CASE b # a  BY <1>7, <3>2
      <3> QED  BY <3>1, <3>2
    <2> QED  BY <2>1 DEF DecisionStands
  <1>15. Numbered
    <2>1. ~(app[a].status = "DRAFT" /\ app'[a].status = "PENDING")  BY <1>6
    <2> QED  BY <1>7, <2>1 DEF Numbered
  <1>16. ASSUME StillSaves(r) PROVE Frozen /\ (ReserveHeld => ReserveHeld')
    <2>1. app'[a].status = "DRAFT"  BY <1>6, <1>16
    <2>2. Frozen  BY <1>7, <2>1 DEF Frozen
    <2>3. ReserveHeld => ReserveHeld'  BY <1>7, <1>8, <2>1 DEF ReserveHeld, With
    <2> QED  BY <2>2, <2>3
  <1> QED  BY <1>1, <1>9, <1>10, <1>11, <1>12, <1>13, <1>14, <1>15, <1>16 DEF Sound

(* A draft is submitted, under the number after the one its request saw.   *)
LEMMA SubmitWrite ==
  ASSUME Sound, NEW r \in SubmitViews, Submit(r)
  PROVE  /\ Sound' /\ Frozen /\ DecisionStands
         /\ UNCHANGED worldVars
         /\ ReserveHeld => ReserveHeld'
         /\ StillSubmits(r) => Numbered
  <1>1. UNCHANGED worldVars /\ filed' = filed /\ RoomForNation  BY DEF Submit
  <1>2. PICK a \in Live(r.who) :
          LET view == IF a = r.app THEN r.seen ELSE app[a]
              Q    == app[a].picks
          IN /\ view.number < MaxNumber
             /\ Available(Q, None) /\ RightCount(Q)
             /\ app' = [app EXCEPT ![a].status = "PENDING", ![a].reason = "",
                                   ![a].due = FALSE, ![a].number = NextNumber(view),
                                   ![a].reserved = TRUE]
    BY DEF Submit
  <1> DEFINE view == IF a = r.app THEN r.seen ELSE app[a]
             Q == app[a].picks
             y == [app[a] EXCEPT !.status = "PENDING", !.reason = "", !.due = FALSE,
                                 !.number = NextNumber(view), !.reserved = TRUE]
  <1>3. a \in Filing /\ app[a].status \in {"DRAFT", "PENDING"} /\ app[a] \in Application
    BY Statuses DEF Live, With, Sound, Typed
  <1>4. view \in Application /\ view.number < MaxNumber  BY <1>2, <1>3 DEF SubmitViews
  <1>5. Available(Q, None) /\ RightCount(Q) /\ app' = [app EXCEPT ![a] = y]  BY <1>2
  <1>6. StillSubmits(r) => view.number = app[a].number  BY DEF StillSubmits
  <1> HIDE DEF view
  <1>7. NextNumber(view) \in 0..MaxNumber /\ NextNumber(view) = view.number + 1
    BY <1>4, Statuses, Constants DEF NextNumber
  <1>8. /\ y \in Application /\ y.status = "PENDING" /\ y.reserved = TRUE
        /\ y.picks = Q /\ y.name = app[a].name /\ y.number = view.number + 1
    BY <1>3, <1>7 DEF Application
  <1> HIDE DEF y
  <1>9. Writes(a, y)  BY <1>3, <1>5, <1>8 DEF Writes, Sound, Typed
  <1>10. /\ app' \in [Filing -> Application \cup {NoApplication}] /\ app'[a] = y
         /\ \A b \in Filing : b # a => app'[b] = app[b]
    BY <1>9 DEF Writes
  <1>11. With("PENDING")' = With("PENDING") \cup {a}  BY <1>3, <1>8, <1>10 DEF With
  <1>12. a <= filed
    BY <1>3, Statuses, Constants DEF Sound, Typed, Unfiled, Filing
  <1>13. Unfiled'
    <2>1. \A b \in Filing : b > filed' => b > filed /\ b # a
      BY <1>1, <1>12, Constants DEF Filing, Sound, Typed
    <2> QED  BY <1>10, <2>1 DEF Unfiled, Sound
  <1>14. Typed'  BY <1>1, <1>10 DEF Sound, Typed, worldVars
  <1>15. RoomIsKept'
    <2> DEFINE n == Cardinality(With("PENDING"))  m == Cardinality(With("PENDING")')
    <2>1. n \in Nat /\ m \in Nat /\ m <= n + 1
      <3> DEFINE S == With("PENDING")
      <3>1. IsFiniteSet(S)  BY PendingIsFinite
      <3>2. With("PENDING")' = S \cup {a}  BY <1>11
      <3> HIDE DEF S
      <3>3. Cardinality(S) \in Nat  BY <3>1, FS_CardinalityType
      <3>4. /\ IsFiniteSet(S \cup {a})
            /\ Cardinality(S \cup {a}) =
                 IF a \in S THEN Cardinality(S) ELSE Cardinality(S) + 1
        BY <3>1, FS_AddElement
      <3>5. Cardinality(S \cup {a}) \in Nat /\ Cardinality(S \cup {a}) <= Cardinality(S) + 1
        BY <3>3, <3>4
      <3> QED  BY <3>2, <3>3, <3>5 DEF S
    <2>2. born + n < MaxNations /\ born \in Int /\ MaxNations \in Int /\ born' = born
      BY <1>1, Constants DEF RoomForNation, Sound, Typed, worldVars
    <2> HIDE DEF n, m
    <2>3. born' + m <= MaxNations  BY <2>1, <2>2
    <2> QED  BY <2>3 DEF RoomIsKept, m
  <1>16. OneNationEach'  BY <1>1 DEF Sound, OneNationEach, Nations, worldVars
  <1>17. ReservedIsFree'
    <2> SUFFICES ASSUME NEW b \in Filing, app'[b].reserved
                 PROVE  /\ app'[b].status = "PENDING"
                        /\ \A q \in app'[b].picks : holder'[q] = None /\ ~Reserved(q, b)'
      BY DEF ReservedIsFree
    <2>1. holder' = holder  BY <1>1 DEF worldVars
    <2>2. \A q \in Q : holder[q] = None /\ ~Reserved(q, None)
      BY <1>5 DEF Available
    <2>3. None \notin Filing  BY Constants DEF Filing
    <2>4. \A q \in Q : \A e \in Filing : ~(app[e].reserved /\ q \in app[e].picks)
      BY <2>2, <2>3 DEF Reserved
    <2>5. CASE b = a
      <3>1. \A q \in Q : ~Reserved(q, b)'
        BY <1>10, <2>4, <2>5 DEF Reserved
      <3> QED  BY <1>8, <1>10, <2>1, <2>2, <2>5, <3>1
    <2>6. CASE b # a
      <3>1. app'[b] = app[b]  BY <1>10, <2>6
      <3>2. /\ app[b].status = "PENDING"
            /\ \A q \in app[b].picks : holder[q] = None /\ ~Reserved(q, b)
        BY <3>1 DEF Sound, ReservedIsFree
      <3>3. \A q \in app[b].picks : q \notin Q  BY <2>4, <3>1
      <3>4. \A q \in app[b].picks : ~Reserved(q, b)'
        BY <1>8, <1>10, <3>2, <3>3 DEF Reserved
      <3> QED  BY <2>1, <3>1, <3>2, <3>4
    <2> QED  BY <2>5, <2>6
  <1>18. ReserveHeld => ReserveHeld'
    BY <1>5, <1>8, <1>10, <1>11 DEF ReserveHeld, With, RightCount
  <1>19. Frozen  BY <1>8, <1>10 DEF Frozen
  <1>20. DecisionStands  BY <1>3, <1>8, <1>10 DEF DecisionStands
  <1>21. ASSUME StillSubmits(r) PROVE Numbered
    <2>1. app'[a].number > app[a].number
      BY <1>3, <1>6, <1>8, <1>10, <1>21, Statuses, Constants
    <2> QED  BY <1>10, <2>1 DEF Numbered
  <1> QED  BY <1>1, <1>13, <1>14, <1>15, <1>16, <1>17, <1>18, <1>19, <1>20, <1>21 DEF Sound

(* The review deadline passes.                                             *)
LEMMA ExpireWrite ==
  ASSUME Sound, NEW a \in Filing, Expire(a)
  PROVE  /\ Sound' /\ Orderly
         /\ UNCHANGED worldVars
         /\ ReserveHeld => ReserveHeld'
         /\ \A b \in Filing : /\ app'[b].status = app[b].status
                              /\ app'[b].number = app[b].number
                              /\ app[b].due => app'[b].due
  <1>1. UNCHANGED worldVars /\ filed' = filed /\ app[a].status = "PENDING"
    BY DEF Expire, worldVars
  <1>2. app[a] # NoApplication /\ Known  BY <1>1, Statuses DEF Known, Sound, Typed
  <1>3. /\ Writes(a, app'[a]) /\ app'[a].due
        /\ app'[a].status = app[a].status /\ app'[a].owner = app[a].owner
        /\ app'[a].picks = app[a].picks /\ app'[a].reserved = app[a].reserved
        /\ app'[a].name = app[a].name /\ app'[a].reason = app[a].reason
        /\ app'[a].number = app[a].number
    BY <1>2, Expired
  <1>4. /\ app' \in [Filing -> Application \cup {NoApplication}]
        /\ \A b \in Filing : b # a => app'[b] = app[b]
    BY <1>3 DEF Writes
  <1>5. \A b \in Filing : /\ app'[b].status = app[b].status
                          /\ app'[b].number = app[b].number
                          /\ app'[b].picks = app[b].picks
                          /\ app'[b].reserved = app[b].reserved
                          /\ app'[b].name = app[b].name
                          /\ app'[b].reason = app[b].reason
                          /\ app[b].due => app'[b].due
    BY <1>3, <1>4
  <1>6. With("PENDING")' = With("PENDING")  BY <1>5 DEF With
  <1>7. a <= filed
    BY <1>2, Constants DEF Sound, Typed, Unfiled, Filing
  <1>8. Unfiled'
    <2>1. \A b \in Filing : b > filed' => b > filed /\ b # a
      BY <1>1, <1>7, Constants DEF Filing, Sound, Typed
    <2> QED  BY <1>4, <2>1 DEF Unfiled, Sound
  <1>9. Typed'  BY <1>1, <1>4 DEF Sound, Typed, worldVars
  <1>10. RoomIsKept'  BY <1>1, <1>6, RoomStays DEF Sound, worldVars
  <1>11. OneNationEach'  BY <1>1 DEF Sound, OneNationEach, Nations, worldVars
  <1>12. ReservedIsFree'
    BY <1>1, <1>5, FreeStays DEF Sound, ReservedIsFree, worldVars
  <1>13. ReserveHeld => ReserveHeld'  BY <1>5, <1>6 DEF ReserveHeld, With
  <1>14. Frozen  BY <1>5 DEF Frozen
  <1>15. Numbered  BY <1>5 DEF Numbered
  <1>16. DecisionStands  BY <1>5 DEF DecisionStands
  <1> QED  BY <1>1, <1>5, <1>8, <1>9, <1>10, <1>11, <1>12, <1>13, <1>14, <1>15, <1>16
           DEF Sound, Orderly

(***************************************************************************)
(* Sessions.                                                               *)
(***************************************************************************)
LEMMA ViewKinds ==
  ASSUME NEW r \in Views
  PROVE  /\ r.op \in Ops \cup {"idle"} /\ r.stale \in BOOLEAN
         /\ r.op = "idle" <=> r = Idle
         /\ r.op = "save" => r \in SaveViews
         /\ r.op = "submit" => r \in SubmitViews
         /\ r.op \in {"accept", "return"} => r \in DecisionViews
         /\ r.op = "transfer" => r \in TransferViews
         /\ r.op = "delete" => r \in DeleteViews
         /\ r.op = "evict" => r \in EvictViews
         /\ r.op = "pass" => r \in PassViews
         /\ r.op = "auto" => r \in AutoViews
  <1>1. CASE r = Idle  BY <1>1 DEF Idle
  <1>2. CASE r \in SaveViews  BY <1>2 DEF SaveViews, Ops, Idle
  <1>3. CASE r \in SubmitViews  BY <1>3 DEF SubmitViews, Ops, Idle
  <1>4. CASE r \in DecisionViews  BY <1>4 DEF DecisionViews, Ops, Idle
  <1>5. CASE r \in TransferViews  BY <1>5 DEF TransferViews, Ops, Idle
  <1>6. CASE r \in DeleteViews  BY <1>6 DEF DeleteViews, Ops, Idle
  <1>7. CASE r \in EvictViews  BY <1>7 DEF EvictViews, Ops, Idle
  <1>8. CASE r \in PassViews  BY <1>8 DEF PassViews, Ops, Idle
  <1>9. CASE r \in AutoViews  BY <1>9 DEF AutoViews, Ops, Idle
  <1> QED  BY <1>1, <1>2, <1>3, <1>4, <1>5, <1>6, <1>7, <1>8, <1>9 DEF Views

LEMMA IdleFacts ==
  /\ Idle \in Views /\ Idle.op = "idle" /\ Idle.stale = FALSE /\ Current(Idle)
  BY DEF Views, Idle, Current

LEMMA OvertakenView ==
  ASSUME NEW r \in Views, r # Idle
  PROVE  LET o == [r EXCEPT !.stale = TRUE]
         IN o \in Views /\ o.op = r.op /\ o.stale = TRUE
  <1> DEFINE o == [r EXCEPT !.stale = TRUE]
  <1>2. CASE r \in SaveViews
    <2>1. o \in SaveViews /\ o.op = r.op /\ o.stale = TRUE  BY <1>2 DEF SaveViews
    <2> QED  BY <2>1 DEF Views
  <1>3. CASE r \in SubmitViews
    <2>1. o \in SubmitViews /\ o.op = r.op /\ o.stale = TRUE  BY <1>3 DEF SubmitViews
    <2> QED  BY <2>1 DEF Views
  <1>4. CASE r \in DecisionViews
    <2>1. o \in DecisionViews /\ o.op = r.op /\ o.stale = TRUE  BY <1>4 DEF DecisionViews
    <2> QED  BY <2>1 DEF Views
  <1>5. CASE r \in TransferViews
    <2>1. o \in TransferViews /\ o.op = r.op /\ o.stale = TRUE  BY <1>5 DEF TransferViews
    <2> QED  BY <2>1 DEF Views
  <1>6. CASE r \in DeleteViews
    <2>1. o \in DeleteViews /\ o.op = r.op /\ o.stale = TRUE  BY <1>6 DEF DeleteViews
    <2> QED  BY <2>1 DEF Views
  <1>7. CASE r \in EvictViews
    <2>1. o \in EvictViews /\ o.op = r.op /\ o.stale = TRUE  BY <1>7 DEF EvictViews
    <2> QED  BY <2>1 DEF Views
  <1>8. CASE r \in PassViews
    <2>1. o \in PassViews /\ o.op = r.op /\ o.stale = TRUE  BY <1>8 DEF PassViews
    <2> QED  BY <2>1 DEF Views
  <1>9. CASE r \in AutoViews
    <2>1. o \in AutoViews /\ o.op = r.op /\ o.stale = TRUE  BY <1>9 DEF AutoViews
    <2> QED  BY <2>1 DEF Views
  <1> QED  BY <1>2, <1>3, <1>4, <1>5, <1>6, <1>7, <1>8, <1>9 DEF Views

(* Whoever is between reading and committing has been overtaken.           *)
LEMMA CommitFacts ==
  ASSUME tx \in [Client -> Views], overtaken \subseteq Fragile,
         NEW s, NEW r \in Views, Commit(s, r)
  PROVE  /\ tx' \in [Client -> Views]
         /\ s \in Client => tx'[s] = r
         /\ \A t \in Client : t # s => /\ tx'[t] = Idle \/ tx'[t].stale
                                       /\ tx'[t].op = tx[t].op
         /\ overtaken \subseteq overtaken' /\ overtaken' \subseteq Fragile
         /\ s # None /\ tx[s].stale /\ tx[s].op \in Fragile => tx[s].op \in overtaken'
  <1>1. tx' = [t \in Client |-> IF t = s THEN r ELSE IF tx[t] = Idle THEN Idle
                                ELSE [tx[t] EXCEPT !.stale = TRUE]]
    BY DEF Commit
  <1>2. ASSUME NEW t \in Client, t # s
        PROVE  /\ tx'[t] \in Views /\ tx'[t].op = tx[t].op
               /\ tx'[t] = Idle \/ tx'[t].stale
    <2>1. CASE tx[t] = Idle  BY <1>1, <1>2, <2>1, IdleFacts
    <2>2. CASE tx[t] # Idle
      <3>1. tx'[t] = [tx[t] EXCEPT !.stale = TRUE]  BY <1>1, <1>2, <2>2
      <3> QED  BY <2>2, <3>1, OvertakenView
    <2> QED  BY <2>1, <2>2
  <1>3. \A t \in Client : tx'[t] \in Views  BY <1>1, <1>2
  <1>4. tx' \in [Client -> Views]  BY <1>1, <1>3
  <1>5. s \in Client => tx'[s] = r  BY <1>1
  <1>6. /\ overtaken \subseteq overtaken' /\ overtaken' \subseteq Fragile
        /\ s # None /\ tx[s].stale /\ tx[s].op \in Fragile => tx[s].op \in overtaken'
    BY DEF Commit
  <1> QED  BY <1>2, <1>4, <1>5, <1>6

LEMMA SessionsCommit ==
  ASSUME Sessions, overtaken \subseteq Fragile,
         NEW s, NEW r \in Views, Commit(s, r), ~r.stale => Current(r)',
         r.op \in {"idle", "pass", "auto"}
  PROVE  Sessions'
  <1>1. /\ tx' \in [Client -> Views]
        /\ s \in Client => tx'[s] = r
        /\ \A t \in Client : t # s => /\ tx'[t] = Idle \/ tx'[t].stale
                                      /\ tx'[t].op = tx[t].op
    BY CommitFacts DEF Sessions
  <1>2. Current(Idle)'  BY DEF Current, Idle
  <1>3. ASSUME NEW t \in Client, ~tx'[t].stale PROVE Current(tx[t])'
    <2>1. CASE t = s
      <3>1. tx'[t] = r /\ ~r.stale  BY <1>1, <1>3, <2>1
      <3>2. Current(r)'  BY <3>1
      <3> QED  BY <3>1, <3>2 DEF Current, StillSaves, StillSubmits, StillTransfers,
                       StillDeletes, StillEvicts, StillPasses, StillAccepts
    <2>2. CASE t # s
      <3>1. tx'[t] = Idle  BY <1>1, <1>3, <2>2
      <3> QED  BY <3>1 DEF Current, Idle
    <2> QED  BY <2>1, <2>2
  <1>4. tx'[Worker].op \in {"idle", "pass", "auto"}  BY <1>1 DEF Client, Sessions
  <1> QED  BY <1>1, <1>3, <1>4 DEF Sessions

(* What a request reads is so.                                             *)
LEMMA ReadsAreCurrent ==
  ASSUME Sound, NEW r \in Reads
  PROVE  r \in Views /\ ~r.stale /\ Current(r)
  <1>1. \/ r \in SaveReads \/ r \in SubmitReads \/ r \in DecisionReads
        \/ r \in TransferReads \/ r \in DeleteReads \/ r \in EvictReads
    BY DEF Reads
  <1>2. CASE r \in SaveReads
    <2>1. PICK p \in Player : r = SaveOf(p) /\ Live(p) \subseteq With("DRAFT")
      BY <1>2 DEF SaveReads
    <2>2. \A a \in Live(p) : a \in Filing /\ app[a].status = "DRAFT"
      BY <2>1 DEF Live, With
    <2> DEFINE S == {<<a, app[a].name, app[a].capital>> : a \in Live(p)}
    <2>3. \A a \in Live(p) : app[a] \in Application
      BY <2>2, Statuses DEF Sound, Typed
    <2>4. S \in SUBSET (Filing \X Name \X (Province \cup {None}))
      BY <2>2, <2>3, Statuses
    <2>5. \A v \in S : app[v[1]].status # "PENDING"  BY <2>2
    <2>6. r = [op |-> "save", stale |-> FALSE, who |-> p, seen |-> S]  BY <2>1 DEF SaveOf
    <2> HIDE DEF S
    <2>7. r \in SaveViews /\ r.stale = FALSE /\ r.op = "save" /\ r.seen = S
      BY <2>4, <2>6 DEF SaveViews
    <2> QED  BY <2>5, <2>7 DEF Views, Current, StillSaves
  <1>3. CASE r \in SubmitReads
    <2>1. PICK a \in With("DRAFT") :
            r = [op |-> "submit", stale |-> FALSE, who |-> app[a].owner, app |-> a,
                 seen |-> app[a]]
      BY <1>3 DEF SubmitReads
    <2>2. a \in Filing /\ app[a] \in Application  BY Statuses DEF With, Sound, Typed
    <2>3. app[a].owner \in Player  BY <2>2, Statuses
    <2>4. /\ r \in SubmitViews /\ r.stale = FALSE /\ r.op = "submit"
          /\ r.app = a /\ r.seen = app[a]
      BY <2>1, <2>2, <2>3 DEF SubmitViews
    <2> QED  BY <2>4 DEF Views, Current, StillSubmits
  <1>4. CASE r \in DecisionReads
    <2>1. PICK op \in {"accept", "return"} : \E a \in With("PENDING") :
            r = [op |-> op, stale |-> FALSE, app |-> a]
      BY <1>4 DEF DecisionReads
    <2>2. /\ r \in DecisionViews /\ r.stale = FALSE /\ r.op \in {"accept", "return"}
      BY <2>1 DEF DecisionViews, With
    <2> QED  BY <2>2 DEF Views, Current
  <1>5. CASE r \in TransferReads
    <2>1. PICK q \in Province : \E n \in Nations \cup {None} :
            r = [op |-> "transfer", stale |-> FALSE, province |-> q, to |-> n,
                 was |-> holder[q]]
      BY <1>5 DEF TransferReads
    <2>2. holder[q] \in Nation \cup {None}  BY DEF Sound, Typed
    <2>3. /\ r \in TransferViews /\ r.stale = FALSE /\ r.op = "transfer"
          /\ r.was = holder[q] /\ r.province = q
      BY <2>1, <2>2 DEF TransferViews, Nations
    <2> QED  BY <2>3 DEF Views, Current, StillTransfers
  <1>6. CASE r \in DeleteReads
    <2>1. PICK n \in Nations :
            r = [op |-> "delete", stale |-> FALSE, nation |-> n, listed |-> HeldBy(n)]
      BY <1>6 DEF DeleteReads
    <2>2. /\ r \in DeleteViews /\ r.stale = FALSE /\ r.op = "delete"
          /\ r.nation = n /\ r.listed = HeldBy(n)
      BY <2>1 DEF DeleteViews, Nations, HeldBy
    <2> QED  BY <2>2 DEF Views, Current, StillDeletes
  <1>7. CASE r \in EvictReads
    <2>1. PICK p \in Player \ Admin :
            r = [op |-> "evict", stale |-> FALSE, victim |-> p, nation |-> NationOf(p),
                 listed |-> {q \in Province : holder[q] \in NationOf(p)}]
      BY <1>7 DEF EvictReads
    <2> DEFINE L == {q \in Province : holder[q] \in NationOf(p)}
    <2>2. \A n \in NationOf(p) : NationOf(p) = {n}
      BY DEF NationOf, Sound, OneNationEach
    <2>3. \A n \in NationOf(p) : L = HeldBy(n)  BY <2>2 DEF HeldBy
    <2>4. NationOf(p) \subseteq Nation  BY DEF NationOf, Nations
    <2>5. L \subseteq Province  OBVIOUS
    <2> HIDE DEF L
    <2>6. r = [op |-> "evict", stale |-> FALSE, victim |-> p, nation |-> NationOf(p),
               listed |-> L]
      BY <2>1 DEF L
    <2>7. /\ r \in EvictViews /\ r.stale = FALSE /\ r.op = "evict"
          /\ r.nation = NationOf(p) /\ r.listed = L
      BY <2>4, <2>5, <2>6 DEF EvictViews
    <2> QED  BY <2>3, <2>7 DEF Views, Current, StillEvicts
  <1> QED  BY <1>1, <1>2, <1>3, <1>4, <1>5, <1>6, <1>7

LEMMA WorldStands ==
  ASSUME UNCHANGED worldVars
  PROVE  (CapitalsHeld => CapitalsHeld') /\ (Journalled => Journalled')
  BY DEF worldVars, CapitalsHeld, Journalled, Nations

(* Nothing is written.                                                     *)
LEMMA NothingWritten ==
  ASSUME Sound, UNCHANGED <<worldVars, appVars>>
  PROVE  /\ Sound' /\ Orderly
         /\ ReserveHeld => ReserveHeld'
         /\ CapitalsHeld => CapitalsHeld'
         /\ Journalled => Journalled'
  <1>1. /\ With("PENDING")' = With("PENDING") /\ Unfiled'
        /\ ReserveHeld => ReserveHeld'
        /\ Orderly
    BY AppStands
  <1>2. Typed'  BY DEF Sound, Typed, worldVars, appVars
  <1>3. RoomIsKept'  BY <1>1, RoomStays DEF Sound, worldVars
  <1>4. OneNationEach'  BY DEF Sound, OneNationEach, Nations, worldVars
  <1>5. ReservedIsFree'  BY DEF Sound, ReservedIsFree, Reserved, worldVars, appVars
  <1> QED  BY <1>1, <1>2, <1>3, <1>4, <1>5, WorldStands DEF Sound

(* What has been read stays so when nothing is written, and when a review  *)
(* deadline passes.                                                        *)
LEMMA StaysCurrent ==
  ASSUME NEW r \in Views, Current(r), holder' = holder,
         \A b \in Filing : /\ app'[b].status = app[b].status
                           /\ app'[b].number = app[b].number
                           /\ app[b].due => app'[b].due
  PROVE  Current(r)'
  <1>1. r.op = "save" => StillSaves(r)'
    BY ViewKinds DEF Current, StillSaves, SaveViews
  <1>2. r.op = "submit" => StillSubmits(r)'
    BY ViewKinds DEF Current, StillSubmits, SubmitViews
  <1>3. r.op = "transfer" => StillTransfers(r)'  BY DEF Current, StillTransfers
  <1>4. r.op = "delete" => StillDeletes(r)'  BY DEF Current, StillDeletes, HeldBy
  <1>5. r.op = "evict" => StillEvicts(r)'  BY DEF Current, StillEvicts, HeldBy
  <1>6. r.op \in {"pass", "auto"} => StillPasses(r)'
    BY ViewKinds DEF Current, StillPasses, PassViews, AutoViews
  <1>7. r.op = "auto" => StillAccepts(r)'
    BY ViewKinds DEF Current, StillAccepts, AutoViews
  <1> QED  BY <1>1, <1>2, <1>3, <1>4, <1>5, <1>6, <1>7 DEF Current

(* The write of a request that has read r.                                 *)
LEMMA ApplyFacts ==
  ASSUME Sound, orders \in 0..MaxOrders, NEW r \in Views, Apply(r)
  PROVE  /\ Sound' /\ DecisionStands /\ orders' \in 0..MaxOrders
         /\ Current(r) \/ r.op # "save" => Frozen /\ (ReserveHeld => ReserveHeld')
         /\ Current(r) \/ r.op # "submit" => Numbered
         /\ Current(r) \/ r.op \notin {"transfer", "delete", "evict"} =>
              (CapitalsHeld => CapitalsHeld') /\ (Journalled => Journalled')
         /\ r.op # "auto"
  <1>1. CASE r.op = "save" /\ Save(r)
    <2>1. r \in SaveViews /\ (Current(r) => StillSaves(r))  BY <1>1, ViewKinds DEF Current
    <2>2. orders' = orders  BY <1>1 DEF Save
    <2>3. /\ Sound' /\ DecisionStands /\ Numbered
          /\ UNCHANGED worldVars
          /\ StillSaves(r) => Frozen /\ (ReserveHeld => ReserveHeld')
      BY <1>1, <2>1, SaveWrite
    <2> QED  BY <1>1, <2>1, <2>2, <2>3, WorldStands
  <1>2. CASE r.op = "submit" /\ Submit(r)
    <2>1. r \in SubmitViews /\ (Current(r) => StillSubmits(r))
      BY <1>2, ViewKinds DEF Current
    <2>2. orders' = orders  BY <1>2 DEF Submit
    <2>3. /\ Sound' /\ Frozen /\ DecisionStands
          /\ UNCHANGED worldVars
          /\ ReserveHeld => ReserveHeld'
          /\ StillSubmits(r) => Numbered
      BY <1>2, <2>1, SubmitWrite
    <2> QED  BY <1>2, <2>1, <2>2, <2>3, WorldStands
  <1>3. CASE r.op \in {"accept", "return"} /\ Decide(r)
    <2>1. r.app \in Filing  BY <1>3, ViewKinds DEF DecisionViews
    <2>2. orders' = orders /\ filed' = filed /\ (Accept(r.app) \/ Return(r.app))
      BY <1>3 DEF Decide
    <2>3. CASE Accept(r.app)
      BY <1>3, <2>1, <2>2, <2>3, AcceptWrite DEF Orderly
    <2>4. CASE Return(r.app)
      <3>1. /\ app[r.app].status = "PENDING" /\ BackToDraft(r.app, "returned")
            /\ UNCHANGED worldVars
        BY <2>4 DEF Return
      <3>2. app[r.app] # NoApplication  BY <3>1, Statuses
      <3> QED  BY <1>3, <2>1, <2>2, <3>1, <3>2, BackWrite, WorldStands
    <2> QED  BY <2>2, <2>3, <2>4
  <1>4. CASE r.op = "transfer" /\ Transfer(r)
    <2>1. r \in TransferViews /\ (Current(r) => StillTransfers(r))
      BY <1>4, ViewKinds DEF Current
    <2>2. orders' \in 0..MaxOrders  BY <1>4, Constants DEF Transfer, Act
    <2>3. /\ Sound' /\ Orderly
          /\ ReserveHeld => ReserveHeld'
          /\ StillTransfers(r) /\ CapitalsHeld => CapitalsHeld'
          /\ StillTransfers(r) /\ Journalled => Journalled'
      BY <1>4, <2>1, TransferWrite
    <2> QED  BY <1>4, <2>1, <2>2, <2>3 DEF Orderly
  <1>5. CASE r.op = "delete" /\ Delete(r)
    <2>1. r \in DeleteViews /\ (Current(r) => StillDeletes(r))
      BY <1>5, ViewKinds DEF Current
    <2>2. orders' \in 0..MaxOrders  BY <1>5, Constants DEF Delete, Act
    <2>3. /\ Sound' /\ Orderly
          /\ ReserveHeld => ReserveHeld'
          /\ StillDeletes(r) /\ CapitalsHeld => CapitalsHeld'
          /\ StillDeletes(r) /\ Journalled => Journalled'
      BY <1>5, <2>1, DeleteWrite
    <2> QED  BY <1>5, <2>1, <2>2, <2>3 DEF Orderly
  <1>6. CASE r.op = "evict" /\ Evict(r)
    <2>1. r \in EvictViews /\ (Current(r) => StillEvicts(r))
      BY <1>6, ViewKinds DEF Current
    <2>2. orders' \in 0..MaxOrders  BY <1>6, Constants DEF Evict, Act
    <2>3. /\ Sound' /\ Orderly
          /\ ReserveHeld => ReserveHeld'
          /\ StillEvicts(r) /\ CapitalsHeld => CapitalsHeld'
          /\ StillEvicts(r) /\ Journalled => Journalled'
      BY <1>6, <2>1, EvictWrite
    <2> QED  BY <1>6, <2>1, <2>2, <2>3 DEF Orderly
  <1> QED  BY <1>1, <1>2, <1>3, <1>4, <1>5, <1>6 DEF Apply

(***************************************************************************)
(* The steps.                                                              *)
(***************************************************************************)
Decided ==
  /\ Unless({"save"})' => Frozen
  /\ Unless({"auto"})' => DecisionStands
  /\ Unless({"submit"})' => Numbered

OnTime ==
  Unless({"auto"})' /\ tx[Worker].op = "auto" /\ tx'[Worker].op # "auto" =>
    \A a \in Filing :
      app[a].status = "PENDING" /\ app'[a].status = "ACCEPTED" => app[a].due

(* A request that has read r commits as s, or as nobody when nobody could  *)
(* overtake it.                                                            *)
LEMMA RequestStep ==
  ASSUME NationsInv, NEW r \in Views, NEW s \in Session \cup {None},
         Apply(r), Commit(s, Idle),
         s = None => Current(r),
         s # None => tx[s] = r
  PROVE  NationsInv' /\ Decided /\ OnTime
  <1>1. /\ tx' \in [Client -> Views]
        /\ \A t \in Client : t # s => tx'[t].op = tx[t].op
        /\ overtaken \subseteq overtaken' /\ overtaken' \subseteq Fragile
        /\ s # None /\ tx[s].stale /\ tx[s].op \in Fragile => tx[s].op \in overtaken'
    BY CommitFacts, IdleFacts DEF NationsInv, Sessions
  <1>2. r.op \in Fragile => Current(r) \/ r.op \in overtaken'
    <2>1. CASE s = None  BY <2>1
    <2>2. CASE s # None
      <3>1. s \in Client  BY <2>2 DEF Client
      <3>2. ~tx[s].stale => Current(tx[s])  BY <3>1 DEF NationsInv, Sessions
      <3> QED  BY <1>1, <2>2, <3>2
    <2> QED  BY <2>1, <2>2
  <1>3. /\ Sound' /\ DecisionStands /\ orders' \in 0..MaxOrders
        /\ Current(r) \/ r.op # "save" => Frozen /\ (ReserveHeld => ReserveHeld')
        /\ Current(r) \/ r.op # "submit" => Numbered
        /\ Current(r) \/ r.op \notin {"transfer", "delete", "evict"} =>
             (CapitalsHeld => CapitalsHeld') /\ (Journalled => Journalled')
    BY ApplyFacts DEF NationsInv
  <1>4. Sessions'
    BY SessionsCommit, IdleFacts DEF NationsInv, Current, Idle
  <1>5. Unless({"save"})' => Unless({"save"}) /\ (Current(r) \/ r.op # "save")
    BY <1>1, <1>2 DEF Unless, Fragile
  <1>6. Unless({"transfer", "delete", "evict"})' =>
          /\ Unless({"transfer", "delete", "evict"})
          /\ Current(r) \/ r.op \notin {"transfer", "delete", "evict"}
    BY <1>1, <1>2 DEF Unless, Fragile
  <1>7. Unless({"submit"})' => Current(r) \/ r.op # "submit"
    BY <1>1, <1>2 DEF Unless, Fragile
  <1>8. Held'  BY <1>3, <1>5, <1>6 DEF Held, NationsInv
  <1>9. Decided  BY <1>3, <1>5, <1>7 DEF Decided
  <1>10. Worker \in Client /\ Worker # s  BY NationsAssumption, Constants DEF Client
  <1>11. OnTime  BY <1>1, <1>10 DEF OnTime
  <1> QED  BY <1>1, <1>3, <1>4, <1>8, <1>9, <1>11 DEF NationsInv

(* A request of one step.                                                  *)
LEMMA AtOnceStep ==
  ASSUME NationsInv, Commit(None, Idle), Sound', Orderly,
         ReserveHeld => ReserveHeld', CapitalsHeld => CapitalsHeld',
         Journalled => Journalled', orders' \in 0..MaxOrders
  PROVE  NationsInv' /\ Decided /\ OnTime
  <1>1. /\ \A t \in Client : t # None => tx'[t].op = tx[t].op
        /\ overtaken \subseteq overtaken' /\ overtaken' \subseteq Fragile
    BY CommitFacts, IdleFacts DEF NationsInv, Sessions
  <1>2. Sessions'  BY SessionsCommit, IdleFacts DEF NationsInv, Current, Idle
  <1>3. Held'  BY <1>1 DEF Held, NationsInv, Unless
  <1>4. Worker \in Client /\ Worker # None  BY Constants DEF Client
  <1>5. Decided /\ OnTime  BY <1>1, <1>4 DEF Decided, OnTime, Orderly
  <1> QED  BY <1>1, <1>2, <1>3, <1>5 DEF NationsInv

(* A step that writes nothing.                                             *)
LEMMA ReadStep ==
  ASSUME NationsInv, UNCHANGED <<worldVars, appVars, overtaken>>,
         tx' \in [Client -> Views], tx'[Worker].op \in {"idle", "pass", "auto"},
         NEW s \in Client, NEW r \in Views, tx' = [tx EXCEPT ![s] = r],
         ~r.stale => Current(r), orders' \in 0..MaxOrders
  PROVE  NationsInv' /\ Decided /\ OnTime
  <1>1. /\ Sound' /\ Orderly
        /\ ReserveHeld => ReserveHeld'
        /\ CapitalsHeld => CapitalsHeld'
        /\ Journalled => Journalled'
    BY NothingWritten DEF NationsInv
  <1>2. ASSUME NEW t \in Client, ~tx'[t].stale PROVE Current(tx[t])'
    <2>1. PICK w \in Views : w = tx'[t]  OBVIOUS
    <2>2. Current(w)
      <3>1. CASE t = s
        <4>1. w = r  BY <2>1, <3>1 DEF NationsInv, Sessions
        <4> QED  BY <1>2, <2>1, <4>1
      <3>2. CASE t # s
        <4>1. w = tx[t] /\ ~tx[t].stale  BY <1>2, <2>1, <3>2 DEF NationsInv, Sessions
        <4>2. Current(tx[t])  BY <4>1 DEF NationsInv, Sessions
        <4> QED  BY <4>1, <4>2
      <3> QED  BY <3>1, <3>2
    <2>3. Current(w)'  BY <2>2, StaysCurrent DEF worldVars, appVars
    <2> QED  BY <2>1, <2>3 DEF Current, StillSaves, StillSubmits, StillTransfers,
                     StillDeletes, StillEvicts, StillPasses, StillAccepts
  <1>3. Sessions'  BY <1>2 DEF Sessions
  <1>4. Held'  BY <1>1 DEF Held, NationsInv, Unless
  <1>5. Decided  BY <1>1 DEF Decided, Orderly
  <1>6. \A a \in Filing : ~(app[a].status = "PENDING" /\ app'[a].status = "ACCEPTED")
    BY DEF appVars
  <1>7. OnTime  BY <1>6 DEF OnTime
  <1> QED  BY <1>1, <1>3, <1>4, <1>5, <1>7 DEF NationsInv

LEMMA RestFacts ==
  ASSUME NEW Q \in SUBSET Filing, NEW b \in BOOLEAN
  PROVE  /\ Rest(Q, b) \in Views /\ Rest(Q, b).op \in {"idle", "pass"}
         /\ (\A a \in Q : app[a].status = "PENDING" => app[a].due) => Current(Rest(Q, b))
         /\ Rest(Q, b).op = "pass" => Rest(Q, b).stale = b /\ Rest(Q, b).left = Q
         /\ Rest(Q, b).op = "idle" => Rest(Q, b) = Idle
  <1>1. CASE Q = {}
    <2>1. Rest(Q, b) = Idle  BY <1>1 DEF Rest
    <2> QED  BY <2>1, IdleFacts
  <1>2. CASE Q # {}
    <2>1. Rest(Q, b) = [op |-> "pass", stale |-> b, left |-> Q]  BY <1>2 DEF Rest
    <2>2. Rest(Q, b) \in PassViews  BY <2>1 DEF PassViews
    <2> QED  BY <2>1, <2>2 DEF Views, Current, StillPasses
  <1> QED  BY <1>1, <1>2

(* The worker's own view.                                                  *)
LEMMA WorkerView ==
  ASSUME NationsInv
  PROVE  /\ Worker \in Client /\ tx[Worker] \in Views /\ tx[Worker].stale \in BOOLEAN
         /\ tx[Worker] # Idle => tx[Worker].left \in SUBSET Filing
         /\ tx[Worker].op = "auto" => tx[Worker].app \in Filing
         /\ ~tx[Worker].stale /\ tx[Worker] # Idle =>
              \A a \in tx[Worker].left : app[a].status = "PENDING" => app[a].due
         /\ ~tx[Worker].stale /\ tx[Worker].op = "auto" =>
              app[tx[Worker].app].status = "PENDING" /\ app[tx[Worker].app].due
  <1>1. Worker \in Client  BY DEF Client
  <1>2. PICK w \in Views : w = tx[Worker]  BY <1>1 DEF NationsInv, Sessions
  <1>3. w.op \in {"idle", "pass", "auto"} /\ (~w.stale => Current(w))
    BY <1>1, <1>2 DEF NationsInv, Sessions
  <1>4. w # Idle => w.op \in {"pass", "auto"}  BY <1>3, ViewKinds
  <1>5. w # Idle => w.left \in SUBSET Filing
    BY <1>4, ViewKinds DEF PassViews, AutoViews
  <1>6. w.op = "auto" => w.app \in Filing  BY ViewKinds DEF AutoViews
  <1>7. ~w.stale /\ w # Idle => \A a \in w.left : app[a].status = "PENDING" => app[a].due
    BY <1>3, <1>4 DEF Current, StillPasses
  <1>8. ~w.stale /\ w.op = "auto" => app[w.app].status = "PENDING" /\ app[w.app].due
    BY <1>3 DEF Current, StillAccepts
  <1> QED  BY <1>1, <1>2, <1>5, <1>6, <1>7, <1>8, ViewKinds

(* The worker's reads, and its failures.                                   *)
LEMMA WorkerReads ==
  ASSUME NationsInv, BeginPass \/ BeginAuto \/ FailAuto
  PROVE  NationsInv' /\ Decided /\ OnTime
  <1> DEFINE w == tx[Worker]
  <1>1. UNCHANGED <<worldVars, appVars, overtaken>> /\ orders' \in 0..MaxOrders
    BY Constants DEF NationsInv, BeginPass, BeginAuto, FailAuto, Begin, Act
  <1>2. \E r \in Views : /\ tx' = [tx EXCEPT ![Worker] = r] /\ (~r.stale => Current(r))
                         /\ r.op \in {"idle", "pass", "auto"}
    <2>1. CASE BeginPass
      <3> DEFINE r == [op |-> "pass", stale |-> FALSE, left |-> Overdue]
      <3>1. tx' = [tx EXCEPT ![Worker] = r]  BY <2>1 DEF BeginPass, Begin
      <3>2. r \in PassViews  BY DEF PassViews, Overdue, With
      <3>3. StillPasses(r)  BY DEF StillPasses, Overdue
      <3>4. r.op = "pass"  OBVIOUS
      <3> HIDE DEF r
      <3> QED  BY <3>1, <3>2, <3>3, <3>4 DEF Views, Current
    <2>2. CASE BeginAuto
      <3>1. w.op = "pass" /\ w # Idle  BY <2>2, IdleFacts DEF BeginAuto
      <3>2. PICK a \in w.left :
              tx' = [tx EXCEPT ![Worker] =
                IF app[a].status = "PENDING"
                THEN [op |-> "auto", stale |-> w.stale, app |-> a, left |-> w.left \ {a}]
                ELSE Rest(w.left \ {a}, w.stale)]
        BY <2>2 DEF BeginAuto
      <3> DEFINE Q == w.left \ {a}
      <3>3. w.stale \in BOOLEAN /\ a \in Filing /\ Q \in SUBSET Filing
        BY <3>1, WorkerView
      <3>4. ~w.stale => (\A b \in Q : app[b].status = "PENDING" => app[b].due)
                          /\ (app[a].status = "PENDING" => app[a].due)
        BY <3>1, WorkerView
      <3>5. CASE app[a].status = "PENDING"
        <4> DEFINE r == [op |-> "auto", stale |-> w.stale, app |-> a, left |-> Q]
        <4>1. tx' = [tx EXCEPT ![Worker] = r]  BY <3>2, <3>5
        <4>2. r \in AutoViews  BY <3>3 DEF AutoViews
        <4>3. ~w.stale => StillPasses(r) /\ StillAccepts(r)
          BY <3>4, <3>5 DEF StillPasses, StillAccepts
        <4>4. r.op = "auto" /\ r.stale = w.stale  OBVIOUS
        <4> HIDE DEF r
        <4> QED  BY <4>1, <4>2, <4>3, <4>4 DEF Views, Current
      <3>6. CASE app[a].status # "PENDING"
        <4>1. tx' = [tx EXCEPT ![Worker] = Rest(Q, w.stale)]  BY <3>2, <3>6
        <4>2. PICK b \in BOOLEAN : b = w.stale  BY <3>3
        <4>3. tx' = [tx EXCEPT ![Worker] = Rest(Q, b)]  BY <4>1, <4>2
        <4>4. PICK C \in SUBSET Filing : C = Q  BY <3>3
        <4>5. tx' = [tx EXCEPT ![Worker] = Rest(C, b)]  BY <4>3, <4>4
        <4>6. ~Rest(C, b).stale => ~b \/ Rest(C, b) = Idle  BY RestFacts
        <4>7. ~Rest(C, b).stale => Current(Rest(C, b))
          BY <3>4, <4>2, <4>4, <4>6, RestFacts, IdleFacts
        <4> QED  BY <4>5, <4>7, RestFacts
      <3> QED  BY <3>5, <3>6
    <2>3. CASE FailAuto
      <3>1. \/ tx' = [tx EXCEPT ![Worker] = Idle]
            \/ tx' = [tx EXCEPT ![Worker] = Rest(w.left, w.stale)]
        BY <2>3 DEF FailAuto
      <3>2. CASE tx' = [tx EXCEPT ![Worker] = Idle]  BY <3>2, IdleFacts
      <3>3. CASE tx' = [tx EXCEPT ![Worker] = Rest(w.left, w.stale)]
        <4>1. w # Idle  BY <2>3 DEF FailAuto
        <4>2. PICK b \in BOOLEAN : b = w.stale  BY WorkerView
        <4>3. PICK C \in SUBSET Filing : C = w.left  BY <4>1, WorkerView
        <4>4. tx' = [tx EXCEPT ![Worker] = Rest(C, b)]  BY <3>3, <4>2, <4>3
        <4>5. ~b => \A c \in C : app[c].status = "PENDING" => app[c].due
          BY <4>1, <4>2, <4>3, WorkerView
        <4>6. ~Rest(C, b).stale => ~b \/ Rest(C, b) = Idle  BY RestFacts
        <4>7. ~Rest(C, b).stale => Current(Rest(C, b))
          BY <4>5, <4>6, RestFacts, IdleFacts
        <4> QED  BY <4>4, <4>7, RestFacts
      <3> QED  BY <3>1, <3>2, <3>3
    <2> QED  BY <2>1, <2>2, <2>3
  <1>3. PICK r \in Views : /\ tx' = [tx EXCEPT ![Worker] = r] /\ (~r.stale => Current(r))
                           /\ r.op \in {"idle", "pass", "auto"}
    BY <1>2
  <1>4. Worker \in Client /\ tx \in [Client -> Views]
    BY WorkerView DEF NationsInv, Sessions
  <1>5. tx' \in [Client -> Views] /\ tx'[Worker].op \in {"idle", "pass", "auto"}
    BY <1>3, <1>4
  <1> QED  BY <1>1, <1>3, <1>4, <1>5, ReadStep

(* The worker accepts an application, or makes it a draft again, or leaves *)
(* it.                                                                     *)
LEMMA EndAutoStep ==
  ASSUME NationsInv, EndAuto
  PROVE  NationsInv' /\ Decided /\ OnTime
  <1> DEFINE w == tx[Worker]
  <1>1. PICK a \in Filing, b \in BOOLEAN : a = w.app /\ b = w.stale
    BY WorkerView DEF EndAuto
  <1>2. w.op = "auto" /\ w # Idle  BY IdleFacts DEF EndAuto
  <1>3. PICK C \in SUBSET Filing : C = w.left  BY <1>2, WorkerView
  <1>4. /\ Accept(a) \/ Refused(a)
        /\ Commit(Worker, Rest(C, b))
        /\ UNCHANGED <<filed, orders>>
    BY <1>1, <1>3 DEF EndAuto
  <1>5. ~b => /\ \A c \in C : app[c].status = "PENDING" => app[c].due
              /\ app[a].status = "PENDING" /\ app[a].due
    BY <1>1, <1>2, <1>3, WorkerView
  <1>6. /\ overtaken \subseteq overtaken' /\ overtaken' \subseteq Fragile
        /\ Worker # None /\ w.stale /\ w.op \in Fragile => w.op \in overtaken'
    BY <1>4, CommitFacts, RestFacts DEF NationsInv, Sessions
  <1>7. Unless({"auto"})' => ~b
    BY <1>1, <1>2, <1>6, Constants DEF Unless, Fragile, Client
  <1>8. /\ Sound' /\ Frozen /\ Numbered
        /\ ReserveHeld => ReserveHeld'
        /\ CapitalsHeld => CapitalsHeld'
        /\ Journalled => Journalled'
        /\ app[a].status = "PENDING" => DecisionStands
        /\ app'[a] = app[a] \/ app'[a].status # "PENDING"
        /\ \A c \in Filing : c # a => app'[c] = app[c]
    <2>1. CASE Accept(a)
      BY <1>4, <2>1, AcceptWrite DEF NationsInv, Orderly
    <2>2. CASE Refused(a) /\ Alone(a)
      <3>1. BackToDraft(a, "failed") /\ UNCHANGED worldVars  BY <2>2 DEF Refused
      <3>2. app[a] # NoApplication  BY <2>2, Statuses DEF Alone
      <3>3. /\ Sound' /\ Frozen /\ Numbered
            /\ ReserveHeld => ReserveHeld'
            /\ app[a].status = "PENDING" => DecisionStands
            /\ app'[a].status = "DRAFT"
            /\ \A c \in Filing : c # a => app'[c] = app[c]
        BY <1>4, <3>1, <3>2, BackWrite DEF NationsInv
      <3> QED  BY <3>1, <3>3, WorldStands
    <2>3. CASE Refused(a) /\ ~Alone(a)
      <3>1. UNCHANGED <<worldVars, app>>  BY <2>3 DEF Refused
      <3>2. UNCHANGED <<worldVars, appVars>>  BY <1>4, <3>1 DEF appVars
      <3>3. /\ Sound' /\ Orderly
            /\ ReserveHeld => ReserveHeld'
            /\ CapitalsHeld => CapitalsHeld'
            /\ Journalled => Journalled'
        BY <3>2, NothingWritten DEF NationsInv
      <3> QED  BY <3>1, <3>3 DEF Orderly
    <2> QED  BY <1>4, <2>1, <2>2, <2>3
  <1>9. ~b => \A c \in C : app'[c].status = "PENDING" => app'[c].due
    BY <1>5, <1>8
  <1>10. ~Rest(C, b).stale => Current(Rest(C, b))'
    <2>1. CASE Rest(C, b).op = "idle"
      <3>1. Rest(C, b) = Idle  BY <2>1, RestFacts
      <3> QED  BY <3>1 DEF Current, Idle
    <2>2. CASE Rest(C, b).op = "pass"
      <3>1. Rest(C, b).stale = b /\ Rest(C, b).left = C  BY <2>2, RestFacts
      <3> QED  BY <1>9, <2>2, <3>1 DEF Current, StillPasses
    <2> QED  BY <2>1, <2>2, RestFacts
  <1>11. Sessions'
    <2>1. Rest(C, b) \in Views /\ Rest(C, b).op \in {"idle", "pass", "auto"}
      BY RestFacts
    <2> QED  BY <1>4, <1>10, <2>1, SessionsCommit DEF NationsInv
  <1>12. Held'  BY <1>6, <1>8 DEF Held, NationsInv, Unless
  <1>13. Decided  BY <1>5, <1>7, <1>8 DEF Decided
  <1>14. OnTime
    <2> SUFFICES ASSUME Unless({"auto"})', NEW c \in Filing,
                        app[c].status = "PENDING", app'[c].status = "ACCEPTED"
                 PROVE  app[c].due
      BY DEF OnTime
    <2>1. ~b  BY <1>7
    <2>2. c = a  BY <1>8
    <2> QED  BY <1>5, <2>1, <2>2
  <1> QED  BY <1>4, <1>6, <1>8, <1>11, <1>12, <1>13, <1>14 DEF NationsInv

LEMMA InitHolds == Init => NationsInv
  <1> SUFFICES ASSUME Init PROVE NationsInv  OBVIOUS
  <1> USE DEF Init
  <1>1. Typed  BY Constants DEF Typed
  <1>2. With("PENDING") = {}  BY Statuses DEF With
  <1>3. RoomIsKept  BY <1>2, Constants, FS_EmptySet DEF RoomIsKept
  <1>4. Unfiled  BY DEF Unfiled
  <1>5. Nations = {}  BY DEF Nations
  <1>6. OneNationEach /\ CapitalsHeld  BY <1>5 DEF OneNationEach, CapitalsHeld
  <1>7. ReservedIsFree  BY Statuses DEF ReservedIsFree
  <1>8. ReserveHeld /\ Journalled  BY <1>2 DEF ReserveHeld, Journalled
  <1>9. Sessions  BY IdleFacts DEF Sessions, Client
  <1>10. overtaken \subseteq Fragile /\ orders \in 0..MaxOrders  BY Constants
  <1> QED  BY <1>1, <1>3, <1>4, <1>6, <1>7, <1>8, <1>9, <1>10
           DEF NationsInv, Sound, Held

LEMMA NationsStep ==
  ASSUME NationsInv, [Next]_vars
  PROVE  NationsInv' /\ Decided /\ (Next => OnTime)
  <1>1. CASE Next
    <2>1. ASSUME NEW s \in Session, NEW r \in Reads, Begin(s, r)
          PROVE  NationsInv' /\ Decided /\ OnTime
      <3>1. PICK v \in Views : v = r /\ ~v.stale /\ Current(v)
        BY ReadsAreCurrent DEF NationsInv
      <3>2. /\ tx' = [tx EXCEPT ![s] = v]
            /\ UNCHANGED <<worldVars, appVars, overtaken>> /\ orders' = orders
        BY <2>1, <3>1 DEF Begin
      <3>3. s \in Client /\ s # Worker /\ tx \in [Client -> Views]
        BY NationsAssumption DEF Client, NationsInv, Sessions
      <3>4. tx' \in [Client -> Views] /\ tx'[Worker] = tx[Worker]
        BY <3>2, <3>3
      <3> QED  BY <3>1, <3>2, <3>3, <3>4, ReadStep DEF NationsInv, Sessions
    <2>2. ASSUME NEW s \in Session, Apply(tx[s]), Commit(s, Idle)
          PROVE  NationsInv' /\ Decided /\ OnTime
      <3>1. s \in Client /\ s # None  BY Constants DEF Client
      <3>2. PICK v \in Views : v = tx[s]  BY <3>1 DEF NationsInv, Sessions
      <3>3. Apply(v)  BY <2>2, <3>2
      <3> QED  BY <2>2, <3>1, <3>2, <3>3, RequestStep
    <2>3. ASSUME NEW s \in Session, Abort(s)
          PROVE  NationsInv' /\ Decided /\ OnTime
      <3>1. /\ tx' = [tx EXCEPT ![s] = Idle]
            /\ UNCHANGED <<worldVars, appVars, overtaken>> /\ orders' = orders
        BY <2>3 DEF Abort
      <3>2. s \in Client /\ s # Worker /\ tx \in [Client -> Views]
        BY NationsAssumption DEF Client, NationsInv, Sessions
      <3>3. tx' \in [Client -> Views] /\ tx'[Worker] = tx[Worker]
        BY <3>1, <3>2, IdleFacts
      <3> QED  BY <3>1, <3>2, <3>3, ReadStep, IdleFacts DEF NationsInv, Sessions
    <2>4. ASSUME NEW r \in Reads, Apply(r), Commit(None, Idle)
          PROVE  NationsInv' /\ Decided /\ OnTime
      <3>1. PICK v \in Views : v = r /\ Current(v)
        BY ReadsAreCurrent DEF NationsInv
      <3>2. Apply(v)  BY <2>4, <3>1
      <3> QED  BY <2>4, <3>1, <3>2, RequestStep
    <2>5. ASSUME NEW p \in Player, Cancel(p)
          PROVE  NationsInv' /\ Decided /\ OnTime
      <3>1. PICK a \in Live(p) \cap With("PENDING") : BackToDraft(a, "cancelled")
        BY <2>5 DEF Cancel
      <3>2. /\ Commit(None, Idle) /\ UNCHANGED worldVars
            /\ filed' = filed /\ orders' = orders
        BY <2>5 DEF Cancel
      <3>3. a \in Filing /\ app[a].status = "PENDING" /\ app[a] # NoApplication
        BY Statuses DEF With
      <3>4. /\ Sound' /\ Frozen /\ Numbered
            /\ ReserveHeld => ReserveHeld'
            /\ app[a].status = "PENDING" => DecisionStands
        BY <3>1, <3>2, <3>3, BackWrite DEF NationsInv
      <3> QED  BY <3>2, <3>3, <3>4, WorldStands, AtOnceStep DEF Orderly, NationsInv
    <2>6. ASSUME NEW p \in Player, Create(p)
          PROVE  NationsInv' /\ Decided /\ OnTime
      <3>1. Commit(None, Idle) /\ orders' = orders  BY <2>6 DEF Create
      <3> QED  BY <2>6, <3>1, CreateWrite, AtOnceStep DEF NationsInv
    <2>7. ASSUME NEW a \in Filing, Expire(a)
          PROVE  NationsInv' /\ Decided /\ OnTime
      <3>1. /\ Sound' /\ Orderly
            /\ UNCHANGED worldVars
            /\ ReserveHeld => ReserveHeld'
            /\ \A b \in Filing : /\ app'[b].status = app[b].status
                                 /\ app'[b].number = app[b].number
                                 /\ app[b].due => app'[b].due
        BY <2>7, ExpireWrite DEF NationsInv
      <3>2. UNCHANGED <<tx, overtaken, orders>>  BY <2>7 DEF Expire
      <3>3. ASSUME NEW t \in Client, ~tx'[t].stale PROVE Current(tx[t])'
        <4>1. PICK w \in Views : w = tx[t]  BY DEF NationsInv, Sessions
        <4>2. Current(w)  BY <3>2, <3>3, <4>1 DEF NationsInv, Sessions
        <4>3. Current(w)'  BY <3>1, <4>2, StaysCurrent DEF worldVars
        <4> QED  BY <3>2, <4>1, <4>3 DEF Current, StillSaves, StillSubmits,
                 StillTransfers, StillDeletes, StillEvicts, StillPasses, StillAccepts
      <3>4. Sessions'  BY <3>2, <3>3 DEF Sessions, NationsInv
      <3>5. Held'  BY <3>1, <3>2, WorldStands DEF Held, NationsInv, Unless
      <3>6. Decided /\ OnTime  BY <3>1, <3>2 DEF Decided, Orderly, OnTime
      <3> QED  BY <3>1, <3>2, <3>4, <3>5, <3>6 DEF NationsInv
    <2>8. ASSUME NEW n \in Nations, NEW x \in Name, Rename(n, x)
          PROVE  NationsInv' /\ Decided /\ OnTime
      <3>1. Commit(None, Idle) /\ orders' \in 0..MaxOrders
        BY <2>8, Constants DEF Rename, Act, NationsInv
      <3> QED  BY <2>8, <3>1, RenameWrite, AtOnceStep DEF NationsInv
    <2>9. ASSUME Reset PROVE NationsInv' /\ Decided /\ OnTime
      <3>1. Commit(None, Idle) /\ orders' \in 0..MaxOrders
        BY <2>9, Constants DEF Reset, Act, NationsInv
      <3> QED  BY <2>9, <3>1, ResetWrite, AtOnceStep DEF NationsInv
    <2>10. ASSUME Pass \/ FailAuto PROVE NationsInv' /\ Decided /\ OnTime
      BY <2>10, WorkerReads, EndAutoStep DEF Pass
    <2> QED  BY <1>1, <2>1, <2>2, <2>3, <2>4, <2>5, <2>6, <2>7, <2>8, <2>9, <2>10
             DEF Next, Request, QuickRequest, AtOnce
  <1>2. CASE UNCHANGED vars
    <2>1. /\ UNCHANGED <<worldVars, appVars>> /\ UNCHANGED <<tx, overtaken, orders>>
      BY <1>2 DEF vars
    <2>2. /\ Sound' /\ Orderly
          /\ ReserveHeld => ReserveHeld'
          /\ CapitalsHeld => CapitalsHeld'
          /\ Journalled => Journalled'
      BY <2>1, NothingWritten DEF NationsInv
    <2>3. ASSUME NEW t \in Client, ~tx'[t].stale PROVE Current(tx[t])'
      <3>1. PICK w \in Views : w = tx[t]  BY DEF NationsInv, Sessions
      <3>2. Current(w)  BY <2>1, <2>3, <3>1 DEF NationsInv, Sessions
      <3>3. Current(w)'  BY <2>1, <3>2, StaysCurrent DEF worldVars, appVars
      <3> QED  BY <2>1, <3>1, <3>3 DEF Current, StillSaves, StillSubmits,
               StillTransfers, StillDeletes, StillEvicts, StillPasses, StillAccepts
    <2>4. Sessions'  BY <2>1, <2>3 DEF Sessions, NationsInv
    <2>5. Held'  BY <2>1, <2>2 DEF Held, NationsInv, Unless
    <2>6. Decided  BY <2>1, <2>2 DEF Decided, Orderly
    <2>7. \A a \in Filing : ~(app[a].status = "PENDING" /\ app'[a].status = "ACCEPTED")
      BY <2>1 DEF appVars
    <2>8. OnTime  BY <2>7 DEF OnTime
    <2> QED  BY <2>1, <2>2, <2>4, <2>5, <2>6, <2>8 DEF NationsInv
  <1> QED  BY <1>1, <1>2

(***************************************************************************)
(* The theorems.                                                           *)
(***************************************************************************)

(* A request that has not been overtaken acts on what is still so.         *)
THEOREM NationsInvariant == Spec => []NationsInv
  <1>1. NationsInv /\ [Next]_vars => NationsInv'  BY NationsStep
  <1> QED  BY InitHolds, <1>1, PTL DEF Spec

(* Nations, provinces, applications and the journal keep their types.      *)
THEOREM NationsTypeCorrect == Spec => []TypeOK
  <1>1. NationsInv => TypeOK
    <2> SUFFICES ASSUME NationsInv PROVE TypeOK  OBVIOUS
    <2>1. DOMAIN tx = Client  BY DEF NationsInv, Sessions
    <2>2. \A s \in Client : tx[s].op \in Ops \cup {"idle"} /\ tx[s].stale \in BOOLEAN
      BY ViewKinds DEF NationsInv, Sessions
    <2> QED  BY <2>1, <2>2 DEF TypeOK, NationsInv, Sound, Typed
  <1> QED  BY NationsInvariant, <1>1, PTL

(* APP-1: whoever interferes, a province under reserve is free and in one  *)
(* reserve only; and what is pending has its reserve, unless a save wrote  *)
(* over a submission it did not see.                                       *)
THEOREM ReserveKept == Spec => []ReserveIsKept
  <1>1. NationsInv => ReserveIsKept
    BY DEF NationsInv, Sound, Held, ReserveIsKept, PendingIsReserved, ReserveHeld
  <1> QED  BY NationsInvariant, <1>1, PTL

(* INV-14 and INV-M7: a nation owns its capital and replaying the journal  *)
(* gives the map, unless a transfer or a deletion acted on what had        *)
(* changed.                                                                *)
THEOREM ProvincesAccounted == Spec => []ProvincesAreAccounted
  <1>1. NationsInv => ProvincesAreAccounted
    BY DEF NationsInv, Held, ProvincesAreAccounted, NationKeepsCapital, CapitalsHeld,
           OwnershipIsJournalled, Journalled
  <1> QED  BY NationsInvariant, <1>1, PTL

(* APP-3: what is decided is what was submitted, it is decided once, the   *)
(* worker accepts only what is overdue, and every submission has a number  *)
(* of its own - each unless a request acted on what had changed.           *)
THEOREM DecisionsSound == Spec => DecisionsAreSound
  <1>1. NationsInv /\ [Next]_vars => Decided /\ (Next => OnTime)  BY NationsStep
  <1>2. Decided => [Unless({"save"})' =>
       \A a \in Filing :
         app[a].status = "PENDING" /\ app'[a].status = "PENDING" =>
           app'[a].picks = app[a].picks /\ app'[a].name = app[a].name]_vars
    BY DEF Decided, Frozen
  <1>3. Decided => [Unless({"auto"})' => DecisionStands]_vars  BY DEF Decided
  <1>4. Decided => [Unless({"submit"})' =>
       \A a \in Filing :
         app[a].status = "DRAFT" /\ app'[a].status = "PENDING"
           => app'[a].number > app[a].number]_vars
    BY DEF Decided, Numbered
  <1>5. [Next]_vars /\ (Next => OnTime) =>
     [Unless({"auto"})' /\ tx[Worker].op = "auto" /\ tx'[Worker].op # "auto" =>
         \A a \in Filing :
           app[a].status = "PENDING" /\ app'[a].status = "ACCEPTED" => app[a].due]_vars
    BY DEF OnTime
  <1>6. Spec => PendingIsFrozen
    BY NationsInvariant, <1>1, <1>2, PTL DEF Spec, PendingIsFrozen
  <1>7. Spec => FirstOtherDecisionWins
    BY NationsInvariant, <1>1, <1>3, PTL DEF Spec, FirstOtherDecisionWins
  <1>8. Spec => SubmissionsAreNumbered
    BY NationsInvariant, <1>1, <1>4, PTL DEF Spec, SubmissionsAreNumbered
  <1>9. Spec => AutoAcceptsOverdue
    BY NationsInvariant, <1>1, <1>5, PTL DEF Spec, AutoAcceptsOverdue
  <1> QED  BY <1>6, <1>7, <1>8, <1>9 DEF DecisionsAreSound
=============================================================================
