-------------------------- MODULE Services_proofs --------------------------
(***************************************************************************)
(* Proofs about the services beside the game: the token bucket, the digest *)
(* watcher, the consents and the worker of the VK profiles.  They share no *)
(* state, so each part is proved on its own, and the promises of the whole *)
(* follow: a step of it is a step of one of them.                          *)
(***************************************************************************)
EXTENDS Services, FiniteSetTheorems, SequenceTheorems, TLAPS

-----------------------------------------------------------------------------
(***************************************************************************)
(* Limiter.  The token bucket keeps its rate for every size of the bucket, *)
(* whoever calls, whoever is cancelled, and however late a sleeper wakes.  *)
(***************************************************************************)

(* What the argument knows of the bucket.  RateIsKept alone is not         *)
(* inductive: a call spends what Refilled finds, so it is what is still    *)
(* under way and what could be spent at once that together fit the bucket. *)
Bucket ==
  /\ tokens \in 0..Rate
  /\ since \in Nat
  /\ load \in Nat
  /\ load + Limits!Refilled <= Rate

LEMMA BucketAtFirst ==
  ASSUME Rate \in Nat, Limits!Init
  PROVE  Bucket
<1>1. tokens = Rate /\ since = 0 /\ load = 0
  BY DEF Limits!Init
<1>2. Limits!Refilled = Rate
  BY <1>1 DEF Limits!Refilled, Limits!Least
<1> QED
  BY <1>1, <1>2 DEF Bucket

(* What can be spent lies between nothing and a full bucket.               *)
LEMMA RefilledFits ==
  ASSUME Rate \in Nat, Bucket
  PROVE  Limits!Refilled \in 0..Rate
BY DEF Bucket, Limits!Refilled, Limits!Least

(* A token spent moves from the bucket to the load; a look at a dry bucket *)
(* keeps what came back and restarts the clock.                            *)
LEMMA RoundKeepsBucket ==
  ASSUME Rate \in Nat, Bucket, Limits!Round
  PROVE  Bucket'
<1>1. since' = 0 /\ Limits!Refilled \in 0..Rate /\ load \in Nat /\ load + Limits!Refilled <= Rate
  BY RefilledFits DEF Limits!Round, Bucket
<1>2. CASE Limits!Refilled >= 1 /\ tokens' = Limits!Refilled - 1 /\ load' = load + 1
  <2>1. tokens' \in 0..Rate /\ Limits!Refilled' = tokens'
    BY <1>1, <1>2 DEF Limits!Refilled, Limits!Least
  <2> QED
    BY <1>1, <1>2, <2>1 DEF Bucket
<1>3. CASE Limits!Refilled < 1 /\ tokens' = Limits!Refilled /\ UNCHANGED load
  <2>1. tokens' \in 0..Rate /\ Limits!Refilled' = tokens'
    BY <1>1, <1>3 DEF Limits!Refilled, Limits!Least
  <2> QED
    BY <1>1, <1>3, <2>1 DEF Bucket
<1> QED
  BY <1>2, <1>3 DEF Limits!Round

(* In one unit of time a bucket gets no more than one token, and stays     *)
(* within its size.                                                        *)
LEMMA OneComesBack ==
  ASSUME NEW r \in Nat, NEW t \in Nat, NEW s \in Nat, NEW u \in Nat, u <= s + 1
  PROVE  /\ Limits!Least(r, t + u) \in Nat
         /\ Limits!Least(r, t + u) <= r
         /\ Limits!Least(r, t + u) <= Limits!Least(r, t + s) + 1
BY DEF Limits!Least

(* A call that is over makes room for the token that came back.            *)
LEMMA OneCallIsOver ==
  ASSUME NEW r \in Nat, NEW n \in Nat, NEW f \in Nat, NEW g \in Nat,
         n + f <= r, g <= r, g <= f + 1
  PROVE  Limits!Before(n) \in Nat /\ Limits!Before(n) + g <= r
BY DEF Limits!Before

(* While time passes at most one token comes back and one call is over; an *)
(* idle bucket fills up to its size and no further.                        *)
LEMMA TickKeepsBucket ==
  ASSUME Rate \in Nat, Bucket, Limits!Tick
  PROVE  Bucket'
<1>1. /\ tokens \in 0..Rate /\ since \in Nat /\ load \in Nat
      /\ load + Limits!Refilled <= Rate
  BY DEF Bucket
<1>2. tokens' = tokens /\ since' = Limits!Least(Rate, since + 1)
  BY DEF Limits!Tick
<1>3. since' \in Nat /\ since' <= since + 1
  BY <1>1, <1>2 DEF Limits!Least
<1>4. Limits!Refilled \in Nat /\ Limits!Refilled = Limits!Least(Rate, tokens + since)
  BY RefilledFits DEF Limits!Refilled
<1>5. Limits!Refilled' = Limits!Least(Rate, tokens + since')
  BY <1>2 DEF Limits!Refilled
<1>6. Limits!Refilled' \in Nat /\ Limits!Refilled' <= Rate /\ Limits!Refilled' <= Limits!Refilled + 1
  <2>1. tokens \in Nat /\ since \in Nat /\ since' \in Nat /\ Rate \in Nat
    BY <1>1, <1>3
  <2>2. /\ Limits!Least(Rate, tokens + since') \in Nat
        /\ Limits!Least(Rate, tokens + since') <= Rate
        /\ Limits!Least(Rate, tokens + since') <= Limits!Least(Rate, tokens + since) + 1
    BY ONLY <2>1, <1>3, OneComesBack
  <2> QED
    BY ONLY <1>4, <1>5, <2>2
<1>7. load' \in Nat /\ load' + Limits!Refilled' <= Rate
  <2>1. load \in Nat /\ load + Limits!Refilled <= Rate
    BY <1>1
  <2>2. load' = Limits!Before(load)
    BY DEF Limits!Tick
  <2> QED
    BY ONLY Rate \in Nat, <1>4, <1>6, <2>1, <2>2, OneCallIsOver
<1> QED
  BY <1>1, <1>2, <1>3, <1>7 DEF Bucket

LEMMA NextKeepsBucket ==
  ASSUME Rate \in Nat, Bucket, [Limits!Next]_(Limits!vars)
  PROVE  Bucket'
<1>1. ASSUME NEW c \in Coroutine, Limits!Call(c)
      PROVE  Bucket'
  BY <1>1 DEF Limits!Call, Bucket, Limits!Refilled
<1>2. ASSUME NEW c \in Coroutine, Limits!Cancel(c)
      PROVE  Bucket'
  BY <1>2 DEF Limits!Cancel, Bucket, Limits!Refilled
<1>3. CASE Limits!Lock
  BY <1>3 DEF Limits!Lock, Bucket, Limits!Refilled
<1>4. CASE Limits!Round
  BY <1>4, RoundKeepsBucket
<1>5. CASE Limits!Tick
  BY <1>5, TickKeepsBucket
<1>6. CASE UNCHANGED Limits!vars
  BY <1>6 DEF Limits!vars, Bucket, Limits!Refilled
<1> QED
  BY <1>1, <1>2, <1>3, <1>4, <1>5, <1>6 DEF Limits!Next

(* The bucket never lets more calls through than it holds and than came    *)
(* back meanwhile (AsyncLimiter.acquire), for every max_requests_per_      *)
(* second: the bucket invariant carries the argument.                      *)
THEOREM RateKept ==
  ASSUME Rate \in Nat
  PROVE  Limits!Spec => []Limits!RateIsKept
<1>1. Limits!Init => Bucket
  BY BucketAtFirst
<1>2. Bucket /\ [Limits!Next]_(Limits!vars) => Bucket'
  BY NextKeepsBucket
<1>3. Bucket => Limits!RateIsKept
  BY RefilledFits DEF Bucket, Limits!RateIsKept
<1> QED
  BY <1>1, <1>2, <1>3, PTL DEF Limits!Spec

-----------------------------------------------------------------------------
(***************************************************************************)
(* Digest: what is queued is never newer than the marker, and a pass holds *)
(* a turn of this world unless a reset has come after its look.            *)
(***************************************************************************)
Turns == Nat \ {0}

DigestTypes ==
  /\ current \in Turns /\ played \subseteq Turns /\ lastDigest \in Turns /\ passes \in Nat
  /\ audience \subseteq Reader
  /\ queue \subseteq [turn : Turns, to : Reader, by : Nat]
  /\ snapshot \in [Watcher -> Nat]
  /\ crossed \in BOOLEAN

TurnIsPlayed == current = 1 \/ current \in played
SnapshotIsPlayed ==
  \A w \in Watcher : snapshot[w] = 0 \/ w \in stale \/ snapshot[w] \in played
QueueIsClaimed == \A d \in queue : d.turn <= lastDigest

DigestInv ==
  /\ DigestTypes /\ TurnIsPlayed /\ SnapshotIsPlayed /\ QueueIsClaimed
  /\ Digests!OnePassPerTurn /\ Digests!DigestsAreOfThisWorld

LEMMA DigestInit == Digests!Init => DigestInv
  <1> SUFFICES ASSUME Digests!Init PROVE DigestInv  OBVIOUS
  <1>1. current = 1 /\ played = {} /\ lastDigest = 1 /\ passes = 0
    BY DEF Digests!Init, Digests!Ledger!Init
  <1>2. queue = {} /\ audience \subseteq Reader /\ snapshot = [w \in Watcher |-> 0]
    BY DEF Digests!Init
  <1>3. crossed \in BOOLEAN  BY DEF Digests!Init
  <1>4. DigestTypes  BY <1>1, <1>2, <1>3 DEF DigestTypes, Turns
  <1>5. TurnIsPlayed /\ SnapshotIsPlayed /\ QueueIsClaimed
    BY <1>1, <1>2 DEF TurnIsPlayed, SnapshotIsPlayed, QueueIsClaimed
  <1>6. Digests!OnePassPerTurn  BY <1>2 DEF Digests!OnePassPerTurn
  <1>7. Digests!DigestsAreOfThisWorld  BY <1>1, <1>2 DEF Digests!DigestsAreOfThisWorld
  <1> QED  BY <1>4, <1>5, <1>6, <1>7 DEF DigestInv

(* A claim queues rows that are newer than all there are, all by one pass. *)
LEMMA ClaimQueues ==
  ASSUME DigestInv, NEW w \in Watcher, snapshot[w] # 0, Digests!Claims(snapshot[w]),
         Digests!Enqueue(snapshot[w])
  PROVE  /\ queue' \subseteq [turn : Turns, to : Reader, by : Nat]
         /\ \A d \in queue' : d \in queue \/ (d.turn = snapshot[w] /\ d.by = passes + 1)
         /\ \A d \in queue : d.turn < snapshot[w]
  <1> DEFINE t == snapshot[w]
             new == {p \in audience : \A d \in queue : d.turn # t \/ d.to # p}
             rows == [turn : {t}, to : new, by : {passes + 1}]
  <1>1. t \in Turns /\ lastDigest < t /\ lastDigest \in Turns /\ passes \in Nat
    BY DEF DigestInv, DigestTypes, Digests!Claims, Turns
  <1>2. queue' = queue \cup rows  BY DEF Digests!Enqueue
  <1>3. new \subseteq Reader  BY DEF DigestInv, DigestTypes
  <1>4. rows \subseteq [turn : Turns, to : Reader, by : Nat]  BY <1>1, <1>3
  <1>5. \A d \in rows : d.turn = t /\ d.by = passes + 1  OBVIOUS
  <1>6. \A d \in queue : d.turn < t
    BY <1>1 DEF DigestInv, QueueIsClaimed, DigestTypes, Turns
  <1>7. queue \subseteq [turn : Turns, to : Reader, by : Nat]
    BY DEF DigestInv, DigestTypes
  <1> HIDE DEF rows, new
  <1> QED  BY <1>2, <1>4, <1>5, <1>6, <1>7

LEMMA DigestStep == DigestInv /\ [Digests!Next]_(Digests!vars) => DigestInv'
  <1> SUFFICES ASSUME DigestInv, [Digests!Next]_(Digests!vars) PROVE DigestInv'
    OBVIOUS
  <1> USE DEF DigestInv, DigestTypes, Turns, TurnIsPlayed, SnapshotIsPlayed, QueueIsClaimed,
              Digests!OnePassPerTurn, Digests!DigestsAreOfThisWorld
  <1>1. CASE Digests!Tick
    <2>1. current' = current + 1 /\ played' = played \cup {current + 1}
      BY <1>1 DEF Digests!Tick, Digests!Ledger!PlayTurn
    <2>2. UNCHANGED <<lastDigest, audience, queue, snapshot, stale, crossed, passes>>
      BY <1>1 DEF Digests!Tick
    <2>3. DigestTypes' /\ TurnIsPlayed' /\ SnapshotIsPlayed'  BY <2>1, <2>2
    <2>4. QueueIsClaimed' /\ Digests!OnePassPerTurn'  BY <2>2
    <2>5. Digests!DigestsAreOfThisWorld'  BY <2>1, <2>2
    <2> QED  BY <2>3, <2>4, <2>5
  <1>2. CASE Digests!ResetWorld
    <2>1. /\ current' = 1 /\ played' = {} /\ audience' = {} /\ queue' = {}
          /\ lastDigest' = 1 /\ crossed' = FALSE /\ UNCHANGED <<snapshot, passes>>
          /\ stale' = {w \in Watcher : snapshot[w] # 0}
      BY <1>2 DEF Digests!ResetWorld, Digests!ResetBot
    <2>2. current' \in Turns /\ lastDigest' \in Turns  BY <2>1
    <2>3. DigestTypes'  BY <2>1, <2>2
    <2>4. TurnIsPlayed' /\ SnapshotIsPlayed' /\ QueueIsClaimed'  BY <2>1
    <2>5. Digests!OnePassPerTurn' /\ Digests!DigestsAreOfThisWorld'  BY <2>1
    <2> QED  BY <2>3, <2>4, <2>5
  <1>3. ASSUME NEW p \in Reader, Digests!Mood(p) PROVE DigestInv'
    BY <1>3 DEF Digests!Mood, Digests!clock
  <1>4. ASSUME NEW w \in Watcher, Digests!BeginPass(w) PROVE DigestInv'
    BY <1>4 DEF Digests!BeginPass, Digests!clock
  <1>5. ASSUME NEW w \in Watcher, Digests!EndPass(w) PROVE DigestInv'
    <2>1. CASE Digests!Claims(snapshot[w]) /\ Digests!Enqueue(snapshot[w])
               /\ lastDigest' = snapshot[w]
      <3>1. /\ snapshot[w] # 0 /\ snapshot[w] \in Nat
            /\ passes' = passes + 1 /\ crossed' = (crossed \/ w \in stale)
            /\ snapshot' = [snapshot EXCEPT ![w] = 0] /\ stale' = stale \ {w}
            /\ UNCHANGED <<current, played, audience>>
        BY <1>5, <2>1 DEF Digests!EndPass, Digests!Claims, Digests!clock
      <3>2. /\ queue' \subseteq [turn : Turns, to : Reader, by : Nat]
            /\ \A d \in queue' : d \in queue \/ (d.turn = snapshot[w] /\ d.by = passes + 1)
            /\ \A d \in queue : d.turn < snapshot[w]
        BY <2>1, <3>1, ClaimQueues
      <3>3. DigestTypes' /\ TurnIsPlayed' /\ SnapshotIsPlayed'  BY <2>1, <3>1, <3>2
      <3>4. QueueIsClaimed'  BY <2>1, <3>1, <3>2
      <3>5. Digests!OnePassPerTurn'  BY <3>1, <3>2
      <3>6. Digests!DigestsAreOfThisWorld'  BY <2>1, <3>1, <3>2
      <3> QED  BY <3>3, <3>4, <3>5, <3>6
    <2>2. CASE UNCHANGED <<lastDigest, queue, passes, crossed>>
      BY <1>5, <2>2 DEF Digests!EndPass, Digests!clock
    <2> QED  BY <1>5, <2>1, <2>2 DEF Digests!EndPass
  <1>6. ASSUME NEW w \in Watcher, Digests!FailPass(w) PROVE DigestInv'
    BY <1>6 DEF Digests!FailPass, Digests!clock
  <1>7. CASE UNCHANGED Digests!vars  BY <1>7 DEF Digests!vars, Digests!clock
  <1> QED
    BY <1>1, <1>2, <1>3, <1>4, <1>5, <1>6, <1>7 DEF Digests!Next, Digests!Watch

(* The invariant of the watcher (digest_watcher_step): the turn a pass has *)
(* read was played, and what is queued was claimed by then, by one pass.   *)
THEOREM DigestInvariant == Digests!Spec => []DigestInv
  BY DigestInit, DigestStep, PTL DEF Digests!Spec

(* Every digest is of a turn this world has played, and the digests of a   *)
(* turn are queued by one pass, for any number of overlapping watchers:    *)
(* the claim's compare-and-swap is enough.                                 *)
THEOREM DigestsAreSound ==
  Digests!Spec => [](Digests!DigestsAreOfThisWorld /\ Digests!OnePassPerTurn)
  <1>1. DigestInv => Digests!DigestsAreOfThisWorld /\ Digests!OnePassPerTurn
    BY DEF DigestInv
  <1> QED  BY <1>1, DigestInvariant, PTL

(* Missed turns are never told later.                                      *)
THEOREM DigestsMoveOn == Digests!Spec => Digests!NoBackfill
  <1>1. DigestInv /\ [Digests!Next]_(Digests!vars) =>
          [\A d \in queue' \ queue : \A e \in queue : e.turn < d.turn]_(Digests!vars)
    <2> SUFFICES ASSUME DigestInv, Digests!Next, NEW d \in queue', d \notin queue,
                        NEW e \in queue
                 PROVE  e.turn < d.turn
      BY DEF Digests!vars, Digests!clock
    <2>1. PICK w \in Watcher : Digests!EndPass(w)
      BY DEF Digests!Next, Digests!Watch, Digests!Tick, Digests!ResetWorld, Digests!ResetBot,
             Digests!Mood, Digests!BeginPass, Digests!FailPass
    <2>2. snapshot[w] # 0 /\ Digests!Claims(snapshot[w]) /\ Digests!Enqueue(snapshot[w])
      BY <2>1 DEF Digests!EndPass
    <2> QED  BY <2>2, ClaimQueues
  <1> QED  BY <1>1, DigestInvariant, PTL DEF Digests!Spec, Digests!NoBackfill

(* The promise as a whole: the digests of a turn are queued once, by one   *)
(* pass, in the order of turns, whatever watchers and resets overlap.      *)
THEOREM TurnsOnce == Digests!Spec => Digests!TurnsAreOnce
  BY DigestsAreSound, DigestsMoveOn, PTL DEF Digests!TurnsAreOnce

-----------------------------------------------------------------------------
(***************************************************************************)
(* Consent.  What a session or the reconciler has read and heard is still  *)
(* so, unless it is marked as moved; the newest signal of a player says    *)
(* what the player wants, and has been handled or is still on its way.     *)
(***************************************************************************)
States == {"none", "UNKNOWN", "ALLOWED", "DENIED"}
Replied == {"ALLOWED", "DENIED"}

(* What a session has read: for a check or a send, or for a message.       *)
Asking  == [op : {"idle", "sync", "register", "send"}, who : Player \cup {0},
            seen : States, said : Replied \cup {"?"}, moved : BOOLEAN]
Reading == [op : {"message"}, who : Player, seen : States, said : {"?"}, moved : BOOLEAN,
            event : Consents!Event, first : BOOLEAN]

ConsentTypes ==
  /\ agreed \in [Player -> BOOLEAN] /\ made \in Nat
  /\ wire \subseteq Consents!Event /\ journal \subseteq Consents!Event
  /\ consent \in [Player -> States]
  /\ waiting \in [Player -> BOOLEAN] /\ cooled \in [Player -> BOOLEAN]
  /\ work \in [Session -> Asking \cup Reading]
  /\ sweep \in [list : SUBSET Player, said : SUBSET (Player \X Replied), moved : BOOLEAN]

Works(s, p) == work[s].op # "idle" /\ work[s].who = p

(* An idle session is nobody's, and a send is to a player who allows it.   *)
IdleIsNobodys ==
  \A s \in Session :
    /\ IF work[s].op = "idle" THEN work[s].who = 0 ELSE work[s].who \in Player
    /\ work[s].op = "send" => work[s].seen = "ALLOWED"

(* A session that has not found a consent row is alone, and there is none. *)
InsertsAlone ==
  \A s \in Session, p \in Player : Works(s, p) =>
    /\ work[s].seen = "none" <=> consent[p] = "none"
    /\ work[s].seen = "none" => \A t \in Session : Works(t, p) => t = s

(* What a check has read and heard stands, or the check is marked.         *)
ChecksStand ==
  \A s \in Session : work[s].op \in {"sync", "register", "send"} /\ ~work[s].moved =>
    /\ work[s].op # "send" => work[s].seen = consent[work[s].who]
    /\ work[s].said # "?" => work[s].said = Consents!State(work[s].who)

SweepStands == ~sweep.moved => \A a \in sweep.said : a[2] = Consents!State(a[1])

CheckInv ==
  /\ ConsentTypes /\ IdleIsNobodys /\ InsertsAlone /\ ChecksStand /\ SweepStands
  /\ Consents!NothingForTheRefusing

(* The constants: zero is no player and no session.                        *)
Named == 0 \notin Player /\ 0 \notin Session /\ MaxEvents \in Nat /\ MaxFaults \in Nat

(* A session with another mark has all else as before.                     *)
Same(w, v)  == v.op = w.op /\ v.who = w.who /\ v.seen = w.seen /\ v.said = w.said
Keeps(w, v) == w.op = "message" => v.event = w.event /\ v.first = w.first
Marked(w, v) == Same(w, v) /\ Keeps(w, v)

LEMMA MarkIsAll ==
  ASSUME NEW w \in Asking \cup Reading, NEW b \in BOOLEAN
  PROVE  LET v == [w EXCEPT !.moved = b]
         IN v \in Asking \cup Reading /\ Marked(w, v) /\ v.moved = b
  <1>1. CASE w \in Asking  BY <1>1 DEF Asking, Marked, Same, Keeps
  <1>2. CASE w \in Reading  BY <1>2 DEF Reading, Marked, Same, Keeps
  <1> QED  BY <1>1, <1>2

LEMMA OutdateMarks ==
  ASSUME ConsentTypes, NEW p \in Player, Consents!Outdate(p)
  PROVE  /\ work' \in [Session -> Asking \cup Reading]
         /\ \A s \in Session : /\ Marked(work[s], work'[s])
                              /\ work'[s].moved = (work[s].moved \/ (work[s].who = p /\ work[s].said # "?"))
         /\ sweep' \in [list : SUBSET Player, said : SUBSET (Player \X Replied), moved : BOOLEAN]
         /\ sweep'.list = sweep.list /\ sweep'.said = sweep.said
         /\ sweep'.moved <=> sweep.moved \/ \E a \in sweep.said : a[1] = p
  <1> DEFINE b(s) == work[s].moved \/ (work[s].who = p /\ work[s].said # "?")
  <1>1. \A s \in Session : b(s) \in BOOLEAN /\ work[s] \in Asking \cup Reading
    BY DEF ConsentTypes, Asking, Reading
  <1>2. work' = [s \in Session |-> [work[s] EXCEPT !.moved = b(s)]]
    BY DEF Consents!Outdate
  <1>3. \A s \in Session : /\ work'[s] \in Asking \cup Reading
                          /\ Marked(work[s], work'[s]) /\ work'[s].moved = b(s)
    <2> HIDE DEF b
    <2> QED  BY <1>1, <1>2, MarkIsAll
  <1>4. work' \in [Session -> Asking \cup Reading]  BY <1>2, <1>3
  <1>5. /\ sweep' \in [list : SUBSET Player, said : SUBSET (Player \X Replied), moved : BOOLEAN]
        /\ sweep'.list = sweep.list /\ sweep'.said = sweep.said
        /\ sweep'.moved <=> sweep.moved \/ \E a \in sweep.said : a[1] = p
    BY DEF ConsentTypes, Consents!Outdate
  <1> QED  BY <1>3, <1>4, <1>5

LEMMA FinishMarks ==
  ASSUME ConsentTypes, NEW s \in Session \cup {0}, NEW p \in Player, Consents!Finish(s, p), Named
  PROVE  /\ work' \in [Session -> Asking \cup Reading]
         /\ \A t \in Session \ {s} : /\ Marked(work[t], work'[t])
                                    /\ work'[t].moved = (work[t].moved \/ work[t].who = p)
         /\ s \in Session => work'[s] = Consents!Idle
  <1> DEFINE b(t) == work[t].moved \/ work[t].who = p
  <1>1. \A t \in Session : b(t) \in BOOLEAN /\ work[t] \in Asking \cup Reading
    BY DEF ConsentTypes, Asking, Reading
  <1>2. work' = [t \in Session |-> IF t = s THEN Consents!Idle ELSE [work[t] EXCEPT !.moved = b(t)]]
    BY DEF Consents!Finish
  <1>3. \A t \in Session \ {s} : /\ work'[t] \in Asking \cup Reading
                               /\ Marked(work[t], work'[t]) /\ work'[t].moved = b(t)
    <2> HIDE DEF b
    <2> QED  BY <1>1, <1>2, MarkIsAll
  <1>4. Consents!Idle \in Asking  BY DEF Consents!Idle, Asking, States
  <1>5. s \in Session => work'[s] = Consents!Idle  BY <1>2
  <1>6. work' \in [Session -> Asking \cup Reading]  BY <1>2, <1>3, <1>4, <1>5
  <1> QED  BY <1>3, <1>5, <1>6

LEMMA SweepMarks ==
  ASSUME ConsentTypes, NEW told \in SUBSET Player,
         work' = [s \in Session |-> [work[s] EXCEPT !.moved = @ \/ work[s].who \in told]]
  PROVE  /\ work' \in [Session -> Asking \cup Reading]
         /\ \A t \in Session : /\ Marked(work[t], work'[t])
                              /\ work'[t].moved = (work[t].moved \/ work[t].who \in told)
  <1> DEFINE b(t) == work[t].moved \/ work[t].who \in told
  <1>1. \A t \in Session : b(t) \in BOOLEAN /\ work[t] \in Asking \cup Reading
    BY DEF ConsentTypes, Asking, Reading
  <1>2. work' = [t \in Session |-> [work[t] EXCEPT !.moved = b(t)]]  OBVIOUS
  <1>3. \A t \in Session : /\ work'[t] \in Asking \cup Reading
                          /\ Marked(work[t], work'[t]) /\ work'[t].moved = b(t)
    <2> HIDE DEF b
    <2> TAKE t \in Session
    <2>1. work'[t] = [work[t] EXCEPT !.moved = b(t)]  BY <1>2
    <2>2. work[t] \in Asking \cup Reading /\ b(t) \in BOOLEAN  BY <1>1
    <2> QED  BY <2>1, <2>2, MarkIsAll
  <1>4. work' \in [Session -> Asking \cup Reading]  BY <1>2, <1>3
  <1> QED  BY <1>3, <1>4

LEMMA CheckInit == Named /\ Consents!Init => CheckInv
  <1> SUFFICES ASSUME Named, Consents!Init PROVE CheckInv  OBVIOUS
  <1>1. Consents!Idle \in Asking /\ Consents!Idle.op = "idle" /\ Consents!Idle.who = 0
    BY DEF Consents!Idle, Asking, States
  <1>2. \A s \in Session : work[s] = Consents!Idle  BY DEF Consents!Init
  <1>3. sweep.list = {} /\ sweep.said = {} /\ sweep.moved = FALSE
        /\ sweep \in [list : SUBSET Player, said : SUBSET (Player \X Replied), moved : BOOLEAN]
    BY DEF Consents!Init, Consents!NoSweep
  <1>4. ConsentTypes  BY <1>1, <1>3 DEF ConsentTypes, Consents!Init, States
  <1>5. IdleIsNobodys /\ InsertsAlone /\ ChecksStand
    BY <1>1, <1>2 DEF IdleIsNobodys, InsertsAlone, ChecksStand, Works
  <1>6. SweepStands  BY <1>3 DEF SweepStands
  <1>7. Consents!NothingForTheRefusing  BY DEF Consents!Init, Consents!NothingForTheRefusing
  <1> QED  BY <1>4, <1>5, <1>6, <1>7 DEF CheckInv

(* The table after a signal or a check of p; rows of others stay.          *)
LEMMA ApplyTable ==
  ASSUME ConsentTypes, Consents!NothingForTheRefusing, NEW p \in Player,
         NEW old \in States \ {"none"}, NEW new \in Replied, Consents!Apply(p, old, new)
  PROVE  /\ consent' \in [Player -> States] /\ waiting' \in [Player -> BOOLEAN]
         /\ \A q \in Player \ {p} : consent'[q] = consent[q] /\ waiting'[q] = waiting[q]
         /\ consent'[p] = IF old = new THEN consent[p] ELSE new
         /\ waiting'[p] <=> waiting[p] /\ new = "ALLOWED"
         /\ Consents!NothingForTheRefusing'
  <1>1. consent' = [consent EXCEPT ![p] = IF old = new THEN @ ELSE new]
    BY DEF Consents!Apply
  <1>2. waiting' = [waiting EXCEPT ![p] = @ /\ new = "ALLOWED"]
    BY DEF Consents!Apply
  <1>3. consent' \in [Player -> States]  BY <1>1 DEF ConsentTypes, States, Replied
  <1>4. waiting' \in [Player -> BOOLEAN]  BY <1>2 DEF ConsentTypes
  <1>5. \A q \in Player \ {p} : consent'[q] = consent[q] /\ waiting'[q] = waiting[q]
    BY <1>1, <1>2 DEF ConsentTypes
  <1>6. consent'[p] = IF old = new THEN consent[p] ELSE new
    BY <1>1 DEF ConsentTypes
  <1>7. waiting'[p] <=> waiting[p] /\ new = "ALLOWED"  BY <1>2 DEF ConsentTypes
  <1>8. Consents!NothingForTheRefusing'
    BY <1>5, <1>6, <1>7 DEF Consents!NothingForTheRefusing, Replied
  <1> QED  BY <1>3, <1>4, <1>5, <1>6, <1>7, <1>8

(* A step of the table, of VK or of the clock that leaves what was read.   *)
LEMMA CheckFrame ==
  ASSUME CheckInv, ConsentTypes', UNCHANGED <<agreed, consent, waiting, work, sweep>>
  PROVE  CheckInv'
  BY DEF CheckInv, IdleIsNobodys, InsertsAlone, ChecksStand, SweepStands, Works,
         Consents!NothingForTheRefusing, Consents!State

(* One session begins or goes on; the table and VK stay as they are.       *)
LEMMA CheckOfOne ==
  ASSUME CheckInv, ConsentTypes', UNCHANGED <<agreed, consent, waiting, sweep>>,
         NEW s \in Session, \A t \in Session \ {s} : work'[t] = work[t],
         \/ work'[s].op = "idle" /\ work'[s].who = 0
         \/ /\ work'[s].op # "idle" /\ work'[s].who \in Player
            /\ work'[s].seen = consent[work'[s].who]
            /\ work'[s].op = "send" => work'[s].seen = "ALLOWED"
            /\ \A t \in Session : ~(Works(t, work'[s].who) /\ work[t].seen = "none")
            /\ work'[s].said = "?"
         \/ /\ work'[s].moved = work[s].moved
            /\ work'[s].op \in {"sync", "register", "send"}
            /\ work'[s].said = Consents!State(work[s].who)
            /\ work'[s].who = work[s].who /\ work'[s].op = work[s].op
            /\ work'[s].seen = work[s].seen
  PROVE  CheckInv'
  <1> USE DEF CheckInv
  <1>1. IdleIsNobodys'  BY DEF IdleIsNobodys
  <1>2. InsertsAlone'  BY DEF InsertsAlone, Works, IdleIsNobodys
  <1>3. ChecksStand'  BY DEF ChecksStand, Consents!State
  <1>4. SweepStands' /\ Consents!NothingForTheRefusing'
    BY DEF SweepStands, Consents!NothingForTheRefusing, Consents!State
  <1> QED  BY <1>1, <1>2, <1>3, <1>4

(* A session, or the callback, writes the row of p and is through.         *)
LEMMA CheckFinish ==
  ASSUME Named, CheckInv, NEW s \in Session \cup {0}, NEW p \in Player, Consents!Finish(s, p),
         consent' \in [Player -> States], waiting' \in [Player -> BOOLEAN],
         wire' \subseteq Consents!Event, journal' \subseteq Consents!Event,
         \A q \in Player \ {p} : consent'[q] = consent[q] /\ waiting'[q] = waiting[q],
         consent'[p] # "none", ~(consent'[p] = "DENIED" /\ waiting'[p]),
         \A t \in Session \ {s} : ~(Works(t, p) /\ work[t].seen = "none"),
         UNCHANGED <<agreed, made, cooled, sweep>>
  PROVE  CheckInv'
  <1>0. ConsentTypes  BY DEF CheckInv
  <1>1. /\ work' \in [Session -> Asking \cup Reading]
        /\ \A t \in Session \ {s} : /\ Marked(work[t], work'[t])
                                    /\ work'[t].moved = (work[t].moved \/ work[t].who = p)
        /\ s \in Session => work'[s] = Consents!Idle
    BY <1>0, FinishMarks
  <1>2. \A t \in Session \ {s} : Same(work[t], work'[t])  BY <1>1 DEF Marked
  <1>3. \A t \in Session \ {s} :
          /\ work'[t].op = work[t].op /\ work'[t].who = work[t].who
          /\ work'[t].seen = work[t].seen /\ work'[t].said = work[t].said
          /\ ~work'[t].moved => ~work[t].moved /\ work[t].who # p
    BY <1>1, <1>2 DEF Same
  <1>4. s \in Session => work'[s].op = "idle" /\ work'[s].who = 0
    BY <1>1 DEF Consents!Idle
  <1>5. ConsentTypes'  BY <1>0, <1>1 DEF ConsentTypes
  <1>6. IdleIsNobodys'  BY <1>3, <1>4 DEF CheckInv, IdleIsNobodys
  <1>7. InsertsAlone'
    <2>1. \A t \in Session, q \in Player : Works(t, q)' => Works(t, q) /\ t # s
      BY <1>3, <1>4 DEF Works
    <2> QED  BY <1>3, <2>1 DEF CheckInv, InsertsAlone
  <1>8. ChecksStand'
    <2>1. \A t \in Session : work[t].op # "idle" => work[t].who \in Player
      BY DEF CheckInv, IdleIsNobodys
    <2>2. \A q \in Player : Consents!State(q)' = Consents!State(q)  BY DEF Consents!State
    <2> QED  BY <1>3, <1>4, <2>1, <2>2 DEF CheckInv, ChecksStand
  <1>9. SweepStands'  BY DEF CheckInv, SweepStands, Consents!State
  <1>10. Consents!NothingForTheRefusing'
    BY DEF CheckInv, Consents!NothingForTheRefusing
  <1> QED  BY <1>5, <1>6, <1>7, <1>8, <1>9, <1>10 DEF CheckInv

(* The steps of VK, of the players and of the clock.                       *)
LEMMA CheckPlayerStep ==
  ASSUME Named, CheckInv, NEW p \in Player, Consents!PlayerStep(p)
  PROVE  CheckInv'
  <1>0. ConsentTypes  BY DEF CheckInv
  <1>1. CASE Consents!Toggle(p)
    <2>0. made + 1 \in 1..MaxEvents  BY <1>0, <1>1 DEF ConsentTypes, Consents!Toggle, Named
    <2>1. /\ agreed' = [agreed EXCEPT ![p] = ~@]
          /\ UNCHANGED <<consent, cooled, journal, waiting>> /\ made' = made + 1
          /\ Consents!Outdate(p)
      BY <1>1 DEF Consents!Toggle, Consents!tableVars
    <2>2. wire' \subseteq Consents!Event
      BY <1>0, <1>1, <2>0 DEF Consents!Toggle, Consents!Event, ConsentTypes
    <2>3. /\ work' \in [Session -> Asking \cup Reading]
          /\ \A s \in Session : /\ Marked(work[s], work'[s])
                               /\ work'[s].moved = (work[s].moved \/ (work[s].who = p /\ work[s].said # "?"))
          /\ sweep' \in [list : SUBSET Player, said : SUBSET (Player \X Replied), moved : BOOLEAN]
          /\ sweep'.list = sweep.list /\ sweep'.said = sweep.said
          /\ sweep'.moved <=> sweep.moved \/ \E a \in sweep.said : a[1] = p
      BY <1>0, <2>1, OutdateMarks
    <2>4. \A q \in Player \ {p} : agreed'[q] = agreed[q]  BY <1>0, <2>1 DEF ConsentTypes
    <2>a. \A s \in Session :
            /\ work'[s].op = work[s].op /\ work'[s].who = work[s].who
            /\ work'[s].seen = work[s].seen /\ work'[s].said = work[s].said
            /\ work'[s].moved = (work[s].moved \/ (work[s].who = p /\ work[s].said # "?"))
      BY <2>3 DEF Marked, Same
    <2>5. ConsentTypes'  BY <1>0, <2>1, <2>2, <2>3 DEF ConsentTypes
    <2>6. IdleIsNobodys'  BY <2>a DEF CheckInv, IdleIsNobodys
    <2>7. InsertsAlone'
      <3>1. \A s \in Session, q \in Player : Works(s, q)' <=> Works(s, q)
        BY <2>a DEF Works
      <3> QED  BY <2>1, <2>a, <3>1 DEF CheckInv, InsertsAlone
    <2>8. ChecksStand'
      <3>1. \A s \in Session : ~work'[s].moved =>
              ~work[s].moved /\ (work[s].said = "?" \/ work[s].who # p)
        BY <2>a
      <3>2. \A s \in Session : work[s].op # "idle" => work[s].who \in Player
        BY DEF CheckInv, IdleIsNobodys
      <3>3. \A q \in Player \ {p} : Consents!State(q)' = Consents!State(q)
        BY <2>4 DEF Consents!State
      <3>4. \A s \in Session : /\ work'[s].op = work[s].op /\ work'[s].who = work[s].who
                               /\ work'[s].seen = work[s].seen /\ work'[s].said = work[s].said
        BY <2>a
      <3> QED  BY <2>1, <3>1, <3>2, <3>3, <3>4 DEF CheckInv, ChecksStand
    <2>9. SweepStands'
      BY <1>0, <2>3, <2>4 DEF CheckInv, SweepStands, Consents!State, ConsentTypes
    <2>10. Consents!NothingForTheRefusing'
      BY <2>1 DEF CheckInv, Consents!NothingForTheRefusing
    <2> QED  BY <2>5, <2>6, <2>7, <2>8, <2>9, <2>10 DEF CheckInv
  <1>2. ASSUME NEW kind \in {"command", "text"}, Consents!Write(p, kind) PROVE CheckInv'
    <2>0. made + 1 \in 1..MaxEvents  BY <1>0, <1>2 DEF ConsentTypes, Consents!Write, Named
    <2>1. ConsentTypes'
      BY <1>0, <1>2, <2>0 DEF ConsentTypes, Consents!Write, Consents!tableVars, Consents!Event
    <2> QED  BY <1>2, <2>1, CheckFrame DEF Consents!Write, Consents!tableVars
  <1>3. CASE Consents!Elapse(p)
    <2>1. ConsentTypes'
      BY <1>0, <1>3 DEF ConsentTypes, Consents!Elapse, Consents!vkVars
    <2> QED  BY <1>3, <2>1, CheckFrame DEF Consents!Elapse, Consents!vkVars
  <1>4. CASE Consents!Enqueue(p)
    <2>1. ConsentTypes'
      BY <1>0, <1>4 DEF ConsentTypes, Consents!Enqueue, Consents!vkVars
    <2>2. UNCHANGED <<agreed, consent, work, sweep>>
      BY <1>4 DEF Consents!Enqueue, Consents!vkVars
    <2>3. Consents!NothingForTheRefusing'
      BY <1>0, <1>4 DEF CheckInv, Consents!NothingForTheRefusing, Consents!Enqueue, ConsentTypes
    <2> QED
      BY <2>1, <2>2, <2>3 DEF CheckInv, IdleIsNobodys, InsertsAlone, ChecksStand, SweepStands,
         Works, Consents!State
  <1>5. CASE Consents!DeletePlayer(p)
    <2>1. ConsentTypes'
      BY <1>0, <1>5 DEF ConsentTypes, Consents!DeletePlayer, Consents!vkVars, States
    <2>2. /\ UNCHANGED <<agreed, work, sweep>> /\ \A s \in Session : work[s].who # p
          /\ consent'[p] = "none" /\ waiting'[p] = FALSE
          /\ \A q \in Player \ {p} : consent'[q] = consent[q] /\ waiting'[q] = waiting[q]
      BY <1>0, <1>5 DEF Consents!DeletePlayer, Consents!vkVars, ConsentTypes
    <2>3. Consents!NothingForTheRefusing'
      BY <2>2 DEF CheckInv, Consents!NothingForTheRefusing
    <2>4. InsertsAlone'  BY <2>2 DEF CheckInv, InsertsAlone, Works
    <2>5. ChecksStand'  BY <2>2 DEF CheckInv, ChecksStand, Consents!State, IdleIsNobodys
    <2> QED
      BY <2>1, <2>2, <2>3, <2>4, <2>5 DEF CheckInv, IdleIsNobodys, SweepStands, Consents!State
  <1> QED  BY <1>1, <1>2, <1>3, <1>4, <1>5 DEF Consents!PlayerStep

(* The steps of the callback.                                              *)
LEMMA CheckCallback ==
  ASSUME Named, CheckInv, NEW e \in wire, Consents!Callback(e)
  PROVE  CheckInv'
  <1>0. ConsentTypes /\ e \in Consents!Event /\ e.who \in Player
    BY DEF CheckInv, ConsentTypes, Consents!Event
  <1>1. CASE Consents!Repeated(e)
    <2>1. ConsentTypes'
      BY <1>0, <1>1 DEF ConsentTypes, Consents!Repeated, Consents!tableVars
    <2> QED  BY <1>1, <2>1, CheckFrame DEF Consents!Repeated, Consents!tableVars
  <1>2. CASE Consents!LoseEvent(e)
    <2>1. ConsentTypes'
      BY <1>0, <1>2 DEF ConsentTypes, Consents!LoseEvent, Consents!tableVars
    <2> QED  BY <1>2, <2>1, CheckFrame DEF Consents!LoseEvent, Consents!tableVars
  <1>3. ASSUME NEW s \in Session, Consents!BeginMessage(s, e) PROVE CheckInv'
    <2> DEFINE r == [op |-> "message", who |-> e.who, seen |-> consent[e.who], said |-> "?",
                     moved |-> FALSE, event |-> e,
                     first |-> \A f \in journal : f.kind \in Consents!Signal \/ f.who # e.who]
    <2>1. /\ work' = [work EXCEPT ![s] = r] /\ ~Consents!Locked(e.who)
          /\ UNCHANGED <<agreed, wire, made, consent, cooled, journal, waiting, sweep>>
      BY <1>3 DEF Consents!BeginMessage, Consents!vkVars, Consents!tableVars
    <2>2. r \in Reading  BY <1>0 DEF Reading, ConsentTypes
    <2>3. ConsentTypes'  BY <1>0, <2>1, <2>2 DEF ConsentTypes
    <2>4. r.op = "message" /\ r.who = e.who /\ r.seen = consent[e.who] /\ r.said = "?"
      OBVIOUS
    <2>5. work'[s] = r /\ \A t \in Session \ {s} : work'[t] = work[t]
      BY <1>0, <2>1 DEF ConsentTypes
    <2>6. \A t \in Session : ~(Works(t, e.who) /\ work[t].seen = "none")
      BY <2>1 DEF Consents!Locked, Works
    <2> HIDE DEF r
    <2> QED  BY <1>0, <2>1, <2>3, <2>4, <2>5, <2>6, CheckOfOne
  <1>4. CASE Consents!HandleSignal(e)
    <2> DEFINE p == e.who
               new == IF e.kind = "allow" THEN "ALLOWED" ELSE "DENIED"
    <2>1. /\ Consents!Apply(p, consent[p], new) /\ Consents!Finish(0, p)
          /\ ~Consents!Locked(p) /\ journal' = journal \cup {e} /\ wire' \in {wire, wire \ {e}}
          /\ UNCHANGED <<agreed, made, cooled, sweep>>
      BY <1>4 DEF Consents!HandleSignal, Consents!Acked
    <2>2. 0 \in Session \cup {0} /\ new \in Replied /\ p \in Player /\ consent[p] \in States
      BY <1>0 DEF Replied, ConsentTypes
    <2>3. consent' = [consent EXCEPT ![p] = IF consent[p] = new THEN @ ELSE new]
          /\ waiting' = [waiting EXCEPT ![p] = @ /\ new = "ALLOWED"]
      BY <2>1 DEF Consents!Apply
    <2> HIDE DEF new, p
    <2>4. /\ consent' \in [Player -> States] /\ waiting' \in [Player -> BOOLEAN]
          /\ \A q \in Player \ {p} : consent'[q] = consent[q] /\ waiting'[q] = waiting[q]
          /\ consent'[p] = new /\ (waiting'[p] <=> waiting[p] /\ new = "ALLOWED")
      BY <1>0, <2>2, <2>3 DEF ConsentTypes, States, Replied
    <2>5. wire' \subseteq Consents!Event /\ journal' \subseteq Consents!Event
      BY <1>0, <2>1 DEF ConsentTypes
    <2>6. \A t \in Session : ~(Works(t, p) /\ work[t].seen = "none")
      BY <2>1 DEF Works, Consents!Locked
    <2>7. consent'[p] # "none" /\ ~(consent'[p] = "DENIED" /\ waiting'[p])
      BY <2>2, <2>4 DEF Replied
    <2> QED  BY <2>1, <2>2, <2>4, <2>5, <2>6, <2>7, CheckFinish
  <1> QED  BY <1>1, <1>2, <1>3, <1>4 DEF Consents!Callback

(* The steps of the sessions: requests, sends and messages.                *)
LEMMA CheckSessionStep ==
  ASSUME Named, CheckInv, NEW s \in Session, Consents!SessionStep(s)
  PROVE  CheckInv'
  <1>0. ConsentTypes /\ work[s] \in Asking \cup Reading
    BY DEF CheckInv, ConsentTypes
  <1>1. ASSUME NEW p \in Player, NEW op \in {"sync", "register", "send"},
               NEW seen \in States, seen = consent[p], op = "send" => seen = "ALLOWED",
               work' = [work EXCEPT ![s] = [Consents!Idle EXCEPT !.op = op, !.who = p, !.seen = seen]],
               \A t \in Session : ~(Works(t, p) /\ work[t].seen = "none"),
               UNCHANGED <<agreed, wire, made, consent, cooled, journal, waiting, sweep>>
        PROVE  CheckInv'
    <2> DEFINE r == [Consents!Idle EXCEPT !.op = op, !.who = p, !.seen = seen]
    <2>1. /\ r \in Asking /\ r.op = op /\ r.who = p /\ r.seen = seen /\ r.said = "?"
          /\ r.op # "idle"
      BY DEF Consents!Idle, Asking
    <2> HIDE DEF r
    <2>2. work' = [work EXCEPT ![s] = r]  BY <1>1 DEF r
    <2>3. work'[s] = r /\ \A t \in Session \ {s} : work'[t] = work[t]
      BY <1>0, <2>2 DEF ConsentTypes
    <2>4. ConsentTypes'  BY <1>0, <1>1, <2>1, <2>2 DEF ConsentTypes
    <2>5. /\ work'[s].op # "idle" /\ work'[s].who = p /\ work'[s].seen = consent[p]
          /\ work'[s].op = "send" => work'[s].seen = "ALLOWED"
          /\ work'[s].said = "?"
      BY <1>1, <2>1, <2>3
    <2> QED  BY <1>1, <2>3, <2>4, <2>5, CheckOfOne
  <1>2. ASSUME NEW p \in Player, Consents!BeginSend(s, p) PROVE CheckInv'
    <2>1. \A t \in Session : ~(Works(t, p) /\ work[t].seen = "none")
      BY <1>2 DEF Consents!BeginSend, CheckInv, InsertsAlone
    <2> QED
      BY <1>1, <1>2, <2>1
      DEF Consents!BeginSend, Consents!vkVars, Consents!tableVars, States
  <1>3. ASSUME NEW p \in Player, NEW op \in {"sync", "register"}, Consents!BeginCheck(s, p, op)
        PROVE  CheckInv'
    <2>1. \A t \in Session : ~(Works(t, p) /\ work[t].seen = "none")
      BY <1>3 DEF Consents!BeginCheck, Consents!Locked, Works
    <2>2. consent[p] \in States  BY <1>0 DEF ConsentTypes
    <2> QED
      BY <1>1, <1>3, <2>1, <2>2 DEF Consents!BeginCheck, Consents!vkVars, Consents!tableVars
  <1>4. CASE Consents!Heard(s)
    <2> DEFINE a == Consents!State(work[s].who)
               r == [work[s] EXCEPT !.said = a]
    <2>1. /\ work' = [work EXCEPT ![s] = r] /\ work[s].op \in {"sync", "register", "send"}
          /\ UNCHANGED <<agreed, wire, made, consent, cooled, journal, waiting, sweep>>
      BY <1>4 DEF Consents!Heard, Consents!vkVars, Consents!tableVars
    <2>2. work[s] \in Asking  BY <1>0, <2>1 DEF Reading
    <2>3. a \in Replied  BY DEF Consents!State, Replied
    <2> HIDE DEF a
    <2>4. /\ r \in Asking /\ r.op = work[s].op /\ r.who = work[s].who /\ r.seen = work[s].seen
          /\ r.moved = work[s].moved /\ r.said = a
      BY <2>2, <2>3 DEF Asking
    <2> HIDE DEF r
    <2>5. work'[s] = r /\ \A t \in Session \ {s} : work'[t] = work[t]
      BY <1>0, <2>1 DEF ConsentTypes
    <2>6. ConsentTypes'  BY <1>0, <2>1, <2>4 DEF ConsentTypes
    <2> QED  BY <2>1, <2>4, <2>5, <2>6, CheckOfOne DEF a
  <1>5. CASE Consents!Break(s)
    <2>1. work' = [work EXCEPT ![s] = Consents!Idle]
          /\ UNCHANGED <<agreed, wire, made, consent, cooled, journal, waiting, sweep>>
      BY <1>5 DEF Consents!Break, Consents!vkVars, Consents!tableVars
    <2>2. Consents!Idle \in Asking /\ Consents!Idle.op = "idle" /\ Consents!Idle.who = 0
      BY DEF Consents!Idle, Asking, States
    <2>3. work'[s] = Consents!Idle /\ \A t \in Session \ {s} : work'[t] = work[t]
      BY <1>0, <2>1 DEF ConsentTypes
    <2>4. ConsentTypes'  BY <1>0, <2>1, <2>2 DEF ConsentTypes
    <2> QED  BY <2>1, <2>2, <2>3, <2>4, CheckOfOne
  <1>6. ASSUME work[s].op # "idle"
        PROVE  /\ work[s].who \in Player
               /\ \A t \in Session \ {s} : ~(Works(t, work[s].who) /\ work[t].seen = "none")
    BY <1>6 DEF CheckInv, IdleIsNobodys, InsertsAlone, Works
  <1>7. CASE Consents!EndCheck(s)
    <2> DEFINE p == work[s].who
               old == IF work[s].seen = "none" THEN "UNKNOWN" ELSE work[s].seen
               new == work[s].said
    <2>1. /\ work[s].op \in {"sync", "register"} /\ new # "?" /\ Consents!Apply(p, old, new)
          /\ Consents!Finish(s, p)
          /\ UNCHANGED <<agreed, wire, made, cooled, journal, sweep>>
      BY <1>7 DEF Consents!EndCheck, Consents!vkVars
    <2>2. p \in Player /\ \A t \in Session \ {s} : ~(Works(t, p) /\ work[t].seen = "none")
      BY <1>6, <2>1
    <2>3. old \in States \ {"none"} /\ new \in Replied
      BY <1>0, <2>1 DEF Asking, Reading, States, Replied
    <2>4. consent[p] = "none" <=> work[s].seen = "none"
      BY <2>1, <2>2 DEF CheckInv, InsertsAlone, Works
    <2> HIDE DEF p, new
    <2>5. /\ consent' \in [Player -> States] /\ waiting' \in [Player -> BOOLEAN]
          /\ \A q \in Player \ {p} : consent'[q] = consent[q] /\ waiting'[q] = waiting[q]
          /\ consent'[p] = IF old = new THEN consent[p] ELSE new
          /\ Consents!NothingForTheRefusing'
      BY <1>0, <2>1, <2>2, <2>3, ApplyTable DEF CheckInv
    <2>6. consent'[p] # "none"  BY <2>3, <2>4, <2>5 DEF Replied
    <2>7. ~(consent'[p] = "DENIED" /\ waiting'[p])
      BY <2>2, <2>5 DEF Consents!NothingForTheRefusing
    <2>8. wire' \subseteq Consents!Event /\ journal' \subseteq Consents!Event
      BY <1>0, <2>1 DEF ConsentTypes
    <2> QED  BY <2>1, <2>2, <2>5, <2>6, <2>7, <2>8, CheckFinish
  <1>8. CASE Consents!EndSend(s)
    <2> DEFINE p == work[s].who
    <2>1. /\ work[s].op = "send" /\ work[s].said # "?" /\ Consents!Finish(s, p)
          /\ UNCHANGED <<agreed, wire, made, cooled, journal, sweep>>
          /\ \/ waiting' = [waiting EXCEPT ![p] = FALSE] /\ UNCHANGED consent
             \/ Consents!Apply(p, consent[p], "DENIED")
      BY <1>8 DEF Consents!EndSend, Consents!vkVars
    <2>2. p \in Player /\ \A t \in Session \ {s} : ~(Works(t, p) /\ work[t].seen = "none")
      BY <1>6, <2>1
    <2>3. consent[p] \in States /\ consent[p] # "none"
      BY <1>0, <2>1, <2>2 DEF CheckInv, InsertsAlone, Works, ConsentTypes, IdleIsNobodys
    <2> HIDE DEF p
    <2>4. /\ consent' \in [Player -> States] /\ waiting' \in [Player -> BOOLEAN]
          /\ \A q \in Player \ {p} : consent'[q] = consent[q] /\ waiting'[q] = waiting[q]
          /\ consent'[p] # "none" /\ ~(consent'[p] = "DENIED" /\ waiting'[p])
      <3>1. CASE waiting' = [waiting EXCEPT ![p] = FALSE] /\ UNCHANGED consent
        BY <1>0, <2>2, <2>3, <3>1 DEF ConsentTypes
      <3>2. CASE Consents!Apply(p, consent[p], "DENIED")
        BY <1>0, <2>2, <2>3, <3>2 DEF ConsentTypes, Consents!Apply, States
      <3> QED  BY <2>1, <3>1, <3>2
    <2>5. wire' \subseteq Consents!Event /\ journal' \subseteq Consents!Event
      BY <1>0, <2>1 DEF ConsentTypes
    <2> QED  BY <2>1, <2>2, <2>4, <2>5, CheckFinish
  <1>9. CASE Consents!EndMessage(s)
    <2> DEFINE p == work[s].who
    <2>1. /\ work[s].op = "message" /\ journal' = journal \cup {work[s].event}
          /\ consent' = [consent EXCEPT ![p] = IF @ = "none" THEN "UNKNOWN" ELSE @]
          /\ cooled' = [cooled EXCEPT ![p] = @ /\ Consents!Answer(work[s]) # "plate"]
          /\ wire' \in {wire, wire \ {work[s].event}}
          /\ work' = [work EXCEPT ![s] = Consents!Idle]
          /\ UNCHANGED <<agreed, made, waiting, sweep>>
      BY <1>9 DEF Consents!EndMessage, Consents!Acked
    <2>2. p \in Player /\ \A t \in Session \ {s} : ~(Works(t, p) /\ work[t].seen = "none")
      BY <1>6, <2>1
    <2>3. work[s].event \in Consents!Event  BY <1>0, <2>1 DEF Asking, Reading
    <2>4. consent[p] = "none" => \A t \in Session \ {s} : ~Works(t, p)
      BY <2>1, <2>2 DEF CheckInv, InsertsAlone, Works
    <2> HIDE DEF p
    <2>5. /\ \A q \in Player \ {p} : consent'[q] = consent[q]
          /\ consent'[p] = IF consent[p] = "none" THEN "UNKNOWN" ELSE consent[p]
      BY <1>0, <2>1, <2>2 DEF ConsentTypes
    <2>6. Consents!Idle \in Asking /\ Consents!Idle.op = "idle" /\ Consents!Idle.who = 0
      BY DEF Consents!Idle, Asking, States
    <2>7. work'[s] = Consents!Idle /\ \A t \in Session \ {s} : work'[t] = work[t]
      BY <1>0, <2>1 DEF ConsentTypes
    <2>8. ConsentTypes'
      <3>1. cooled' \in [Player -> BOOLEAN]  BY <1>0, <2>1 DEF ConsentTypes
      <3>2. consent' \in [Player -> States]  BY <1>0, <2>1 DEF ConsentTypes, States
      <3>3. wire' \subseteq Consents!Event /\ journal' \subseteq Consents!Event
        BY <1>0, <2>1, <2>3 DEF ConsentTypes
      <3>4. work' \in [Session -> Asking \cup Reading]  BY <1>0, <2>1, <2>6 DEF ConsentTypes
      <3> QED  BY <1>0, <2>1, <3>1, <3>2, <3>3, <3>4 DEF ConsentTypes
    <2>9. IdleIsNobodys'  BY <2>6, <2>7 DEF CheckInv, IdleIsNobodys
    <2>10. InsertsAlone'
      <3>1. \A t \in Session, q \in Player : Works(t, q)' => Works(t, q) /\ t # s
        BY <2>6, <2>7 DEF Works
      <3> QED  BY <2>2, <2>4, <2>5, <2>7, <3>1 DEF CheckInv, InsertsAlone
    <2>11. ChecksStand'
      <3>1. \A t \in Session : work[t].op # "idle" => Works(t, work[t].who) /\ work[t].who \in Player
        BY DEF CheckInv, IdleIsNobodys, Works
      <3>2. \A q \in Player : Consents!State(q)' = Consents!State(q)
        BY <2>1 DEF Consents!State
      <3>3. \A t \in Session \ {s} : work[t].op # "idle" => consent'[work[t].who] = consent[work[t].who]
        BY <2>4, <2>5, <3>1
      <3> QED  BY <2>6, <2>7, <3>1, <3>2, <3>3 DEF CheckInv, ChecksStand
    <2>12. SweepStands'  BY <2>1 DEF CheckInv, SweepStands, Consents!State
    <2>13. Consents!NothingForTheRefusing'
      BY <2>1, <2>5 DEF CheckInv, Consents!NothingForTheRefusing
    <2> QED  BY <2>8, <2>9, <2>10, <2>11, <2>12, <2>13 DEF CheckInv
  <1> QED
    BY <1>2, <1>3, <1>4, <1>5, <1>7, <1>8, <1>9 DEF Consents!SessionStep

(* The steps of the reconciler.                                            *)
LEMMA CheckSweep ==
  ASSUME Named, CheckInv, Consents!Sweep
  PROVE  CheckInv'
  <1>0. ConsentTypes  BY DEF CheckInv
  <1>1. ASSUME NEW list \in SUBSET Player, NEW said \in SUBSET (Player \X Replied), NEW b \in BOOLEAN,
               sweep'.list = list, sweep'.said = said, sweep'.moved = b,
               sweep' \in [list : SUBSET Player, said : SUBSET (Player \X Replied), moved : BOOLEAN],
               ~b => \A a \in said : a[2] = Consents!State(a[1]),
               UNCHANGED <<agreed, wire, made, consent, cooled, journal, waiting, work>>
        PROVE  CheckInv'
    <2>1. ConsentTypes'  BY <1>0, <1>1 DEF ConsentTypes
    <2>2. SweepStands'  BY <1>1 DEF SweepStands, Consents!State
    <2> QED
      BY <1>1, <2>1, <2>2 DEF CheckInv, IdleIsNobodys, InsertsAlone, ChecksStand, Works,
         Consents!NothingForTheRefusing, Consents!State
  <1>2. CASE Consents!BeginSweep
    <2>1. /\ sweep' = [sweep EXCEPT !.list = Consents!Oldest] /\ Consents!Oldest \subseteq Player
          /\ UNCHANGED <<agreed, wire, made, consent, cooled, journal, waiting, work>>
      BY <1>2 DEF Consents!BeginSweep, Consents!vkVars, Consents!tableVars, Consents!Oldest,
                  Consents!Unknown
    <2> QED  BY <1>0, <1>1, <2>1 DEF ConsentTypes, CheckInv, SweepStands
  <1>3. CASE Consents!AskNext
    <2>1. PICK p \in sweep.list :
            \/ sweep' = [sweep EXCEPT !.list = @ \ {p}, !.said = @ \cup {<<p, Consents!State(p)>>}]
            \/ sweep' = [sweep EXCEPT !.list = @ \ {p}]
      BY <1>3 DEF Consents!AskNext
    <2>2. UNCHANGED <<agreed, wire, made, consent, cooled, journal, waiting, work>>
      BY <1>3 DEF Consents!AskNext, Consents!vkVars, Consents!tableVars
    <2>3. p \in Player /\ Consents!State(p) \in Replied
      BY <1>0 DEF ConsentTypes, Consents!State, Replied
    <2>4. CASE sweep' = [sweep EXCEPT !.list = @ \ {p}]
      BY <1>0, <1>1, <2>2, <2>4 DEF ConsentTypes, CheckInv, SweepStands
    <2>5. CASE sweep' = [sweep EXCEPT !.list = @ \ {p}, !.said = @ \cup {<<p, Consents!State(p)>>}]
      <3> DEFINE new == sweep.said \cup {<<p, Consents!State(p)>>}
      <3>1. new \in SUBSET (Player \X Replied)  BY <1>0, <2>3 DEF ConsentTypes
      <3>2. ~sweep.moved => \A a \in new : a[2] = Consents!State(a[1])
        BY DEF CheckInv, SweepStands
      <3>3. sweep' = [sweep EXCEPT !.list = @ \ {p}, !.said = new]  BY <2>5
      <3> HIDE DEF new
      <3> QED  BY <1>0, <1>1, <2>2, <3>1, <3>2, <3>3 DEF ConsentTypes
    <2> QED  BY <2>1, <2>4, <2>5
  <1>4. CASE Consents!EndSweep
    <2> DEFINE told == {a[1] : a \in sweep.said}
               allows(p) == <<p, "ALLOWED">> \in sweep.said
    <2>1. /\ sweep' = Consents!NoSweep
          /\ UNCHANGED <<agreed, wire, made, cooled, journal>>
      BY <1>4 DEF Consents!EndSweep, Consents!vkVars
    <2>2. CASE UNCHANGED <<consent, waiting, work>>
      <3>1. /\ sweep'.list = {} /\ sweep'.said = {} /\ sweep'.moved = FALSE
            /\ sweep' \in [list : SUBSET Player, said : SUBSET (Player \X Replied), moved : BOOLEAN]
        BY <2>1 DEF Consents!NoSweep
      <3> QED  BY <1>1, <2>1, <2>2, <3>1
    <2>3. CASE /\ \A p \in told : consent[p] # "none"
               /\ consent' = [p \in Player |->
                    IF p \notin told THEN consent[p] ELSE IF allows(p) THEN "ALLOWED" ELSE "DENIED"]
               /\ waiting' = [p \in Player |-> waiting[p] /\ (p \in told => allows(p))]
               /\ work' = [s \in Session |->
                    [work[s] EXCEPT !.moved = @ \/ work[s].who \in told]]
      <3>1. told \in SUBSET Player  BY <1>0 DEF ConsentTypes
      <3> HIDE DEF told, allows
      <3>2. /\ work' \in [Session -> Asking \cup Reading]
            /\ \A t \in Session : /\ Marked(work[t], work'[t])
                                 /\ work'[t].moved = (work[t].moved \/ work[t].who \in told)
        BY <1>0, <2>3, <3>1, SweepMarks
      <3>3. \A t \in Session : Same(work[t], work'[t])  BY <3>2 DEF Marked
      <3>4. \A t \in Session :
              /\ work'[t].op = work[t].op /\ work'[t].who = work[t].who
              /\ work'[t].seen = work[t].seen /\ work'[t].said = work[t].said
              /\ ~work'[t].moved => ~work[t].moved /\ work[t].who \notin told
        BY <3>2, <3>3 DEF Same
      <3>a. \A p \in Player :
              /\ consent'[p] = IF p \notin told THEN consent[p]
                               ELSE IF allows(p) THEN "ALLOWED" ELSE "DENIED"
              /\ waiting'[p] = (waiting[p] /\ (p \in told => allows(p)))
        BY <2>3
      <3>5. /\ \A p \in Player \ told : consent'[p] = consent[p] /\ (waiting'[p] => waiting[p])
            /\ \A p \in told : consent[p] # "none" /\ consent'[p] \in Replied
            /\ \A p \in told : consent'[p] = "DENIED" => ~waiting'[p]
        BY <2>3, <3>1, <3>a DEF Replied
      <3>6. consent' \in [Player -> States] /\ waiting' \in [Player -> BOOLEAN]
        BY <1>0, <2>3 DEF ConsentTypes, States
      <3>7. /\ sweep' \in [list : SUBSET Player, said : SUBSET (Player \X Replied), moved : BOOLEAN]
            /\ sweep'.said = {}
        BY <2>1 DEF Consents!NoSweep
      <3>8. ConsentTypes'  BY <1>0, <2>1, <3>2, <3>6, <3>7 DEF ConsentTypes
      <3>9. IdleIsNobodys'  BY <3>4 DEF CheckInv, IdleIsNobodys
      <3>10. InsertsAlone'
        <4>1. \A t \in Session, q \in Player : Works(t, q)' <=> Works(t, q)
          BY <3>4 DEF Works
        <4>2. \A q \in Player : consent'[q] = "none" <=> consent[q] = "none"
          BY <3>5 DEF Replied
        <4> QED  BY <3>4, <4>1, <4>2 DEF CheckInv, InsertsAlone
      <3>11. ChecksStand'
        <4>1. \A t \in Session : work[t].op # "idle" => work[t].who \in Player
          BY DEF CheckInv, IdleIsNobodys
        <4>2. \A q \in Player : Consents!State(q)' = Consents!State(q)
          BY <2>1 DEF Consents!State
        <4> QED  BY <3>4, <3>5, <4>1, <4>2 DEF CheckInv, ChecksStand
      <3>12. SweepStands'  BY <3>7 DEF SweepStands
      <3>13. Consents!NothingForTheRefusing'
        BY <3>1, <3>5 DEF CheckInv, Consents!NothingForTheRefusing
      <3> QED  BY <3>8, <3>9, <3>10, <3>11, <3>12, <3>13 DEF CheckInv
    <2> QED  BY <1>4, <2>2, <2>3 DEF Consents!EndSweep
  <1> QED  BY <1>2, <1>3, <1>4 DEF Consents!Sweep

LEMMA CheckStep == Named /\ CheckInv /\ [Consents!Next]_(Consents!vars) => CheckInv'
  <1> SUFFICES ASSUME Named, CheckInv, [Consents!Next]_(Consents!vars) PROVE CheckInv'
    OBVIOUS
  <1>1. CASE UNCHANGED Consents!vars
    <2>1. UNCHANGED <<agreed, wire, made, consent, cooled, journal, waiting, work, sweep>>
      BY <1>1 DEF Consents!vars, Consents!vkVars, Consents!tableVars
    <2>2. ConsentTypes'  BY <2>1 DEF CheckInv, ConsentTypes
    <2> QED  BY <2>1, <2>2, CheckFrame
  <1> QED
    BY <1>1, CheckPlayerStep, CheckCallback, CheckSessionStep, CheckSweep DEF Consents!Next

(* The invariant of the checks (sync_consent_with_vk, reconcile_step):     *)
(* what a check has read stands unless the check is marked as overtaken.   *)
THEOREM CheckInvariant == Named => (Consents!Spec => []CheckInv)
  <1> SUFFICES ASSUME Named PROVE Consents!Spec => []CheckInv  OBVIOUS
  <1>1. Consents!Init => CheckInv  BY CheckInit
  <1>2. CheckInv /\ [Consents!Next]_(Consents!vars) => CheckInv'  BY CheckStep
  <1> QED  BY <1>1, <1>2, PTL DEF Consents!Spec

(* Whatever the checks, the callback, the reconciler and the sends         *)
(* interleave to: nobody who is known to refuse has a notification queued. *)
THEOREM RefusalsEmptyTheQueue == Named => (Consents!Spec => []Consents!NothingForTheRefusing)
  <1> SUFFICES ASSUME Named PROVE Consents!Spec => []Consents!NothingForTheRefusing  OBVIOUS
  <1>1. CheckInv => Consents!NothingForTheRefusing  BY DEF CheckInv
  <1> QED  BY <1>1, CheckInvariant, PTL

(* A queue is never dropped by the answer of a check that was outdated: as *)
(* long as none wrote one, what empties it is a refusal that holds, the    *)
(* player's deletion or the delivery itself.                               *)
THEOREM QueuesFallToRefusals == Named => (Consents!Spec => Consents!DropsAreRefusals)
  <1> SUFFICES ASSUME Named PROVE Consents!Spec => Consents!DropsAreRefusals  OBVIOUS
  <1> DEFINE Justified(p) ==
               \/ consent'[p] \in {"DENIED", "none"}
               \/ \E s \in Session : work[s].op = "send" /\ work[s].who = p /\ work[s].said = "ALLOWED"
             Drops == misled' \cap {"check"} = {} =>
               \A p \in Player : waiting[p] /\ ~waiting'[p] /\ consent[p] # "none" => Justified(p)
  <1>1. CheckInv /\ [Consents!Next]_(Consents!vars) => [Drops]_(Consents!vars)
    <2> SUFFICES ASSUME CheckInv, Consents!Next, misled' \cap {"check"} = {},
                        NEW p \in Player, waiting[p], ~waiting'[p]
                 PROVE  Justified(p)
      BY DEF Consents!vars
    <2>0. ConsentTypes  BY DEF CheckInv
    <2>1. ASSUME NEW q \in Player, NEW old \in States, NEW new \in Replied,
                 Consents!Apply(q, old, new), old = consent[q] \/ (old # "DENIED" /\ old # "ALLOWED")
          PROVE  Justified(p)
      <3>1. q = p /\ new = "DENIED"  BY <2>0, <2>1 DEF Consents!Apply, ConsentTypes, Replied
      <3>2. consent'[p] = "DENIED"
        BY <2>0, <2>1, <3>1 DEF Consents!Apply, ConsentTypes
      <3> QED  BY <3>2
    <2>2. CASE Consents!Sweep
      <3>1. Consents!EndSweep /\ UNCHANGED <<agreed, journal>>
        BY <2>2 DEF Consents!Sweep, Consents!BeginSweep, Consents!AskNext, Consents!EndSweep,
           Consents!tableVars, Consents!vkVars
      <3> DEFINE told == {a[1] : a \in sweep.said}
                 allows(q) == <<q, "ALLOWED">> \in sweep.said
      <3>2. /\ consent' = [q \in Player |->
                 IF q \notin told THEN consent[q] ELSE IF allows(q) THEN "ALLOWED" ELSE "DENIED"]
            /\ waiting' = [q \in Player |-> waiting[q] /\ (q \in told => allows(q))]
        BY <3>1 DEF Consents!EndSweep
      <3> HIDE DEF told, allows
      <3>3. consent'[p] = "DENIED"  BY <3>2
      <3> QED  BY <3>3
    <2>3. ASSUME NEW e \in wire, Consents!Callback(e) PROVE Justified(p)
      <3>1. Consents!HandleSignal(e)
        BY <2>3 DEF Consents!Callback, Consents!Repeated, Consents!LoseEvent, Consents!BeginMessage,
           Consents!tableVars
      <3> DEFINE new == IF e.kind = "allow" THEN "ALLOWED" ELSE "DENIED"
      <3>2. e.who \in Player /\ consent[e.who] \in States /\ new \in Replied
        BY <2>0 DEF ConsentTypes, Consents!Event, Replied
      <3>3. Consents!Apply(e.who, consent[e.who], new)  BY <3>1 DEF Consents!HandleSignal
      <3> HIDE DEF new
      <3> QED  BY <2>1, <3>2, <3>3
    <2>4. ASSUME NEW q \in Player, Consents!PlayerStep(q) PROVE Justified(p)
      <3>1. Consents!DeletePlayer(q)
        BY <2>0, <2>4 DEF Consents!PlayerStep, Consents!Toggle, Consents!Write, Consents!Elapse,
           Consents!Enqueue, Consents!tableVars, ConsentTypes
      <3>2. q = p /\ consent'[p] = "none"
        BY <2>0, <3>1 DEF Consents!DeletePlayer, ConsentTypes
      <3> QED  BY <3>2
    <2>5. ASSUME NEW s \in Session, Consents!SessionStep(s) PROVE Justified(p)
      <3> DEFINE q == work[s].who
      <3>1. Consents!EndCheck(s) \/ Consents!EndSend(s)
        BY <2>5 DEF Consents!SessionStep, Consents!BeginSend, Consents!BeginCheck, Consents!Heard,
           Consents!EndMessage, Consents!Break, Consents!tableVars
      <3>2. work[s] \in Asking /\ q \in Player /\ work[s].said \in Replied
        BY <2>0, <3>1 DEF ConsentTypes, CheckInv, IdleIsNobodys, Asking, Reading, Replied,
           Consents!EndCheck, Consents!EndSend
      <3>3. CASE Consents!EndCheck(s)
        <4>1. ~work[s].moved
          BY <3>2, <3>3 DEF Consents!EndCheck, Consents!Misleads, Asking
        <4>2. work[s].seen = consent[q]
          BY <3>3, <4>1 DEF CheckInv, ChecksStand, Consents!EndCheck
        <4> DEFINE old == IF work[s].seen = "none" THEN "UNKNOWN" ELSE work[s].seen
        <4>3. Consents!Apply(q, old, work[s].said)  BY <3>3 DEF Consents!EndCheck
        <4>4. old \in States /\ (old = consent[q] \/ old = "UNKNOWN")
          BY <3>2, <4>2 DEF Asking, States
        <4> HIDE DEF old
        <4> QED  BY <2>1, <3>2, <4>3, <4>4
      <3>4. CASE Consents!EndSend(s)
        <4>1. CASE work[s].said = "ALLOWED"
          <5>1. q = p  BY <2>0, <3>2, <3>4, <4>1 DEF Consents!EndSend, ConsentTypes
          <5> QED  BY <3>4, <4>1, <5>1 DEF Consents!EndSend
        <4>2. CASE work[s].said = "DENIED"
          <5>1. Consents!Apply(q, consent[q], "DENIED") /\ consent[q] \in States
            BY <2>0, <3>2, <3>4, <4>2 DEF Consents!EndSend, ConsentTypes
          <5> QED  BY <2>1, <3>2, <5>1 DEF Replied
        <4> QED  BY <3>2, <4>1, <4>2 DEF Replied
      <3> QED  BY <3>1, <3>3, <3>4
    <2> QED  BY <2>2, <2>3, <2>4, <2>5 DEF Consents!Next
  <1>2. Consents!DropsAreRefusals <=> [][Drops]_(Consents!vars)
    BY DEF Consents!DropsAreRefusals
  <1> HIDE DEF Drops
  <1> QED  BY <1>1, <1>2, CheckInvariant, PTL DEF Consents!Spec


-----------------------------------------------------------------------------
(* The events: one of each number, and an open message is still undecided. *)
Known == wire \cup journal
EventsAreOnce ==
  \A e \in Known : e.id <= made /\ \A f \in Known : e.id = f.id => e = f
MessagesAreOpen ==
  \A s \in Session : work[s].op = "message" =>
    /\ work[s].event \in wire /\ work[s].event \notin journal
    /\ work[s].event.who = work[s].who /\ work[s].event.kind \notin Consents!Signal
    /\ \A t \in Session : work[t].op = "message" /\ work[t].event = work[s].event => t = s
RepliesAreJournalled ==
  \A r \in replies : r.to \in journal /\ r.to.kind \notin Consents!Signal

(* What the last signal of a player says is what the player wants, and a   *)
(* known consent says so too unless a signal is still to be handled.       *)
Clean == misled \cap {"check", "order", "lost"} = {}
SignalOf(e, p) == e.who = p /\ e.kind \in Consents!Signal
NewestSays ==
  Clean => \A p \in Player, e \in Known :
    SignalOf(e, p) /\ (\A f \in Known : SignalOf(f, p) => f.id <= e.id) =>
      (e.kind = "allow" <=> agreed[p])
Late(p) == \E e \in wire : e \notin journal /\ SignalOf(e, p)
AgreesOrLate ==
  Clean => \A p \in Player : consent[p] \in Replied => consent[p] = Consents!State(p) \/ Late(p)

RestTypes ==
  /\ replies \subseteq [to : Consents!Event, says : {"start", "command", "plate"}]
  /\ misled \subseteq {"check", "order", "lost", "greeting"} /\ faults \in 0..MaxFaults

EventInv ==
  /\ RestTypes /\ EventsAreOnce /\ MessagesAreOpen /\ RepliesAreJournalled
  /\ NewestSays /\ AgreesOrLate /\ Consents!OneAnswer

(* Open messages are those from before, or fewer.                          *)
MessagesKept ==
  \A s \in Session : work'[s].op = "message" =>
    work[s].op = "message" /\ work'[s].event = work[s].event /\ work'[s].who = work[s].who

LEMMA MarkKeeps ==
  ASSUME NEW s \in Session, Marked(work[s], work'[s]), work'[s].op = "message"
  PROVE  work[s].op = "message" /\ work'[s].event = work[s].event /\ work'[s].who = work[s].who
  <1>1. Same(work[s], work'[s]) /\ Keeps(work[s], work'[s])  BY DEF Marked
  <1>2. work[s].op = "message" /\ work'[s].who = work[s].who  BY <1>1 DEF Same
  <1> QED  BY <1>1, <1>2 DEF Keeps

LEMMA EventInit == Named /\ Consents!Init => EventInv
  <1> SUFFICES ASSUME Named, Consents!Init PROVE EventInv  OBVIOUS
  <1>1. wire = {} /\ journal = {} /\ replies = {} /\ misled = {} /\ faults = MaxFaults
    BY DEF Consents!Init
  <1>2. \A s \in Session : work[s].op = "idle"  BY DEF Consents!Init, Consents!Idle
  <1>3. \A p \in Player : consent[p] \notin Replied  BY DEF Consents!Init, Replied
  <1>4. RestTypes  BY <1>1 DEF RestTypes, Named
  <1>5. EventsAreOnce /\ RepliesAreJournalled /\ NewestSays
    BY <1>1 DEF EventsAreOnce, RepliesAreJournalled, NewestSays, Known
  <1>6. MessagesAreOpen  BY <1>2 DEF MessagesAreOpen
  <1>7. AgreesOrLate  BY <1>3 DEF AgreesOrLate
  <1>8. Consents!OneAnswer  BY <1>1 DEF Consents!OneAnswer
  <1> QED  BY <1>4, <1>5, <1>6, <1>7, <1>8 DEF EventInv

(* A step that makes and handles no event, and writes what is so.          *)
LEMMA EventFrame ==
  ASSUME EventInv, UNCHANGED <<agreed, wire, made, journal, replies>>, MessagesKept,
         faults' \in 0..MaxFaults, misled' \in {misled, misled \cup {"check"}},
         Clean' => \A p \in Player : consent'[p] \in Replied =>
                     consent'[p] = consent[p] \/ consent'[p] = Consents!State(p)
  PROVE  EventInv'
  <1> USE DEF EventInv
  <1>1. RestTypes'  BY DEF RestTypes
  <1>2. EventsAreOnce' /\ RepliesAreJournalled'
    BY DEF EventsAreOnce, RepliesAreJournalled, Known
  <1>3. MessagesAreOpen'  BY DEF MessagesAreOpen, MessagesKept
  <1>4. Clean' => Clean  BY DEF Clean
  <1>5. NewestSays'  BY <1>4 DEF NewestSays, Known, SignalOf
  <1>6. AgreesOrLate'
    <2>1. \A p \in Player : Consents!State(p)' = Consents!State(p)  BY DEF Consents!State
    <2>2. \A p \in Player : Late(p)' <=> Late(p)  BY DEF Late, SignalOf
    <2> QED  BY <1>4, <2>1, <2>2 DEF AgreesOrLate
  <1>7. "greeting" \notin misled' => "greeting" \notin misled  OBVIOUS
  <1>8. Consents!OneAnswer'  BY <1>7 DEF Consents!OneAnswer
  <1> QED  BY <1>1, <1>2, <1>3, <1>5, <1>6, <1>8

(* A fault is one of those there are.                                      *)
LEMMA FaultIsCounted ==
  ASSUME Named, RestTypes, UNCHANGED faults \/ Consents!Fault
  PROVE  faults' \in 0..MaxFaults
  BY DEF Named, RestTypes, Consents!Fault

(* Players and VK: a new event is newer than all the others.               *)
LEMMA EventPlayerStep ==
  ASSUME Named, CheckInv, EventInv, NEW p \in Player, Consents!PlayerStep(p)
  PROVE  EventInv'
  <1>0. ConsentTypes /\ RestTypes  BY DEF CheckInv, EventInv
  <1>1. ASSUME NEW kind \in {"allow", "deny", "command", "text"},
               NEW n \in [id : {made + 1}, kind : {kind}, who : {p}],
               wire' = wire \cup {n}, made' = made + 1, made + 1 \in 1..MaxEvents,
               UNCHANGED <<consent, journal, replies, misled, faults>>, MessagesKept,
               \A q \in Player \ {p} : agreed'[q] = agreed[q],
               IF kind \in Consents!Signal THEN agreed'[p] = (kind = "allow")
               ELSE agreed'[p] = agreed[p]
        PROVE  EventInv'
    <2> USE DEF EventInv
    <2>1. n.id = made + 1 /\ n.kind = kind /\ n.who = p /\ made \in Nat
      BY <1>0, <1>1 DEF ConsentTypes
    <2>2. \A e \in Known : e.id \in Nat /\ e.id <= made
      BY <1>0 DEF EventsAreOnce, Known, ConsentTypes, Consents!Event
    <2>3. n \notin Known /\ Known' = Known \cup {n}  BY <1>1, <2>1, <2>2 DEF Known
    <2>4. EventsAreOnce'
      <3>1. \A e \in Known' : e.id <= made'  BY <1>1, <2>1, <2>2, <2>3
      <3>2. \A e \in Known : e.id # n.id  BY <2>1, <2>2
      <3> QED  BY <2>3, <3>1, <3>2 DEF EventsAreOnce
    <2>5. RestTypes' /\ RepliesAreJournalled' /\ Consents!OneAnswer'
      BY <1>1 DEF RestTypes, RepliesAreJournalled, Consents!OneAnswer
    <2>6. MessagesAreOpen'  BY <1>1 DEF MessagesAreOpen, MessagesKept
    <2>7. Clean' <=> Clean  BY <1>1 DEF Clean
    <2>8. NewestSays'
      <3> SUFFICES ASSUME Clean, NEW q \in Player, NEW e \in Known', SignalOf(e, q),
                          \A f \in Known' : SignalOf(f, q) => f.id <= e.id
                   PROVE  e.kind = "allow" <=> agreed'[q]
        BY <2>7 DEF NewestSays, SignalOf
      <3>1. CASE e = n
        BY <1>1, <2>1, <3>1 DEF SignalOf
      <3>2. CASE e # n
        <4>1. e \in Known /\ ~SignalOf(n, q)  BY <2>1, <2>2, <2>3, <3>2
        <4>2. agreed'[q] = agreed[q]  BY <1>1, <2>1, <4>1 DEF SignalOf
        <4> QED  BY <2>3, <4>1, <4>2 DEF NewestSays
      <3> QED  BY <3>1, <3>2
    <2>9. AgreesOrLate'
      <3> SUFFICES ASSUME Clean, NEW q \in Player, consent[q] \in Replied
                   PROVE  consent[q] = Consents!State(q)' \/ Late(q)'
        BY <1>1, <2>7 DEF AgreesOrLate
      <3>1. Late(q) => Late(q)'  BY <1>1 DEF Late, SignalOf
      <3>2. CASE agreed'[q] = agreed[q]
        BY <3>1, <3>2 DEF AgreesOrLate, Consents!State
      <3>3. CASE agreed'[q] # agreed[q]
        <4>1. SignalOf(n, q)' /\ n \in wire' /\ n \notin journal'
          BY <1>1, <2>1, <2>3, <3>3 DEF SignalOf, Known
        <4> QED  BY <4>1 DEF Late
      <3> QED  BY <3>2, <3>3
    <2> QED  BY <2>4, <2>5, <2>6, <2>8, <2>9
  <1>2. CASE Consents!Toggle(p)
    <2> DEFINE kind == IF agreed[p] THEN "deny" ELSE "allow"
               n == [id |-> made + 1, kind |-> kind, who |-> p]
    <2>1. /\ wire' = wire \cup {n} /\ made' = made + 1 /\ made < MaxEvents
          /\ UNCHANGED <<consent, journal, replies, misled, faults>> /\ Consents!Outdate(p)
          /\ agreed' = [agreed EXCEPT ![p] = ~@]
      BY <1>2 DEF Consents!Toggle, Consents!tableVars
    <2>2. kind \in {"allow", "deny"} /\ n \in [id : {made + 1}, kind : {kind}, who : {p}]
      OBVIOUS
    <2>3. agreed'[p] = (kind = "allow") /\ \A q \in Player \ {p} : agreed'[q] = agreed[q]
      BY <1>0, <2>1 DEF ConsentTypes
    <2>4. made + 1 \in 1..MaxEvents  BY <1>0, <2>1 DEF ConsentTypes, Named
    <2>5. MessagesKept
      <3>1. \A s \in Session : Marked(work[s], work'[s])  BY <1>0, <2>1, OutdateMarks
      <3> QED  BY <3>1, MarkKeeps DEF MessagesKept
    <2> HIDE DEF kind, n
    <2> QED  BY <1>1, <2>1, <2>2, <2>3, <2>4, <2>5 DEF Consents!Signal
  <1>3. ASSUME NEW kind \in {"command", "text"}, Consents!Write(p, kind) PROVE EventInv'
    <2> DEFINE n == [id |-> made + 1, kind |-> kind, who |-> p]
    <2>1. /\ wire' = wire \cup {n} /\ made' = made + 1 /\ made < MaxEvents
          /\ UNCHANGED <<agreed, consent, journal, replies, work, misled, faults>>
      BY <1>3 DEF Consents!Write, Consents!tableVars
    <2>2. n \in [id : {made + 1}, kind : {kind}, who : {p}]  OBVIOUS
    <2>3. made + 1 \in 1..MaxEvents  BY <1>0, <2>1 DEF ConsentTypes, Named
    <2>4. MessagesKept  BY <2>1 DEF MessagesKept
    <2> HIDE DEF n
    <2> QED  BY <1>1, <2>1, <2>2, <2>3, <2>4 DEF Consents!Signal
  <1>4. CASE Consents!Elapse(p) \/ Consents!Enqueue(p)
    <2>1. UNCHANGED <<agreed, wire, made, consent, journal, replies, work, misled, faults>>
      BY <1>4 DEF Consents!Elapse, Consents!Enqueue, Consents!vkVars
    <2> QED  BY <1>0, <2>1, EventFrame DEF MessagesKept, RestTypes
  <1>5. CASE Consents!DeletePlayer(p)
    <2>1. /\ UNCHANGED <<agreed, wire, made, journal, replies, work, misled>> /\ Consents!Fault
          /\ consent' = [consent EXCEPT ![p] = "none"]
      BY <1>5 DEF Consents!DeletePlayer, Consents!vkVars
    <2>2. faults' \in 0..MaxFaults  BY <1>0, <2>1, FaultIsCounted
    <2>3. \A q \in Player : consent'[q] \in Replied => consent'[q] = consent[q]
      BY <1>0, <2>1 DEF ConsentTypes, Replied
    <2> QED  BY <2>1, <2>2, <2>3, EventFrame DEF MessagesKept
  <1> QED  BY <1>2, <1>3, <1>4, <1>5 DEF Consents!PlayerStep

(* The events there are stay as they are, one of them handled or forgotten.*)
LEMMA EventsStay ==
  ASSUME EventInv, NEW e \in wire, wire' \in {wire, wire \ {e}}, UNCHANGED made,
         journal' \in {journal, journal \cup {e}}
  PROVE  /\ EventsAreOnce' /\ Known' \subseteq Known
         /\ journal' = journal \cup {e} \/ wire' = wire \/ e \in journal => Known' = Known
  BY DEF EventInv, EventsAreOnce, Known

(* The callback: a signal is the newest when none is left to be handled.   *)
LEMMA EventCallback ==
  ASSUME Named, CheckInv, EventInv, NEW e \in wire, Consents!Callback(e)
  PROVE  EventInv'
  <1>0. ConsentTypes /\ RestTypes /\ e \in Consents!Event /\ e.who \in Player
    BY DEF CheckInv, EventInv, ConsentTypes, Consents!Event
  <1>1. CASE Consents!Repeated(e)
    <2>1. /\ UNCHANGED <<agreed, made, consent, journal, replies, work, misled, faults>>
          /\ wire' = wire \ {e} /\ \E f \in journal : f.id = e.id
      BY <1>1 DEF Consents!Repeated, Consents!Handled, Consents!tableVars
    <2>2. e \in journal  BY <2>1 DEF EventInv, EventsAreOnce, Known
    <2>3. EventsAreOnce' /\ Known' = Known  BY <2>1, <2>2, EventsStay
    <2>4. RestTypes' /\ RepliesAreJournalled' /\ Consents!OneAnswer'
      BY <2>1 DEF EventInv, RestTypes, RepliesAreJournalled, Consents!OneAnswer
    <2>5. MessagesAreOpen'  BY <2>1, <2>2 DEF EventInv, MessagesAreOpen
    <2>6. NewestSays'  BY <2>1, <2>3 DEF EventInv, NewestSays, Clean, SignalOf
    <2>7. AgreesOrLate'
      <3>1. \A p \in Player : Late(p) => Late(p)'  BY <2>1, <2>2 DEF Late, SignalOf
      <3>2. \A p \in Player : Consents!State(p)' = Consents!State(p)
        BY <2>1 DEF Consents!State
      <3> QED  BY <2>1, <3>1, <3>2 DEF EventInv, AgreesOrLate, Clean
    <2> QED  BY <2>3, <2>4, <2>5, <2>6, <2>7 DEF EventInv
  <1>2. CASE Consents!LoseEvent(e)
    <2>1. /\ UNCHANGED <<agreed, made, consent, journal, replies, work>> /\ Consents!Fault
          /\ wire' = wire \ {e} /\ misled' = misled \cup {"lost"}
          /\ \A t \in Session : work[t].op = "message" => work[t].event # e
      BY <1>2 DEF Consents!LoseEvent, Consents!tableVars
    <2>2. EventsAreOnce'  BY <2>1, EventsStay
    <2>3. faults' \in 0..MaxFaults  BY <1>0, <2>1, FaultIsCounted
    <2>4. RestTypes'  BY <1>0, <2>1, <2>3 DEF RestTypes
    <2>5. RepliesAreJournalled' /\ Consents!OneAnswer'
      BY <2>1 DEF EventInv, RepliesAreJournalled, Consents!OneAnswer
    <2>6. MessagesAreOpen'  BY <2>1 DEF EventInv, MessagesAreOpen
    <2>7. ~Clean'  BY <2>1 DEF Clean
    <2> QED  BY <2>2, <2>4, <2>5, <2>6, <2>7 DEF EventInv, NewestSays, AgreesOrLate
  <1>3. ASSUME NEW s \in Session, Consents!BeginMessage(s, e) PROVE EventInv'
    <2> DEFINE r == [op |-> "message", who |-> e.who, seen |-> consent[e.who], said |-> "?",
                     moved |-> FALSE, event |-> e,
                     first |-> \A f \in journal : f.kind \in Consents!Signal \/ f.who # e.who]
    <2>1. /\ work' = [work EXCEPT ![s] = r] /\ e.kind \notin Consents!Signal
          /\ ~Consents!Handled(e)
          /\ \A t \in Session : work[t].op = "message" => work[t].event # e
          /\ UNCHANGED <<agreed, wire, made, consent, journal, replies, misled, faults>>
      BY <1>3 DEF Consents!BeginMessage, Consents!vkVars, Consents!tableVars
    <2>2. r.op = "message" /\ r.who = e.who /\ r.event = e  OBVIOUS
    <2> HIDE DEF r
    <2>3. work'[s] = r /\ \A t \in Session \ {s} : work'[t] = work[t]
      BY <1>0, <2>1 DEF ConsentTypes
    <2>4. e \notin journal  BY <2>1 DEF Consents!Handled
    <2>5. MessagesAreOpen'
      <3> SUFFICES ASSUME NEW t \in Session, work'[t].op = "message"
                   PROVE  /\ work'[t].event \in wire /\ work'[t].event \notin journal
                          /\ work'[t].event.who = work'[t].who
                          /\ work'[t].event.kind \notin Consents!Signal
                          /\ \A u \in Session : work'[u].op = "message"
                                              /\ work'[u].event = work'[t].event => u = t
        BY <2>1 DEF MessagesAreOpen, Consents!Signal
      <3>1. CASE t = s  BY <2>1, <2>2, <2>3, <2>4, <3>1
      <3>2. CASE t # s  BY <2>1, <2>2, <2>3, <3>2 DEF EventInv, MessagesAreOpen
      <3> QED  BY <3>1, <3>2
    <2>6. /\ RestTypes' /\ EventsAreOnce' /\ RepliesAreJournalled' /\ Consents!OneAnswer'
          /\ NewestSays'
      BY <2>1 DEF EventInv, RestTypes, EventsAreOnce, RepliesAreJournalled, Consents!OneAnswer,
         NewestSays, Clean, Known, SignalOf
    <2>7. AgreesOrLate'
      BY <2>1 DEF EventInv, AgreesOrLate, Clean, Late, SignalOf, Consents!State
    <2> QED  BY <2>5, <2>6, <2>7 DEF EventInv
  <1>4. CASE Consents!HandleSignal(e)
    <2> DEFINE p == e.who
               new == IF e.kind = "allow" THEN "ALLOWED" ELSE "DENIED"
    <2>1. /\ e.kind \in Consents!Signal /\ ~Consents!Handled(e)
          /\ Consents!Apply(p, consent[p], new) /\ Consents!Finish(0, p)
          /\ journal' = journal \cup {e} /\ wire' \in {wire, wire \ {e}}
          /\ misled' = IF \E f \in journal : f.kind \in Consents!Signal /\ f.who = p /\ f.id > e.id
                       THEN misled \cup {"order"} ELSE misled
          /\ UNCHANGED <<agreed, made, replies, faults>>
      BY <1>4 DEF Consents!HandleSignal, Consents!Acked
    <2>2. 0 \in Session \cup {0} /\ p \in Player  BY <1>0
    <2>3. \A q \in Player \ {p} : consent'[q] = consent[q]
      BY <1>0, <2>1 DEF Consents!Apply, ConsentTypes
    <2>4. consent'[p] = new  BY <1>0, <2>1 DEF Consents!Apply, ConsentTypes
    <2>5. MessagesKept
      <3>1. \A s \in Session : Marked(work[s], work'[s])
        BY <1>0, <2>1, <2>2, FinishMarks DEF Named
      <3> QED  BY <3>1, MarkKeeps DEF MessagesKept
    <2>6. EventsAreOnce' /\ Known' = Known  BY <2>1, EventsStay
    <2>7. RestTypes' /\ RepliesAreJournalled'
      BY <2>1 DEF EventInv, RestTypes, RepliesAreJournalled
    <2>8. Consents!OneAnswer'
      <3>1. "greeting" \in misled' <=> "greeting" \in misled  BY <2>1
      <3> QED  BY <2>1, <3>1 DEF EventInv, Consents!OneAnswer
    <2>9. MessagesAreOpen'  BY <2>1, <2>5 DEF EventInv, MessagesAreOpen, MessagesKept
    <2>10. Clean' => Clean /\ \A f \in journal : SignalOf(f, p) => ~(f.id > e.id)
      BY <2>1 DEF Clean, SignalOf
    <2>11. NewestSays'  BY <2>1, <2>6, <2>10 DEF EventInv, NewestSays, SignalOf
    <2>12. AgreesOrLate'
      <3> SUFFICES ASSUME Clean', NEW q \in Player, consent'[q] \in Replied, ~Late(q)'
                   PROVE  consent'[q] = Consents!State(q)
        BY <2>1 DEF AgreesOrLate, Consents!State
      <3>1. CASE q # p
        <4>1. ~Late(q)  BY <2>1, <3>1 DEF Late, SignalOf
        <4> QED  BY <2>3, <2>10, <3>1, <4>1 DEF EventInv, AgreesOrLate
      <3>2. CASE q = p
        <4>1. \A f \in Known : SignalOf(f, p) => f \in journal'
          <5> SUFFICES ASSUME NEW f \in Known, SignalOf(f, p), f \notin journal' PROVE FALSE
            OBVIOUS
          <5>1. f \in wire' /\ f # e  BY <2>1 DEF Known
          <5> QED  BY <3>2, <5>1 DEF Late, SignalOf
        <4>2. \A f \in Known : f.id \in Nat
          BY <1>0 DEF Known, ConsentTypes, Consents!Event
        <4>3. \A f \in Known : SignalOf(f, p) => f.id <= e.id
          BY <2>1, <2>10, <4>1, <4>2 DEF Known
        <4>4. SignalOf(e, p) /\ e \in Known  BY <2>1 DEF SignalOf, Known
        <4>5. e.kind = "allow" <=> agreed[p]
          BY <2>2, <2>10, <4>3, <4>4 DEF EventInv, NewestSays
        <4> QED  BY <2>4, <3>2, <4>5 DEF Consents!State
      <3> QED  BY <3>1, <3>2
    <2> QED  BY <2>6, <2>7, <2>8, <2>9, <2>11, <2>12 DEF EventInv
  <1> QED  BY <1>1, <1>2, <1>3, <1>4 DEF Consents!Callback

(* The sessions: an answer that was not outdated is what the player wants, *)
(* and a message is answered when it is journalled.                        *)
LEMMA EventSessionStep ==
  ASSUME Named, CheckInv, EventInv, NEW s \in Session, Consents!SessionStep(s)
  PROVE  EventInv'
  <1>0. ConsentTypes /\ RestTypes /\ work[s] \in Asking \cup Reading
    BY DEF CheckInv, EventInv, ConsentTypes
  <1>1. ASSUME NEW r, work' = [work EXCEPT ![s] = r], r.op # "message",
               UNCHANGED <<agreed, wire, made, consent, journal, replies, misled>>,
               UNCHANGED faults \/ Consents!Fault
        PROVE  EventInv'
    <2>1. work'[s] = r /\ \A t \in Session \ {s} : work'[t] = work[t]
      BY <1>0, <1>1 DEF ConsentTypes
    <2>2. MessagesKept  BY <1>1, <2>1 DEF MessagesKept
    <2>3. faults' \in 0..MaxFaults  BY <1>0, <1>1, FaultIsCounted
    <2> QED  BY <1>1, <2>2, <2>3, EventFrame
  <1>2. ASSUME NEW p \in Player, Consents!BeginSend(s, p) PROVE EventInv'
    <2> DEFINE r == [Consents!Idle EXCEPT !.op = "send", !.who = p, !.seen = "ALLOWED"]
    <2>1. r.op # "message"  BY DEF Consents!Idle
    <2>2. /\ work' = [work EXCEPT ![s] = r]
          /\ UNCHANGED <<agreed, wire, made, consent, journal, replies, misled, faults>>
      BY <1>2 DEF Consents!BeginSend, Consents!vkVars, Consents!tableVars
    <2> HIDE DEF r
    <2> QED  BY <1>1, <2>1, <2>2
  <1>3. ASSUME NEW p \in Player, NEW op \in {"sync", "register"}, Consents!BeginCheck(s, p, op)
        PROVE  EventInv'
    <2> DEFINE r == [Consents!Idle EXCEPT !.op = op, !.who = p, !.seen = consent[p]]
    <2>1. r.op # "message"  BY DEF Consents!Idle
    <2>2. /\ work' = [work EXCEPT ![s] = r]
          /\ UNCHANGED <<agreed, wire, made, consent, journal, replies, misled, faults>>
      BY <1>3 DEF Consents!BeginCheck, Consents!vkVars, Consents!tableVars
    <2> HIDE DEF r
    <2> QED  BY <1>1, <2>1, <2>2
  <1>4. CASE Consents!Heard(s)
    <2> DEFINE r == [work[s] EXCEPT !.said = Consents!State(work[s].who)]
    <2>1. /\ work' = [work EXCEPT ![s] = r] /\ work[s].op \in {"sync", "register", "send"}
          /\ UNCHANGED <<agreed, wire, made, consent, journal, replies, misled, faults>>
      BY <1>4 DEF Consents!Heard, Consents!vkVars, Consents!tableVars
    <2>2. work[s] \in Asking  BY <1>0, <2>1 DEF Reading
    <2>3. r.op # "message"  BY <2>1, <2>2 DEF Asking
    <2> HIDE DEF r
    <2> QED  BY <1>1, <2>1, <2>3
  <1>5. CASE Consents!Break(s)
    <2>1. /\ work' = [work EXCEPT ![s] = Consents!Idle] /\ Consents!Fault
          /\ UNCHANGED <<agreed, wire, made, consent, journal, replies, misled>>
      BY <1>5 DEF Consents!Break, Consents!vkVars, Consents!tableVars
    <2>2. Consents!Idle.op # "message"  BY DEF Consents!Idle
    <2> QED  BY <1>1, <2>1, <2>2
  <1>6. CASE Consents!EndCheck(s) \/ Consents!EndSend(s)
    <2> DEFINE p == work[s].who
    <2>1. /\ work[s].op \in {"sync", "register", "send"} /\ work[s].said # "?"
          /\ Consents!Finish(s, p) /\ misled' \in {misled, misled \cup {"check"}}
          /\ UNCHANGED <<agreed, wire, made, journal, replies, faults>>
      BY <1>6 DEF Consents!EndCheck, Consents!EndSend, Consents!Misleads, Consents!vkVars
    <2>2. /\ p \in Player /\ work[s] \in Asking /\ work[s].said \in Replied
          /\ consent[p] \in States
      BY <1>0, <2>1 DEF CheckInv, IdleIsNobodys, Asking, Reading, Replied, ConsentTypes
    <2>3. MessagesKept
      <3>1. \A t \in Session \ {s} : Marked(work[t], work'[t])
        BY <1>0, <2>1, <2>2, FinishMarks
      <3>2. work'[s].op # "message"
        BY <1>0, <2>1, <2>2, FinishMarks DEF Consents!Idle
      <3> QED  BY <3>1, <3>2, MarkKeeps DEF MessagesKept
    <2>4. ASSUME Clean', Consents!EndCheck(s)
          PROVE  \A q \in Player : consent'[q] = consent[q] \/ consent'[q] = Consents!State(q)
      <3>1. ~work[s].moved
        BY <2>2, <2>4 DEF Consents!EndCheck, Consents!Misleads, Clean, Asking
      <3>2. work[s].said = Consents!State(p)
        BY <2>1, <3>1 DEF CheckInv, ChecksStand
      <3>3. \A q \in Player : consent'[q] = consent[q] \/ (q = p /\ consent'[q] = work[s].said)
        BY <1>0, <2>2, <2>4 DEF Consents!EndCheck, Consents!Apply, ConsentTypes
      <3> QED  BY <3>2, <3>3
    <2>5. ASSUME Clean', Consents!EndSend(s)
          PROVE  \A q \in Player : consent'[q] = consent[q] \/ consent'[q] = Consents!State(q)
      <3>1. CASE work[s].said = "ALLOWED"
        BY <2>5, <3>1 DEF Consents!EndSend
      <3>2. CASE work[s].said = "DENIED"
        <4>1. ~work[s].moved
          BY <2>2, <2>5, <3>2 DEF Consents!EndSend, Consents!Misleads, Clean, Asking
        <4>2. work[s].said = Consents!State(p)
          BY <2>1, <4>1 DEF CheckInv, ChecksStand
        <4>3. \A q \in Player : consent'[q] = consent[q] \/ (q = p /\ consent'[q] = "DENIED")
          BY <1>0, <2>2, <2>5, <3>2 DEF Consents!EndSend, Consents!Apply, ConsentTypes
        <4> QED  BY <3>2, <4>2, <4>3
      <3> QED  BY <2>2, <3>1, <3>2 DEF Replied
    <2> HIDE DEF p
    <2> QED  BY <1>0, <1>6, <2>1, <2>3, <2>4, <2>5, EventFrame DEF RestTypes
  <1>7. CASE Consents!EndMessage(s)
    <2> DEFINE w == work[s]
               e == w.event
    <2>1. /\ w.op = "message" /\ journal' = journal \cup {e}
          /\ consent' = [consent EXCEPT ![w.who] = IF @ = "none" THEN "UNKNOWN" ELSE @]
          /\ replies' = IF Consents!Answer(w) = "nothing" THEN replies
                        ELSE replies \cup {[to |-> e, says |-> Consents!Answer(w)]}
          /\ misled' = IF w.first /\ \E f \in journal : f.kind \notin Consents!Signal /\ f.who = w.who
                       THEN misled \cup {"greeting"} ELSE misled
          /\ wire' \in {wire, wire \ {e}} /\ work' = [work EXCEPT ![s] = Consents!Idle]
          /\ UNCHANGED <<agreed, made, faults>>
      BY <1>7 DEF Consents!EndMessage, Consents!Acked
    <2>2. /\ w \in Reading /\ e \in Consents!Event /\ e \in wire /\ e \notin journal
          /\ e.who = w.who /\ e.kind \notin Consents!Signal
      BY <1>0, <2>1 DEF EventInv, MessagesAreOpen, Asking, Reading
    <2>3. EventsAreOnce' /\ Known' = Known  BY <2>1, <2>2, EventsStay
    <2>4. Consents!Answer(w) \in {"start", "command", "plate", "nothing"}
          /\ (Consents!Answer(w) = "start" => w.first)
      BY DEF Consents!Answer
    <2>5. \A r \in replies' : r \in replies \/ (r.to = e /\ r.says = Consents!Answer(w))
      BY <2>1
    <2>6. RestTypes'
      <3>1. replies' \subseteq [to : Consents!Event, says : {"start", "command", "plate"}]
        BY <1>0, <2>1, <2>2, <2>4 DEF RestTypes
      <3> QED  BY <1>0, <2>1, <3>1 DEF RestTypes
    <2>7. RepliesAreJournalled'
      BY <2>1, <2>2, <2>5 DEF EventInv, RepliesAreJournalled, Consents!Signal
    <2>8. MessagesAreOpen'
      <3>1. work'[s].op = "idle" /\ \A t \in Session \ {s} : work'[t] = work[t]
        BY <1>0, <2>1 DEF ConsentTypes, Consents!Idle
      <3>2. \A t \in Session \ {s} : work[t].op = "message" => work[t].event # e
        BY <2>1 DEF EventInv, MessagesAreOpen
      <3> HIDE DEF w, e
      <3> QED  BY <2>1, <3>1, <3>2 DEF EventInv, MessagesAreOpen
    <2>9. Clean' <=> Clean  BY <2>1 DEF Clean
    <2>10. NewestSays'  BY <2>1, <2>3, <2>9 DEF EventInv, NewestSays, SignalOf
    <2>11. AgreesOrLate'
      <3>1. \A p \in Player : consent'[p] \in Replied => consent'[p] = consent[p]
        BY <1>0, <2>1 DEF ConsentTypes, Replied
      <3>2. \A p \in Player : Late(p) => Late(p)'
        BY <2>1, <2>2 DEF Late, SignalOf
      <3>3. \A p \in Player : Consents!State(p)' = Consents!State(p)
        BY <2>1 DEF Consents!State
      <3> HIDE DEF w, e
      <3> QED  BY <2>9, <3>1, <3>2, <3>3 DEF EventInv, AgreesOrLate
    <2>12. Consents!OneAnswer'
      <3> HIDE DEF w, e
      <3>1. \A r \in replies : r.to # e  BY <2>2 DEF EventInv, RepliesAreJournalled
      <3>2. replies' \ replies \subseteq {[to |-> e, says |-> Consents!Answer(w)]}  BY <2>1
      <3>3. \A r1, r2 \in replies' : r1.to = r2.to => r1 = r2
        BY <2>5, <3>1, <3>2 DEF EventInv, Consents!OneAnswer
      <3>4. ASSUME "greeting" \notin misled', NEW r1 \in replies', NEW r2 \in replies',
                   r1.says = "start", r2.says = "start", r1.to.who = r2.to.who
            PROVE  r1 = r2
        <4>1. "greeting" \notin misled  BY <2>1, <3>4
        <4>2. Consents!Answer(w) = "start" =>
                \A r \in replies : r.to.who # w.who
          BY <2>1, <2>4, <3>4 DEF EventInv, RepliesAreJournalled
        <4>3. CASE r1 \in replies /\ r2 \in replies
          BY <3>4, <4>1, <4>3 DEF EventInv, Consents!OneAnswer
        <4>4. CASE r1 \notin replies \/ r2 \notin replies
          BY <2>2, <2>5, <3>2, <3>4, <4>2, <4>4
        <4> QED  BY <4>3, <4>4
      <3> QED  BY <3>3, <3>4 DEF Consents!OneAnswer
    <2> QED  BY <2>3, <2>6, <2>7, <2>8, <2>10, <2>11, <2>12 DEF EventInv
  <1> QED  BY <1>2, <1>3, <1>4, <1>5, <1>6, <1>7 DEF Consents!SessionStep


LEMMA EventSweep ==
  ASSUME Named, CheckInv, EventInv, Consents!Sweep
  PROVE  EventInv'
  <1>0. ConsentTypes /\ RestTypes  BY DEF CheckInv, EventInv
  <1>1. CASE Consents!BeginSweep \/ Consents!AskNext
    <2>1. /\ UNCHANGED <<agreed, wire, made, consent, journal, replies, work, misled>>
          /\ UNCHANGED faults \/ Consents!Fault
      BY <1>1 DEF Consents!BeginSweep, Consents!AskNext, Consents!vkVars, Consents!tableVars
    <2>2. faults' \in 0..MaxFaults  BY <1>0, <2>1, FaultIsCounted
    <2> QED  BY <2>1, <2>2, EventFrame DEF MessagesKept
  <1>2. CASE Consents!EndSweep
    <2> DEFINE told == {a[1] : a \in sweep.said}
               allows(p) == <<p, "ALLOWED">> \in sweep.said
    <2>1. UNCHANGED <<agreed, wire, made, journal, replies, faults>>
      BY <1>2 DEF Consents!EndSweep, Consents!vkVars
    <2>2. CASE UNCHANGED <<consent, work, misled>>
      BY <1>0, <2>1, <2>2, EventFrame DEF MessagesKept, RestTypes
    <2>3. CASE /\ consent' = [p \in Player |->
                    IF p \notin told THEN consent[p] ELSE IF allows(p) THEN "ALLOWED" ELSE "DENIED"]
               /\ work' = [s \in Session |->
                    [work[s] EXCEPT !.moved = @ \/ work[s].who \in told]]
               /\ Consents!Misleads(sweep.moved)
      <3>1. told \in SUBSET Player  BY <1>0 DEF ConsentTypes
      <3>2. Clean' => \A a \in sweep.said : a[2] = Consents!State(a[1])
        BY <1>0, <2>3 DEF Clean, Consents!Misleads, CheckInv, SweepStands, ConsentTypes
      <3>3. \A a \in sweep.said : a = <<a[1], a[2]>> /\ a[2] \in Replied
        BY <1>0 DEF ConsentTypes
      <3>4. Clean' => \A p \in told : IF allows(p) THEN Consents!State(p) = "ALLOWED"
                                      ELSE Consents!State(p) = "DENIED"
        BY <3>2, <3>3 DEF Replied
      <3> HIDE DEF told, allows
      <3>5. Clean' => \A p \in Player : consent'[p] = consent[p] \/ consent'[p] = Consents!State(p)
        BY <2>3, <3>4
      <3>6. MessagesKept
        <4>1. \A t \in Session : Marked(work[t], work'[t])
          BY <1>0, <2>3, <3>1, SweepMarks
        <4> QED  BY <4>1, MarkKeeps DEF MessagesKept
      <3>7. misled' \in {misled, misled \cup {"check"}}  BY <2>3 DEF Consents!Misleads
      <3> QED  BY <1>0, <2>1, <3>5, <3>6, <3>7, EventFrame DEF RestTypes
    <2> QED  BY <1>2, <2>2, <2>3 DEF Consents!EndSweep
  <1> QED  BY <1>1, <1>2 DEF Consents!Sweep

LEMMA EventStep == Named /\ CheckInv /\ EventInv /\ [Consents!Next]_(Consents!vars) => EventInv'
  <1> SUFFICES ASSUME Named, CheckInv, EventInv, [Consents!Next]_(Consents!vars)
               PROVE  EventInv'
    OBVIOUS
  <1>1. CASE UNCHANGED Consents!vars
    <2>1. UNCHANGED <<agreed, wire, made, consent, journal, replies, work, misled, faults>>
      BY <1>1 DEF Consents!vars, Consents!vkVars, Consents!tableVars
    <2> QED  BY <2>1, EventFrame DEF MessagesKept, EventInv, RestTypes
  <1> QED
    BY <1>1, EventPlayerStep, EventCallback, EventSessionStep, EventSweep DEF Consents!Next

(* The invariant of the callback's events (vk_callback): each is handled   *)
(* once, and the newest signal handled is the one the table tells.         *)
THEOREM EventInvariant == Named => (Consents!Spec => [](CheckInv /\ EventInv))
  <1> SUFFICES ASSUME Named PROVE Consents!Spec => [](CheckInv /\ EventInv)  OBVIOUS
  <1>1. Consents!Init => CheckInv /\ EventInv  BY CheckInit, EventInit
  <1>2. CheckInv /\ EventInv /\ [Consents!Next]_(Consents!vars) => (CheckInv /\ EventInv)'
    BY CheckStep, EventStep
  <1> QED  BY <1>1, <1>2, PTL DEF Consents!Spec

(* The callback keeps its state of the events and of the table apart, and  *)
(* still: a message is answered once, a player is greeted once, and with   *)
(* no outdated check, swapped signals or lost signal a known consent is    *)
(* what the player has last told VK.                                       *)
THEOREM ConsentIsTold ==
  Named => (Consents!Spec => [](/\ Consents!TypeOK /\ Consents!OneAnswer
                               /\ Consents!ConsentIsCurrent))
  <1> SUFFICES ASSUME Named
               PROVE  Consents!Spec => [](/\ Consents!TypeOK /\ Consents!OneAnswer
                                         /\ Consents!ConsentIsCurrent)
    OBVIOUS
  <1>1. CheckInv /\ EventInv => Consents!TypeOK
    BY DEF CheckInv, EventInv, ConsentTypes, RestTypes, States, Consents!TypeOK
  <1>2. EventInv => Consents!OneAnswer  BY DEF EventInv
  <1>3. EventInv => Consents!ConsentIsCurrent
    BY DEF EventInv, AgreesOrLate, Clean, Late, SignalOf, Replied, Consents!Settled,
       Consents!ConsentIsCurrent
  <1> QED  BY <1>1, <1>2, <1>3, EventInvariant, PTL

(* No plate goes out within the cooldown, whatever is handled together.    *)
THEOREM PlatesAreRare == Named => (Consents!Spec => Consents!PlateIsRare)
  <1> SUFFICES ASSUME Named PROVE Consents!Spec => Consents!PlateIsRare  OBVIOUS
  <1> DEFINE Rare == \A r \in replies' \ replies : r.says = "plate" => cooled[r.to.who]
  <1>1. CheckInv /\ EventInv /\ [Consents!Next]_(Consents!vars) => [Rare]_(Consents!vars)
    <2> SUFFICES ASSUME EventInv, Consents!Next, NEW r \in replies', r \notin replies,
                        r.says = "plate"
                 PROVE  cooled[r.to.who]
      BY DEF Consents!vars
    <2>1. PICK s \in Session : Consents!EndMessage(s)
      <3>1. ~Consents!Sweep
        BY DEF Consents!Sweep, Consents!BeginSweep, Consents!AskNext, Consents!EndSweep,
               Consents!tableVars
      <3>2. \A e \in wire : ~Consents!Callback(e)
        BY DEF Consents!Callback, Consents!Repeated, Consents!HandleSignal, Consents!LoseEvent,
               Consents!BeginMessage, Consents!tableVars
      <3>3. \A p \in Player : ~Consents!PlayerStep(p)
        BY DEF Consents!PlayerStep, Consents!Toggle, Consents!Write, Consents!Elapse,
               Consents!Enqueue, Consents!DeletePlayer, Consents!tableVars
      <3>4. PICK s \in Session : Consents!SessionStep(s)  BY <3>1, <3>2, <3>3 DEF Consents!Next
      <3> QED
        BY <3>4 DEF Consents!SessionStep, Consents!BeginSend, Consents!BeginCheck, Consents!Heard,
           Consents!EndCheck, Consents!EndSend, Consents!Break, Consents!tableVars
    <2> DEFINE w == work[s]
    <2>2. r.to = w.event /\ Consents!Answer(w) = "plate" /\ w.op = "message"
      BY <2>1 DEF Consents!EndMessage
    <2>3. w.event.who = w.who  BY <2>2 DEF EventInv, MessagesAreOpen
    <2>4. cooled[w.who]  BY <2>2 DEF Consents!Answer, Consents!PlateDue
    <2> QED  BY <2>2, <2>3, <2>4
  <1>2. Consents!PlateIsRare <=> [][Rare]_(Consents!vars)  BY DEF Consents!PlateIsRare
  <1> HIDE DEF Rare
  <1> QED  BY <1>1, <1>2, EventInvariant, PTL DEF Consents!Spec

(* The promise as a whole, for any number of sessions, players and events. *)
THEOREM PlayersHeard == Named => (Consents!Spec => Consents!PlayersAreHeard)
  <1> SUFFICES ASSUME Named PROVE Consents!Spec => Consents!PlayersAreHeard  OBVIOUS
  <1>1. Consents!Spec => []Consents!NothingForTheRefusing  BY RefusalsEmptyTheQueue
  <1>2. Consents!Spec => [](/\ Consents!TypeOK /\ Consents!OneAnswer
                           /\ Consents!ConsentIsCurrent)
    BY ConsentIsTold
  <1>3. Consents!Spec => Consents!DropsAreRefusals  BY QueuesFallToRefusals
  <1>4. Consents!Spec => Consents!PlateIsRare  BY PlatesAreRare
  <1> QED  BY <1>1, <1>2, <1>3, <1>4, PTL DEF Consents!PlayersAreHeard

-----------------------------------------------------------------------------
(***************************************************************************)
(* Profiles: while VK is asked, every row of the batch has its answer or   *)
(* stands in a list to ask about; a list that is refused is halved, and    *)
(* the halves hold what it has held.                                       *)
(***************************************************************************)
In(s)     == Profile!ToSet(s)
AllIn(ls) == UNION {In(ls[i]) : i \in 1..Len(ls)}
Kinds     == {"none", "PENDING", "OK", "UNAVAILABLE"}

ProfileTypes ==
  /\ present \subseteq Member
  /\ status \in [Member -> Kinds] /\ named \in [Member -> BOOLEAN]
  /\ batch \in Seq(Member) /\ lists \in Seq(Seq(Member)) /\ failed \in BOOLEAN
  /\ stage \in {"run", "asking", "applying", "asleep"}

(* Asking is over when no list is left; between the batches there is       *)
(* nothing left of the one before.                                         *)
NobodyIsLeftOut ==
  /\ stage = "asking" => ~failed /\ lists # <<>> /\ In(batch) = DOMAIN answers \cup AllIn(lists)
  /\ stage = "applying" => lists = <<>> /\ (failed \/ DOMAIN answers = In(batch))
  /\ stage \in {"run", "asleep"} =>
       ~failed /\ batch = <<>> /\ lists = <<>> /\ answers = <<>>

ProfileInv == ProfileTypes /\ NobodyIsLeftOut

LEMMA NothingIn == In(<<>>) = {} /\ AllIn(<<>>) = {}
  BY DEF In, AllIn, Profile!ToSet

LEMMA InOne == \A s : AllIn(<<s>>) = In(s)
  BY DEF AllIn

(* The list asked about is apart from the ones that wait.                  *)
LEMMA AllInHead ==
  ASSUME NEW S, NEW ls \in Seq(Seq(S)), ls # <<>>
  PROVE  /\ Head(ls) \in Seq(S) /\ Tail(ls) \in Seq(Seq(S))
         /\ AllIn(ls) = In(Head(ls)) \cup AllIn(Tail(ls))
  <1>1. /\ Head(ls) \in Seq(S) /\ Tail(ls) \in Seq(Seq(S)) /\ Len(Tail(ls)) = Len(ls) - 1
        /\ \A i \in 1..Len(Tail(ls)) : Tail(ls)[i] = ls[i + 1]
    BY HeadTailProperties
  <1>2. Len(ls) \in Nat \ {0}  BY EmptySeq
  <1>3. Head(ls) = ls[1]  OBVIOUS
  <1>4. \A i \in 1..Len(ls) : i = 1 \/ (i - 1 \in 1..Len(Tail(ls)) /\ Tail(ls)[i - 1] = ls[i])
    BY <1>1, <1>2
  <1>5. 1 \in 1..Len(ls)  BY <1>2
  <1>6. \A i \in 1..Len(Tail(ls)) : i + 1 \in 1..Len(ls)  BY <1>1, <1>2
  <1>7. ASSUME NEW x \in AllIn(ls) PROVE x \in In(Head(ls)) \cup AllIn(Tail(ls))
    <2>1. PICK i \in 1..Len(ls) : x \in In(ls[i])  BY DEF AllIn
    <2>2. CASE i = 1  BY <2>1, <2>2, <1>3
    <2>3. CASE i - 1 \in 1..Len(Tail(ls)) /\ Tail(ls)[i - 1] = ls[i]
      BY <2>1, <2>3 DEF AllIn
    <2> QED  BY <2>2, <2>3, <1>4
  <1>8. ASSUME NEW x \in AllIn(Tail(ls)) PROVE x \in AllIn(ls)
    <2>1. PICK i \in 1..Len(Tail(ls)) : x \in In(Tail(ls)[i])  BY DEF AllIn
    <2>2. i + 1 \in 1..Len(ls) /\ x \in In(ls[i + 1])  BY <2>1, <1>1, <1>6
    <2> QED  BY <2>2 DEF AllIn
  <1>9. In(Head(ls)) \subseteq AllIn(ls)  BY <1>3, <1>5 DEF AllIn
  <1> QED  BY <1>1, <1>7, <1>8, <1>9

LEMMA AllInConcat ==
  ASSUME NEW S, NEW ls \in Seq(Seq(S)), NEW ms \in Seq(Seq(S))
  PROVE  ls \o ms \in Seq(Seq(S)) /\ AllIn(ls \o ms) = AllIn(ls) \cup AllIn(ms)
  <1>1. /\ ls \o ms \in Seq(Seq(S)) /\ Len(ls \o ms) = Len(ls) + Len(ms)
        /\ \A i \in 1..Len(ls) + Len(ms) :
             (ls \o ms)[i] = IF i <= Len(ls) THEN ls[i] ELSE ms[i - Len(ls)]
    BY ConcatProperties
  <1>2. Len(ls) \in Nat /\ Len(ms) \in Nat  BY LenProperties
  <1>3. ASSUME NEW x \in AllIn(ls \o ms) PROVE x \in AllIn(ls) \cup AllIn(ms)
    <2>1. PICK i \in 1..Len(ls) + Len(ms) : x \in In((ls \o ms)[i])  BY <1>1 DEF AllIn
    <2>2. CASE i <= Len(ls)
      <3>1. i \in 1..Len(ls) /\ (ls \o ms)[i] = ls[i]  BY <2>2, <1>1, <1>2
      <3> QED  BY <2>1, <3>1 DEF AllIn
    <2>3. CASE ~(i <= Len(ls))
      <3>1. i - Len(ls) \in 1..Len(ms) /\ (ls \o ms)[i] = ms[i - Len(ls)]
        BY <2>3, <1>1, <1>2
      <3> QED  BY <2>1, <3>1 DEF AllIn
    <2> QED  BY <2>2, <2>3
  <1>4. ASSUME NEW x \in AllIn(ls) PROVE x \in AllIn(ls \o ms)
    <2>1. PICK i \in 1..Len(ls) : x \in In(ls[i])  BY DEF AllIn
    <2>2. i \in 1..Len(ls \o ms) /\ (ls \o ms)[i] = ls[i]  BY <1>1, <1>2
    <2> QED  BY <2>1, <2>2 DEF AllIn
  <1>5. ASSUME NEW x \in AllIn(ms) PROVE x \in AllIn(ls \o ms)
    <2>1. PICK i \in 1..Len(ms) : x \in In(ms[i])  BY DEF AllIn
    <2>2. /\ i + Len(ls) \in 1..Len(ls) + Len(ms) /\ ~(i + Len(ls) <= Len(ls))
          /\ i + Len(ls) - Len(ls) = i
      BY <1>2
    <2>3. i + Len(ls) \in 1..Len(ls \o ms) /\ (ls \o ms)[i + Len(ls)] = ms[i]
      BY <2>2, <1>1
    <2> QED  BY <2>1, <2>3 DEF AllIn
  <1> QED  BY <1>1, <1>3, <1>4, <1>5

(* The halves of a list hold what it has held.                             *)
LEMMA HalvesHold ==
  ASSUME NEW S, NEW ids \in Seq(S)
  PROVE  Profile!Halves(ids) \in Seq(Seq(S)) /\ AllIn(Profile!Halves(ids)) = In(ids)
  <1> DEFINE m == Len(ids) \div 2
             a == SubSeq(ids, 1, m)
             b == SubSeq(ids, m + 1, Len(ids))
  <1>1. Len(ids) \in Nat /\ DOMAIN ids = 1..Len(ids) /\ \A i \in 1..Len(ids) : ids[i] \in S
    BY LenProperties, ElementOfSeq
  <1>2. m \in Nat /\ m <= Len(ids)  BY <1>1
  <1>3. /\ a \in Seq(S) /\ Len(a) = (IF 1 <= m THEN m - 1 + 1 ELSE 0)
        /\ \A i \in 1..m - 1 + 1 : a[i] = ids[1 + i - 1]
    <2>1. \A i \in 1..m : ids[i] \in S  BY <1>1, <1>2
    <2> HIDE DEF m
    <2> QED  BY <2>1, <1>2, SubSeqProperties
  <1>4. /\ b \in Seq(S)
        /\ Len(b) = (IF m + 1 <= Len(ids) THEN Len(ids) - (m + 1) + 1 ELSE 0)
        /\ \A i \in 1..Len(ids) - (m + 1) + 1 : b[i] = ids[m + 1 + i - 1]
    <2>1. \A i \in m + 1 .. Len(ids) : ids[i] \in S  BY <1>1, <1>2
    <2>2. m + 1 \in Int /\ Len(ids) \in Int  BY <1>1, <1>2
    <2> HIDE DEF m
    <2> QED  BY <2>1, <2>2, SubSeqProperties
  <1> HIDE DEF m
  <1>5. Len(a) = m /\ \A i \in 1..m : a[i] = ids[i]  BY <1>2, <1>3
  <1>6. Len(b) = Len(ids) - m /\ \A i \in 1..Len(ids) - m : b[i] = ids[m + i]
    <2>1. Len(b) = Len(ids) - m
      <3>1. \A k, n \in Nat : k <= n => (IF k + 1 <= n THEN n - (k + 1) + 1 ELSE 0) = n - k
        OBVIOUS
      <3>2. (IF m + 1 <= Len(ids) THEN Len(ids) - (m + 1) + 1 ELSE 0) = Len(ids) - m
        BY <3>1, <1>1, <1>2
      <3> QED  BY <3>2, <1>4
    <2>2. Len(ids) - (m + 1) + 1 = Len(ids) - m /\ \A i \in Nat : m + 1 + i - 1 = m + i
      BY <1>1, <1>2
    <2> HIDE DEF b
    <2> QED  BY <2>1, <2>2, <1>4
  <1>7. DOMAIN a = 1..m /\ DOMAIN b = 1..Len(ids) - m
    BY <1>3, <1>4, <1>5, <1>6, LenProperties
  <1>8. a \in Seq(S) /\ b \in Seq(S)  BY <1>3, <1>4
  <1> HIDE DEF a, b
  <1>9. Profile!Halves(ids) = <<a, b>>  BY DEF Profile!Halves, m, a, b
  <1>10. AllIn(<<a, b>>) = In(a) \cup In(b)
    <2>1. Len(<<a, b>>) = 2 /\ <<a, b>>[1] = a /\ <<a, b>>[2] = b  OBVIOUS
    <2>2. 1..2 = {1, 2}  OBVIOUS
    <2>3. AllIn(<<a, b>>) = UNION {In(<<a, b>>[i]) : i \in {1, 2}}  BY <2>1, <2>2 DEF AllIn
    <2> QED  BY <2>1, <2>3
  <1>11. \A i \in 1..m : i \in 1..Len(ids)  BY <1>1, <1>2
  <1>12. \A i \in 1..Len(ids) - m : m + i \in 1..Len(ids)  BY <1>1, <1>2
  <1>13. \A i \in 1..Len(ids) : i \in 1..m \/ (i - m \in 1..Len(ids) - m /\ m + (i - m) = i)
    BY <1>1, <1>2
  <1>14. In(a) = {a[i] : i \in 1..m} /\ In(b) = {b[i] : i \in 1..Len(ids) - m}
         /\ In(ids) = {ids[i] : i \in 1..Len(ids)}
    BY <1>1, <1>7 DEF In, Profile!ToSet
  <1>15. In(a) \subseteq In(ids)  BY <1>5, <1>11, <1>14
  <1>16. In(b) \subseteq In(ids)  BY <1>6, <1>12, <1>14
  <1>17. ASSUME NEW x \in In(ids) PROVE x \in In(a) \cup In(b)
    <2>1. PICK i \in 1..Len(ids) : x = ids[i]  BY <1>14
    <2>2. CASE i \in 1..m  BY <2>1, <2>2, <1>5, <1>14
    <2>3. CASE i - m \in 1..Len(ids) - m /\ m + (i - m) = i
      <3>1. b[i - m] = ids[m + (i - m)]  BY <2>3, <1>6
      <3>2. b[i - m] = x  BY <3>1, <2>1, <2>3
      <3> QED  BY <3>2, <2>3, <1>14
    <2> QED  BY <2>2, <2>3, <1>13
  <1>18. <<a, b>> \in Seq(Seq(S))  BY <1>8
  <1> QED  BY <1>9, <1>10, <1>15, <1>16, <1>17, <1>18

(* Named says what the consents need of the constants, Enough what the     *)
(* profiles need of them.                                                  *)
Enough == IsFiniteSet(Member) /\ BatchSize \in Nat \ {0}

LEMMA ProfileInit ==
  ASSUME Profile!Init
  PROVE  ProfileInv
<1>1. /\ present = {} /\ status = [p \in Member |-> "none"] /\ named = [p \in Member |-> FALSE]
      /\ stage = "run" /\ batch = <<>> /\ lists = <<>> /\ answers = <<>> /\ failed = FALSE
  BY DEF Profile!Init
<1>2. <<>> \in Seq(Member) /\ <<>> \in Seq(Seq(Member))  BY EmptySeq
<1>3. ProfileTypes  BY <1>1, <1>2 DEF ProfileTypes, Kinds
<1>4. NobodyIsLeftOut  BY <1>1 DEF NobodyIsLeftOut
<1> QED  BY <1>3, <1>4 DEF ProfileInv

(* The rows a cycle takes are a list of players.                           *)
LEMMA BatchIsAList ==
  ASSUME Enough, present \subseteq Member, NEW order \in Profile!SetToSeqs(Profile!Due)
  PROVE  SubSeq(order, 1, Profile!Min({BatchSize, Len(order)})) \in Seq(Member)
<1> DEFINE due0 == Profile!Due
           n == Cardinality(due0)
<1>1. due0 \subseteq Member  BY DEF Profile!Due
<1>2. n \in Nat  BY <1>1, FS_Subset, FS_CardinalityType DEF Enough
<1>3. Profile!Cardinality(due0) = n  BY DEF Profile!Cardinality, Cardinality
<1> HIDE DEF due0
<1>4. order \in [1..n -> due0]  BY <1>3 DEF Profile!SetToSeqs, due0
<1> HIDE DEF n
<1>5. order \in Seq(Member) /\ Len(order) = n
  <2>1. order \in [1..n -> Member]  BY <1>1, <1>4
  <2>2. order \in Seq(Member)  BY <1>2, <2>1, SeqDef
  <2> QED  BY <1>2, <2>1, <2>2, LenProperties
<1> DEFINE m == Profile!Min({BatchSize, Len(order)})
<1>6. m \in Int /\ m <= Len(order)
  <2>1. \E x \in {BatchSize, Len(order)} : \A y \in {BatchSize, Len(order)} : x <= y
    BY <1>2, <1>5 DEF Enough
  <2>2. m \in {BatchSize, Len(order)} /\ \A y \in {BatchSize, Len(order)} : m <= y
    BY <2>1 DEF Profile!Min
  <2> HIDE DEF m
  <2> QED  BY <1>2, <1>5, <2>2 DEF Enough
<1> HIDE DEF m
<1>7. \A i \in 1..m : order[i] \in Member
  BY <1>2, <1>5, <1>6, ElementOfSeq
<1>8. SubSeq(order, 1, m) \in Seq(Member)
  BY <1>6, <1>7, SubSeqProperties
<1> QED  BY <1>8 DEF m

LEMMA ProfileSelect ==
  ASSUME Enough, ProfileInv, Profile!Select
  PROVE  ProfileInv'
<1>1. /\ present \subseteq Member /\ status \in [Member -> Kinds]
      /\ stage = "run" /\ ~failed /\ answers = <<>> /\ lists = <<>> /\ failed \in BOOLEAN
  BY DEF Profile!Select, ProfileInv, ProfileTypes, NobodyIsLeftOut
<1>2. UNCHANGED <<present, named, answers, failed>>  BY DEF Profile!Select
<1>3. PICK order \in Profile!SetToSeqs(Profile!Due) :
        batch' = SubSeq(order, 1, Profile!Min({BatchSize, Len(order)}))
  BY DEF Profile!Select
<1>4. batch' \in Seq(Member)  BY <1>1, <1>3, BatchIsAList
<1>5. status' \in [Member -> Kinds]  BY <1>1 DEF Profile!Select, Kinds
<1>6. CASE Profile!Due = {}
  <2>1. stage' = "asleep" /\ lists' = <<>>
    BY <1>1, <1>6 DEF Profile!Select, Profile!Sleep
  <2>2. batch' = <<>>
    <3>1. Profile!Cardinality({}) = 0  BY FS_EmptySet DEF Profile!Cardinality, Cardinality
    <3>2. order \in [1..0 -> {}]  BY <1>6, <3>1 DEF Profile!SetToSeqs
    <3>3. order = <<>>  BY <3>2
    <3>4. Len(order) = 0  BY <3>3
    <3> DEFINE m == Profile!Min({BatchSize, 0})
    <3>5. m = 0
      <4>1. \E x \in {BatchSize, 0} : \A y \in {BatchSize, 0} : x <= y  BY DEF Enough
      <4>2. m \in {BatchSize, 0} /\ \A y \in {BatchSize, 0} : m <= y  BY <4>1 DEF Profile!Min
      <4> QED  BY <4>2 DEF Enough
    <3>6. batch' = SubSeq(order, 1, 0)  BY <1>3, <3>4, <3>5
    <3> QED  BY <3>6, SubSeqEmpty
  <2>3. ProfileTypes'
    <3>1. <<>> \in Seq(Seq(Member))  BY EmptySeq
    <3> QED  BY <1>1, <1>2, <1>4, <1>5, <2>1, <3>1 DEF ProfileTypes, ProfileInv
  <2>4. NobodyIsLeftOut'  BY <1>1, <1>2, <2>1, <2>2 DEF NobodyIsLeftOut
  <2> QED  BY <2>3, <2>4 DEF ProfileInv
<1>7. CASE Profile!Due # {}
  <2>1. stage' = "asking" /\ lists' = <<batch'>>  BY <1>7 DEF Profile!Select
  <2>2. lists' \in Seq(Seq(Member)) /\ lists' # <<>>  BY <1>4, <2>1
  <2>3. ProfileTypes'
    BY <1>1, <1>2, <1>4, <1>5, <2>1, <2>2 DEF ProfileTypes, ProfileInv
  <2>4. AllIn(lists') = In(batch')  BY <2>1, InOne
  <2>5. DOMAIN answers' = {}  BY <1>1, <1>2
  <2>6. In(batch)' = In(batch') /\ AllIn(lists)' = AllIn(lists')
    BY DEF In, AllIn, Profile!ToSet
  <2>7. NobodyIsLeftOut'  BY <1>1, <1>2, <2>1, <2>2, <2>4, <2>5, <2>6 DEF NobodyIsLeftOut
  <2> QED  BY <2>3, <2>7 DEF ProfileInv
<1> QED  BY <1>6, <1>7

(* A call answers for its list, or halves it.                              *)
LEMMA ProfileAsk ==
  ASSUME ProfileInv, Profile!Ask
  PROVE  ProfileInv'
<1>1. /\ stage = "asking" /\ ~failed /\ lists \in Seq(Seq(Member)) /\ lists # <<>>
      /\ In(batch) = DOMAIN answers \cup AllIn(lists)
  BY DEF Profile!Ask, ProfileInv, ProfileTypes, NobodyIsLeftOut
<1>2. UNCHANGED <<present, status, named, batch, failed>>
  BY DEF Profile!Ask, Profile!rows
<1>3. stage' = IF lists' = <<>> THEN "applying" ELSE "asking"  BY DEF Profile!Ask
<1>4. /\ Head(lists) \in Seq(Member) /\ Tail(lists) \in Seq(Seq(Member))
      /\ AllIn(lists) = In(Head(lists)) \cup AllIn(Tail(lists))
  BY <1>1, AllInHead
<1>5. lists' \in Seq(Seq(Member)) /\ In(batch) = DOMAIN answers' \cup AllIn(lists')
  <2>1. CASE /\ lists' = Tail(lists)
             /\ DOMAIN answers' = DOMAIN answers \cup In(Head(lists))
    BY <1>1, <1>4, <2>1
  <2>2. CASE /\ lists' = Profile!Halves(Head(lists)) \o Tail(lists) /\ answers' = answers
    <3>1. /\ Profile!Halves(Head(lists)) \in Seq(Seq(Member))
          /\ AllIn(Profile!Halves(Head(lists))) = In(Head(lists))
      BY <1>4, HalvesHold
    <3> DEFINE h == Profile!Halves(Head(lists))
               l == Tail(lists)
    <3>2. h \in Seq(Seq(Member)) /\ l \in Seq(Seq(Member)) /\ lists' = h \o l
      BY <1>4, <2>2, <3>1
    <3>3. AllIn(h) = In(Head(lists)) /\ AllIn(lists) = In(Head(lists)) \cup AllIn(l)
      BY <1>4, <3>1
    <3> HIDE DEF h, l
    <3>4. lists' \in Seq(Seq(Member)) /\ AllIn(lists') = AllIn(h) \cup AllIn(l)
      BY <3>2, AllInConcat
    <3> QED  BY <1>1, <2>2, <3>3, <3>4
  <2> QED  BY <2>1, <2>2 DEF Profile!Ask, Profile!Call, In
<1>6. In(batch)' = In(batch) /\ AllIn(lists)' = AllIn(lists')
  BY <1>2 DEF In, AllIn, Profile!ToSet
<1>7. ProfileTypes'  BY <1>2, <1>3, <1>5 DEF ProfileTypes, ProfileInv
<1>8. NobodyIsLeftOut'
  BY <1>1, <1>2, <1>3, <1>5, <1>6, NothingIn DEF NobodyIsLeftOut
<1> QED  BY <1>7, <1>8 DEF ProfileInv

LEMMA ProfileStep ==
  ASSUME Enough, ProfileInv, [Profile!Next]_(Profile!vars)
  PROVE  ProfileInv'
<1> DEFINE Worker == <<batch, lists, answers, failed, stage>>
<1>0. /\ present \subseteq Member /\ status \in [Member -> Kinds]
      /\ named \in [Member -> BOOLEAN]
  BY DEF ProfileInv, ProfileTypes
<1>1. ASSUME UNCHANGED Worker, present' \subseteq Member, status' \in [Member -> Kinds],
             named' \in [Member -> BOOLEAN]
      PROVE  ProfileInv'
  <2>1. In(batch)' = In(batch) /\ AllIn(lists)' = AllIn(lists)
    BY <1>1 DEF In, AllIn, Profile!ToSet
  <2> QED  BY <1>1, <2>1 DEF ProfileInv, ProfileTypes, NobodyIsLeftOut
<1>2. ASSUME NEW p \in Member, Profile!Register(p) PROVE ProfileInv'
  BY <1>0, <1>1, <1>2 DEF Profile!Register, Profile!rows, Profile!asks
<1>3. ASSUME NEW p \in Member, Profile!Delete(p) PROVE ProfileInv'
  <2>1. status' \in [Member -> Kinds] /\ named' \in [Member -> BOOLEAN]
    BY <1>0, <1>3 DEF Profile!Delete, Kinds
  <2> QED  BY <1>0, <1>1, <1>3, <2>1 DEF Profile!Delete, Profile!asks
<1>4. ASSUME NEW p \in Member, Profile!Change(p) PROVE ProfileInv'
  BY <1>0, <1>1, <1>4 DEF Profile!Change, Profile!rows, Profile!asks
<1>5. CASE Profile!Ring \/ Profile!Tick
  BY <1>0, <1>1, <1>5 DEF Profile!Ring, Profile!Tick, Profile!rows, Profile!asks
<1>6. CASE Profile!Select  BY <1>6, ProfileSelect
<1>7. CASE Profile!Ask  BY <1>7, ProfileAsk
<1>8. CASE Profile!AskInVain
  <2>1. /\ failed' = TRUE /\ lists' = <<>> /\ answers' = <<>> /\ stage' = "applying"
        /\ UNCHANGED <<present, status, named, batch>>
    BY <1>8 DEF Profile!AskInVain, Profile!rows
  <2>2. <<>> \in Seq(Seq(Member))  BY EmptySeq
  <2>3. ProfileTypes'  BY <2>1, <2>2 DEF ProfileTypes, ProfileInv
  <2>4. NobodyIsLeftOut'  BY <2>1 DEF NobodyIsLeftOut
  <2> QED  BY <2>3, <2>4 DEF ProfileInv
<1>9. CASE Profile!Apply
  <2>1. /\ batch' = <<>> /\ answers' = <<>> /\ failed' = FALSE /\ stage = "applying"
        /\ stage' \in {"run", "asleep"} /\ UNCHANGED <<present, lists>>
    BY <1>9 DEF Profile!Apply, Profile!Sleep
  <2>2. status' \in [Member -> Kinds] /\ named' \in [Member -> BOOLEAN]
    <3>1. CASE UNCHANGED Profile!rows  BY <1>0, <3>1 DEF Profile!rows
    <3>2. CASE ~UNCHANGED Profile!rows
      <4>1. \A p \in Member : Profile!NewStatus(p) \in Kinds
        BY <1>0 DEF Profile!NewStatus, Kinds
      <4>2. \A p \in Member : Profile!KeepName(p) \in BOOLEAN
        BY <1>0 DEF Profile!KeepName
      <4>3. /\ status' = [p \in Member |-> IF p \in Profile!ToSet(batch)
                                           THEN Profile!NewStatus(p) ELSE status[p]]
            /\ named'  = [p \in Member |-> IF p \in Profile!ToSet(batch)
                                           THEN Profile!KeepName(p) ELSE named[p]]
        BY <1>9, <3>2 DEF Profile!Apply
      <4> QED  BY <1>0, <4>1, <4>2, <4>3
    <3> QED  BY <3>1, <3>2
  <2>3. lists' = <<>>  BY <2>1 DEF ProfileInv, NobodyIsLeftOut
  <2>4. <<>> \in Seq(Member) /\ <<>> \in Seq(Seq(Member))  BY EmptySeq
  <2>5. ProfileTypes'  BY <1>0, <2>1, <2>2, <2>3, <2>4 DEF ProfileTypes
  <2>6. NobodyIsLeftOut'  BY <2>1, <2>3 DEF NobodyIsLeftOut
  <2> QED  BY <2>5, <2>6 DEF ProfileInv
<1>10. CASE Profile!Wake
  <2>1. /\ stage = "asleep" /\ stage' = "run"
        /\ UNCHANGED <<present, status, named, batch, lists, answers, failed>>
    BY <1>10 DEF Profile!Wake, Profile!asks
  <2>2. ProfileTypes'  BY <2>1 DEF ProfileTypes, ProfileInv
  <2>3. NobodyIsLeftOut'  BY <2>1 DEF NobodyIsLeftOut, ProfileInv
  <2> QED  BY <2>2, <2>3 DEF ProfileInv
<1>11. CASE UNCHANGED Profile!vars
  BY <1>0, <1>1, <1>11 DEF Profile!vars, Profile!rows, Profile!asks
<1> QED
  BY <1>2, <1>3, <1>4, <1>5, <1>6, <1>7, <1>8, <1>9, <1>10, <1>11 DEF Profile!Next, Profile!Cycle

(* The invariant of the worker (run_cycle): nobody of the batch is left    *)
(* out, whatever lists VK refuses and whoever is deleted meanwhile.        *)
THEOREM ProfileInvariant == Enough => (Profile!Spec => []ProfileInv)
  <1> SUFFICES ASSUME Enough PROVE Profile!Spec => []ProfileInv  OBVIOUS
  <1>1. Profile!Init => ProfileInv  BY ProfileInit
  <1>2. ProfileInv /\ [Profile!Next]_(Profile!vars) => ProfileInv'  BY ProfileStep
  <1> QED  BY <1>1, <1>2, PTL DEF Profile!Spec

(* Every row of a batch gets its own answer, however many of the others VK *)
(* refuses and wherever they stand in the lists (VkProfilesClient.fetch):  *)
(* for batches of any size.                                                *)
THEOREM OneSpoilsNoOther == Enough => (Profile!Spec => Profile!OneBadSpoilsNoOther)
  <1> SUFFICES ASSUME Enough PROVE Profile!Spec => Profile!OneBadSpoilsNoOther  OBVIOUS
  <1> DEFINE Whole == stage = "applying" /\ ~failed => DOMAIN answers = Profile!ToSet(batch)
             Own == \A p \in DOMAIN answers' \ DOMAIN answers : answers'[p] = Profile!Says(p)
  <1>1. ProfileInv => Whole  BY DEF ProfileInv, NobodyIsLeftOut, In
  <1>2. ProfileInv /\ [Profile!Next]_(Profile!vars) => [Own]_(Profile!vars)
    <2> SUFFICES ASSUME Profile!Next PROVE Own
      OBVIOUS
    <2>1. CASE UNCHANGED answers  BY <2>1
    <2>2. CASE answers' = <<>>  BY <2>2
    <2>3. CASE Profile!Ask /\ ~UNCHANGED answers
      <3> DEFINE ids == Head(lists)
      <3>1. answers' = [p \in DOMAIN answers \cup Profile!ToSet(ids) |->
                          IF p \in Profile!ToSet(ids) THEN Profile!Says(p) ELSE answers[p]]
        BY <2>3 DEF Profile!Ask, Profile!Call
      <3> QED  BY <3>1
    <2> QED
      BY <2>1, <2>2, <2>3 DEF Profile!Next, Profile!Cycle, Profile!Register, Profile!Delete,
         Profile!Change, Profile!Ring, Profile!Tick, Profile!Select, Profile!AskInVain,
         Profile!Apply, Profile!Wake, Profile!asks
  <1>3. Profile!OneBadSpoilsNoOther <=> []Whole /\ [][Own]_(Profile!vars)
    BY DEF Profile!OneBadSpoilsNoOther
  <1> HIDE DEF Whole, Own
  <1> QED  BY <1>1, <1>2, <1>3, ProfileInvariant, PTL DEF Profile!Spec

(* A name once seen stays as long as the row does (VkProfileRow's upsert). *)
THEOREM NamesRemain == Enough => (Profile!Spec => Profile!NamesStay)
  <1> SUFFICES ASSUME Enough PROVE Profile!Spec => Profile!NamesStay  OBVIOUS
  <1> DEFINE Stay == \A p \in Member : named[p] /\ status'[p] # "none" => named'[p]
  <1>1. ProfileInv /\ [Profile!Next]_(Profile!vars) => [Stay]_(Profile!vars)
    <2> SUFFICES ASSUME ProfileInv, Profile!Next PROVE Stay
      OBVIOUS
    <2>0. status \in [Member -> Kinds] /\ named \in [Member -> BOOLEAN]
      BY DEF ProfileInv, ProfileTypes
    <2>1. CASE UNCHANGED named  BY <2>1
    <2>2. ASSUME NEW p \in Member, Profile!Delete(p) PROVE Stay
      <3>1. /\ status' = [status EXCEPT ![p] = "none"]
            /\ named' = [named EXCEPT ![p] = FALSE]
        BY <2>2 DEF Profile!Delete
      <3> QED  BY <2>0, <3>1
    <2>3. CASE Profile!Apply /\ ~UNCHANGED named
      <3>1. named' = [p \in Member |-> IF p \in Profile!ToSet(batch)
                                       THEN Profile!KeepName(p) ELSE named[p]]
        BY <2>3 DEF Profile!Apply, Profile!rows
      <3>2. \A p \in Member : named[p] => Profile!KeepName(p)  BY DEF Profile!KeepName
      <3> QED  BY <3>1, <3>2
    <2> QED
      BY <2>1, <2>2, <2>3 DEF Profile!Next, Profile!Cycle, Profile!Register,
         Profile!Change, Profile!Ring, Profile!Tick, Profile!Select, Profile!Ask,
         Profile!AskInVain, Profile!Wake, Profile!rows
  <1>2. Profile!NamesStay <=> [][Stay]_(Profile!vars)  BY DEF Profile!NamesStay
  <1> HIDE DEF Stay
  <1> QED  BY <1>1, <1>2, ProfileInvariant, PTL DEF Profile!Spec

-----------------------------------------------------------------------------
(***************************************************************************)
(* Types.  Whoever has the limiter's lock stands first in the line, a pass *)
(* of the watcher holds a turn that is worth telling, and a cycle of the   *)
(* worker takes no longer than its bound.                                  *)
(***************************************************************************)
LimiterTypes ==
  /\ tokens \in 0..Rate /\ since \in 0..Rate /\ line \in Seq(Coroutine)
  /\ holder = "" \/ (line # <<>> /\ holder = Head(line))
  /\ asleep \in 0..1

(* Whoever leaves the line leaves the others as they stand.                *)
LEMMA LineWithoutOne ==
  ASSUME NEW S, NEW s \in Seq(S), NEW i \in 1..Len(s)
  PROVE  /\ Limits!RemoveAt(s, i) \in Seq(S)
         /\ i # 1 => Limits!RemoveAt(s, i) # <<>> /\ Head(Limits!RemoveAt(s, i)) = Head(s)
  <1> DEFINE a == SubSeq(s, 1, i - 1)
             b == SubSeq(s, i + 1, Len(s))
  <1>1. Len(s) \in Nat /\ s \in [1..Len(s) -> S]  BY LenProperties
  <1>2. a \in Seq(S) /\ Len(a) = i - 1 /\ \A j \in 1..(i - 1) : a[j] = s[j]
    BY <1>1, SubSeqProperties
  <1>3. b \in Seq(S)
    <2>1. \A j \in i + 1..Len(s) : s[j] \in S  BY <1>1
    <2> QED  BY <1>1, <2>1, SubSeqProperties
  <1>4. Limits!RemoveAt(s, i) = a \o b  BY DEF Limits!RemoveAt
  <1> HIDE DEF a, b
  <1>a. a \in Seq(S) /\ b \in Seq(S)  BY <1>2, <1>3
  <1>5. a \o b \in Seq(S) /\ Len(a \o b) = Len(a) + Len(b) /\ \A j \in 1..Len(a) : (a \o b)[j] = a[j]
    BY ONLY <1>a, ConcatProperties
  <1>6. ASSUME i # 1 PROVE a \o b # <<>> /\ Head(a \o b) = Head(s)
    <2>1. Len(a) >= 1 /\ Len(b) \in Nat  BY <1>1, <1>2, <1>3, <1>6, LenProperties
    <2>2. Len(a \o b) # 0  BY <1>2, <1>5, <2>1
    <2>3. a \o b # <<>>  BY <2>2
    <2>4. (a \o b)[1] = s[1]  BY <1>2, <1>5, <2>1
    <2> QED  BY <1>1, <1>5, <2>3, <2>4
  <1> QED  BY <1>4, <1>5, <1>6

LEMMA AppendKeepsHead ==
  ASSUME NEW S, NEW s \in Seq(S), NEW x \in S, s # <<>>
  PROVE  Append(s, x) # <<>> /\ Head(Append(s, x)) = Head(s)
  <1>1. Len(s) \in Nat /\ Len(s) # 0  BY EmptySeq, LenProperties
  <1>2. /\ Append(s, x) \in Seq(S) /\ Len(Append(s, x)) = Len(s) + 1
        /\ \A j \in 1..Len(s) : Append(s, x)[j] = s[j]
    BY AppendProperties
  <1>3. Append(s, x)[1] = s[1]  BY <1>1, <1>2
  <1>4. Append(s, x) # <<>>  BY <1>1, <1>2
  <1> QED  BY <1>1, <1>2, <1>3, <1>4

LEMMA LimiterTypesInit == ASSUME Rate \in Nat, Limits!Init PROVE LimiterTypes
  <1>1. tokens = Rate /\ since = 0 /\ line = <<>> /\ holder = "" /\ asleep = 0
    BY DEF Limits!Init
  <1>2. line \in Seq(Coroutine)  BY <1>1, EmptySeq
  <1>3. tokens = Rate /\ since = 0 /\ asleep = 0  BY <1>1
  <1>4. tokens \in 0..Rate /\ since \in 0..Rate /\ asleep \in 0..1
    BY ONLY Rate \in Nat, <1>3
  <1> QED  BY <1>1, <1>2, <1>4 DEF LimiterTypes

LEMMA LimiterTypesNext ==
  ASSUME Rate \in Nat, LimiterTypes, [Limits!Next]_(Limits!vars)
  PROVE  LimiterTypes'
  <1>0. tokens \in 0..Rate /\ since \in 0..Rate /\ line \in Seq(Coroutine) /\ asleep \in 0..1
    BY DEF LimiterTypes
  <1>h. holder = "" \/ (line # <<>> /\ holder = Head(line))  BY DEF LimiterTypes
  <1>1. ASSUME NEW c \in Coroutine, Limits!Call(c) PROVE LimiterTypes'
    <2>1. line' = Append(line, c) /\ UNCHANGED <<tokens, since, holder, asleep>>
      BY <1>1 DEF Limits!Call
    <2>2. line' \in Seq(Coroutine)  BY <1>0, <2>1, AppendProperties
    <2>3. line # <<>> => line' # <<>> /\ Head(line') = Head(line)
      BY <1>0, <2>1, AppendKeepsHead
    <2> QED  BY <1>0, <1>h, <2>1, <2>2, <2>3, Zenon DEF LimiterTypes
  <1>2. ASSUME NEW c \in Coroutine, Limits!Cancel(c) PROVE LimiterTypes'
    <2>1. PICK i \in DOMAIN line : line[i] = c /\ line' = Limits!RemoveAt(line, i)
      BY <1>2 DEF Limits!Cancel
    <2>2. i \in 1..Len(line)  BY <1>0, LenProperties
    <2>3. /\ line' \in Seq(Coroutine)
          /\ i # 1 => line' # <<>> /\ Head(line') = Head(line)
      BY <1>0, <2>1, <2>2, LineWithoutOne
    <2>4. Head(line) = line[1]  BY <1>0, <2>2
    <2>5. /\ UNCHANGED <<tokens, since>>
          /\ holder' = IF holder = c THEN "" ELSE holder
          /\ asleep' = IF holder = c THEN 0 ELSE asleep
      BY <1>2 DEF Limits!Cancel
    <2>6. holder' = "" \/ (line' # <<>> /\ holder' = Head(line'))
      BY <1>h, <2>1, <2>3, <2>4, <2>5, Zenon
    <2>7. asleep' \in 0..1
      <3>1. asleep' = 0 \/ asleep' = asleep  BY <2>5, Zenon
      <3>2. asleep \in 0..1  BY <1>0
      <3> QED  BY ONLY <3>1, <3>2
    <2> QED  BY <1>0, <2>3, <2>5, <2>6, <2>7, Zenon DEF LimiterTypes
  <1>3. CASE Limits!Lock
    BY <1>0, <1>3, Zenon DEF Limits!Lock, LimiterTypes
  <1>4. CASE Limits!Round
    <2>1. Limits!Refilled \in 0..Rate  BY <1>0 DEF Limits!Refilled, Limits!Least
    <2>2. since' \in 0..Rate /\ tokens' \in 0..Rate
      <3>1. /\ since' = 0
            /\ \/ tokens' = Limits!Refilled - 1 /\ Limits!Refilled >= 1
               \/ tokens' = Limits!Refilled
        BY <1>4 DEF Limits!Round
      <3> QED  BY <2>1, <3>1
    <2>3. CASE holder' = "" /\ line' = Tail(line) /\ UNCHANGED asleep
      <3>1. line # <<>>  BY <1>4, <1>h DEF Limits!Round
      <3>2. line' \in Seq(Coroutine)  BY <1>0, <2>3, <3>1, HeadTailProperties
      <3>3. asleep' \in 0..1  BY <1>0, <2>3
      <3> QED  BY <2>2, <2>3, <3>2, <3>3, Zenon DEF LimiterTypes
    <2>4. CASE Limits!Refilled < 1 /\ asleep' = 1 - Limits!Refilled /\ UNCHANGED <<holder, line>>
      <3>1. asleep' \in 0..1  BY <2>1, <2>4
      <3> QED  BY <1>0, <1>h, <2>2, <2>4, <3>1, Zenon DEF LimiterTypes
    <2> QED  BY <1>4, <2>3, <2>4 DEF Limits!Round
  <1>5. CASE Limits!Tick
    <2>1. since' \in 0..Rate  BY <1>0, <1>5 DEF Limits!Tick, Limits!Least
    <2>2. asleep' \in 0..1  BY <1>0, <1>5 DEF Limits!Tick, Limits!Before
    <2>3. UNCHANGED <<tokens, line, holder>>  BY <1>5 DEF Limits!Tick
    <2> QED  BY <1>0, <1>h, <2>1, <2>2, <2>3, Zenon DEF LimiterTypes
  <1>6. CASE UNCHANGED Limits!vars
    BY <1>6, Zenon DEF Limits!vars, LimiterTypes
  <1> QED  BY <1>1, <1>2, <1>3, <1>4, <1>5, <1>6 DEF Limits!Next

(* The line is made of callers, and the first of them has the lock.        *)
LEMMA LimiterTyped == Rate \in Nat => (Limits!Spec => []Limits!TypeOK)
  <1> SUFFICES ASSUME Rate \in Nat PROVE Limits!Spec => []Limits!TypeOK  OBVIOUS
  <1>1. Limits!Init => LimiterTypes  BY LimiterTypesInit
  <1>2. LimiterTypes /\ [Limits!Next]_(Limits!vars) => LimiterTypes'  BY LimiterTypesNext
  <1>3. LimiterTypes => Limits!TypeOK
    <2> SUFFICES ASSUME LimiterTypes PROVE Limits!TypeOK  OBVIOUS
    <2>1. Limits!ToSet(line) \subseteq Coroutine
      <3>1. \A j \in DOMAIN line : line[j] \in Coroutine
        BY LenProperties, ElementOfSeq DEF LimiterTypes
      <3> QED  BY <3>1 DEF Limits!ToSet
    <2> QED  BY <2>1 DEF LimiterTypes, Limits!TypeOK
  <1> QED  BY <1>1, <1>2, <1>3, PTL DEF Limits!Spec

(* What the consents need is part of their invariants.                     *)
LEMMA ConsentTyped == Named => (Consents!Spec => []Consents!TypeOK)
  <1> SUFFICES ASSUME Named PROVE Consents!Spec => []Consents!TypeOK  OBVIOUS
  <1>1. CheckInv /\ EventInv => Consents!TypeOK
    BY DEF CheckInv, ConsentTypes, States, EventInv, RestTypes, Consents!TypeOK
  <1> QED  BY <1>1, EventInvariant, PTL

(* The numbers of a digest: turns have an end, and the first is not told.  *)
Ends == MaxTurn \in Nat \ {0}

WatchTypes ==
  /\ current \in 1..MaxTurn /\ played \subseteq 2..MaxTurn /\ lastDigest \in 1..MaxTurn
  /\ queue \subseteq [turn : 2..MaxTurn, to : Reader, by : 1..passes]
  /\ snapshot \in [Watcher -> {0} \cup 2..MaxTurn] /\ stale \subseteq Watcher

LEMMA WatchTypesInit == ASSUME Ends, Digests!Init PROVE WatchTypes
  <1>1. current = 1 /\ played = {} /\ lastDigest = 1 /\ queue = {} /\ stale = {}
    BY DEF Digests!Init, Digests!Ledger!Init
  <1>2. snapshot = [w \in Watcher |-> 0]  BY DEF Digests!Init
  <1>3. current \in 1..MaxTurn /\ lastDigest \in 1..MaxTurn  BY <1>1 DEF Ends
  <1>4. snapshot \in [Watcher -> {0} \cup 2..MaxTurn]  BY <1>2
  <1> QED  BY <1>1, <1>3, <1>4 DEF WatchTypes

LEMMA WatchTypesNext ==
  ASSUME Ends, DigestInv, WatchTypes, [Digests!Next]_(Digests!vars)
  PROVE  WatchTypes'
  <1>0. passes \in Nat /\ audience \subseteq Reader  BY DEF DigestInv, DigestTypes
  <1>1. CASE Digests!Tick
    <2>1. /\ current' = current + 1 /\ played' = played \cup {current + 1}
          /\ current < MaxTurn
      BY <1>1 DEF Digests!Tick, Digests!Ledger!PlayTurn
    <2>2. UNCHANGED <<lastDigest, queue, snapshot, stale, passes>>  BY <1>1 DEF Digests!Tick
    <2>3. current' \in 1..MaxTurn /\ current + 1 \in 2..MaxTurn
      BY <2>1 DEF WatchTypes, Ends
    <2> QED  BY <2>1, <2>2, <2>3 DEF WatchTypes
  <1>2. CASE Digests!ResetWorld
    <2>1. /\ current' = 1 /\ played' = {} /\ queue' = {} /\ lastDigest' = 1
          /\ stale' \subseteq Watcher /\ UNCHANGED snapshot
      BY <1>2 DEF Digests!ResetWorld, Digests!ResetBot
    <2>2. 1 \in 1..MaxTurn  BY DEF Ends
    <2> QED  BY <2>1, <2>2 DEF WatchTypes
  <1>3. ASSUME NEW p \in Reader, Digests!Mood(p) PROVE WatchTypes'
    BY <1>3 DEF Digests!Mood, Digests!clock, WatchTypes
  <1>4. ASSUME NEW w \in Watcher, Digests!BeginPass(w) PROVE WatchTypes'
    <2>1. current \in 2..MaxTurn  BY <1>4 DEF Digests!BeginPass, WatchTypes
    <2>2. snapshot' \in [Watcher -> {0} \cup 2..MaxTurn]
      BY <1>4, <2>1 DEF Digests!BeginPass, WatchTypes
    <2> QED  BY <1>4, <2>2 DEF Digests!BeginPass, Digests!clock, WatchTypes
  <1>5. ASSUME NEW w \in Watcher, Digests!EndPass(w) PROVE WatchTypes'
    <2> DEFINE t == snapshot[w]
    <2>1. t \in 2..MaxTurn  BY <1>5 DEF Digests!EndPass, WatchTypes
    <2>2. /\ snapshot' = [snapshot EXCEPT ![w] = 0] /\ stale' = stale \ {w}
          /\ UNCHANGED <<current, played>>
      BY <1>5 DEF Digests!EndPass, Digests!clock
    <2>3. snapshot' \in [Watcher -> {0} \cup 2..MaxTurn]  BY <2>2 DEF WatchTypes
    <2>4. CASE lastDigest' = t /\ Digests!Enqueue(t) /\ passes' = passes + 1
      <3> DEFINE new == {p \in audience : \A d \in queue : d.turn # t \/ d.to # p}
      <3>1. queue' = queue \cup [turn : {t}, to : new, by : {passes + 1}]
        BY <2>4 DEF Digests!Enqueue
      <3>2. new \subseteq Reader  BY <1>0
      <3>3. passes + 1 \in 1..passes' /\ 1..passes \subseteq 1..passes'  BY <1>0, <2>4
      <3> HIDE DEF new, t
      <3>4. [turn : {t}, to : new, by : {passes + 1}]
              \subseteq [turn : 2..MaxTurn, to : Reader, by : 1..passes']
        BY <2>1, <3>2, <3>3
      <3>5. [turn : 2..MaxTurn, to : Reader, by : 1..passes]
              \subseteq [turn : 2..MaxTurn, to : Reader, by : 1..passes']
        BY <3>3
      <3>6. queue' \subseteq [turn : 2..MaxTurn, to : Reader, by : 1..passes']
        BY <3>1, <3>4, <3>5 DEF WatchTypes
      <3>7. lastDigest' \in 1..MaxTurn  BY <2>1, <2>4
      <3> QED  BY <2>2, <2>3, <3>6, <3>7 DEF WatchTypes
    <2>5. CASE UNCHANGED <<lastDigest, queue, passes>>
      BY <2>2, <2>3, <2>5 DEF WatchTypes
    <2> QED  BY <1>5, <2>4, <2>5 DEF Digests!EndPass
  <1>6. ASSUME NEW w \in Watcher, Digests!FailPass(w) PROVE WatchTypes'
    BY <1>6 DEF Digests!FailPass, Digests!clock, WatchTypes
  <1>7. CASE UNCHANGED Digests!vars  BY <1>7 DEF Digests!vars, Digests!clock, WatchTypes
  <1> QED
    BY <1>1, <1>2, <1>3, <1>4, <1>5, <1>6, <1>7 DEF Digests!Next, Digests!Watch

LEMMA DigestTyped == Ends => (Digests!Spec => []Digests!TypeOK)
  <1> SUFFICES ASSUME Ends PROVE Digests!Spec => []Digests!TypeOK  OBVIOUS
  <1>1. Digests!Init => WatchTypes  BY WatchTypesInit
  <1>2. DigestInv /\ WatchTypes /\ [Digests!Next]_(Digests!vars) => WatchTypes'
    BY WatchTypesNext
  <1>3. DigestInv /\ WatchTypes => Digests!TypeOK
    <2> SUFFICES ASSUME DigestInv, WatchTypes PROVE Digests!TypeOK  OBVIOUS
    <2>1. audience \subseteq Reader  BY DEF DigestInv, DigestTypes
    <2>2. snapshot \in [Watcher -> 0..MaxTurn]
      <3>1. {0} \cup 2..MaxTurn \subseteq 0..MaxTurn  BY DEF Ends
      <3> QED  BY <3>1 DEF WatchTypes
    <2> QED  BY <2>1, <2>2 DEF WatchTypes, Digests!TypeOK
  <1> QED  BY <1>1, <1>2, <1>3, DigestInvariant, PTL DEF Digests!Spec

(* The worker: a cycle that is not over is within its bound, and who has a *)
(* row is there.                                                           *)
Waits   == Ttl \in Nat /\ Retry \in Nat /\ Interval \in Nat /\ MaxLag \in Nat
Longest == Profile!Max({Ttl, Retry})

CycleTypes ==
  /\ elapsed \in 0..(MaxLag + Interval) /\ slept \in 0..MaxLag
  /\ stage # "asleep" => elapsed \in 0..MaxLag
  /\ due \in [Member -> 0..Longest]
  /\ \A p \in Member : status[p] # "none" => p \in present
  /\ failed => answers = <<>>

LEMMA TheGreater ==
  ASSUME NEW a \in Int, NEW b \in Int
  PROVE  Profile!Max({a, b}) \in {a, b} /\ a <= Profile!Max({a, b}) /\ b <= Profile!Max({a, b})
  <1>1. \E x \in {a, b} : \A y \in {a, b} : x >= y  OBVIOUS
  <1>2. Profile!Max({a, b}) \in {a, b} /\ \A y \in {a, b} : Profile!Max({a, b}) >= y
    BY <1>1 DEF Profile!Max
  <1> QED  BY <1>2

LEMMA LongestIsOne ==
  ASSUME Waits
  PROVE  Longest \in Nat /\ Ttl \in 0..Longest /\ Retry \in 0..Longest
  <1>1. Longest \in {Ttl, Retry} /\ Ttl <= Longest /\ Retry <= Longest
    BY TheGreater DEF Waits, Longest
  <1> QED  BY <1>1 DEF Waits

LEMMA CycleTypesInit == ASSUME Waits, Profile!Init PROVE CycleTypes
  <1>1. /\ elapsed = 0 /\ slept = 0 /\ failed = FALSE
        /\ due = [p \in Member |-> 0] /\ status = [p \in Member |-> "none"]
    BY DEF Profile!Init
  <1>2. elapsed \in 0..(MaxLag + Interval) /\ slept \in 0..MaxLag /\ elapsed \in 0..MaxLag
    BY <1>1 DEF Waits
  <1>3. due \in [Member -> 0..Longest]  BY <1>1, LongestIsOne
  <1> QED  BY <1>1, <1>2, <1>3 DEF CycleTypes

(* The others leave the worker alone, and delete a row with its player.    *)
LEMMA CycleOthers ==
  ASSUME Waits, ProfileInv, CycleTypes, NEW p \in Member,
         Profile!Register(p) \/ Profile!Delete(p) \/ Profile!Change(p) \/ Profile!Ring
  PROVE  CycleTypes'
  <1>0. UNCHANGED <<elapsed, slept, stage, failed, answers>>
    BY DEF Profile!Register, Profile!Delete, Profile!Change, Profile!Ring, Profile!time,
           Profile!asks
  <1>1. status \in [Member -> Kinds]  BY DEF ProfileInv, ProfileTypes
  <1>2. CASE UNCHANGED Profile!rows /\ present \subseteq present'
    BY <1>0, <1>2 DEF CycleTypes, Profile!rows
  <1>3. CASE Profile!Delete(p)
    <2>1. /\ present' = present \ {p} /\ status' = [status EXCEPT ![p] = "none"]
          /\ due' = [due EXCEPT ![p] = 0]
      BY <1>3 DEF Profile!Delete
    <2>2. due' \in [Member -> 0..Longest]  BY <2>1, LongestIsOne DEF CycleTypes
    <2>3. \A q \in Member : status'[q] # "none" => q \in present'
      BY <1>1, <2>1 DEF CycleTypes
    <2> QED  BY <1>0, <2>2, <2>3 DEF CycleTypes
  <1> QED  BY <1>2, <1>3 DEF Profile!Register, Profile!Change, Profile!Ring

(* Rows are made for players who are there.                                *)
LEMMA CycleSelect == ASSUME Waits, ProfileInv, CycleTypes, Profile!Select PROVE CycleTypes'
  <1>1. stage = "run" /\ ~failed /\ UNCHANGED <<elapsed, present, answers, failed>>
    BY DEF Profile!Select, ProfileInv, NobodyIsLeftOut
  <1>2. status \in [Member -> Kinds]  BY DEF ProfileInv, ProfileTypes
  <1>3. \A q \in Member : status'[q] # "none" => q \in present'
    BY <1>1, <1>2 DEF Profile!Select, CycleTypes
  <1>4. due' \in [Member -> 0..Longest]
    BY LongestIsOne DEF Profile!Select, Profile!When, CycleTypes
  <1>5. slept' = slept \/ slept' = elapsed  BY DEF Profile!Select, Profile!Sleep
  <1>6. elapsed \in 0..MaxLag /\ slept' \in 0..MaxLag  BY <1>1, <1>5 DEF CycleTypes
  <1> QED  BY <1>1, <1>3, <1>4, <1>6 DEF CycleTypes

(* Only rows that are there are written.                                   *)
LEMMA CycleApply == ASSUME Waits, ProfileInv, CycleTypes, Profile!Apply PROVE CycleTypes'
  <1>1. stage = "applying" /\ failed' = FALSE /\ UNCHANGED <<elapsed, present>>
    BY DEF Profile!Apply
  <1>2. slept' = slept \/ slept' = elapsed  BY DEF Profile!Apply, Profile!Sleep
  <1>3. elapsed \in 0..MaxLag /\ slept' \in 0..MaxLag  BY <1>1, <1>2 DEF CycleTypes
  <1>4. due' \in [Member -> 0..Longest] /\ \A q \in Member : status'[q] # "none" => status[q] # "none"
    <2>1. CASE UNCHANGED Profile!rows  BY <2>1 DEF Profile!rows, CycleTypes
    <2>2. CASE /\ \A q \in Profile!ToSet(batch) : status[q] # "none"
               /\ status' = [q \in Member |-> IF q \in Profile!ToSet(batch)
                                              THEN Profile!NewStatus(q) ELSE status[q]]
               /\ due' = [q \in Member |-> IF q \in Profile!ToSet(batch)
                                           THEN Profile!NextAttempt ELSE due[q]]
      <3>1. Profile!NextAttempt \in 0..Longest  BY LongestIsOne DEF Profile!NextAttempt
      <3>2. due' \in [Member -> 0..Longest]  BY <2>2, <3>1 DEF CycleTypes
      <3>3. \A q \in Member : status'[q] # "none" => status[q] # "none"  BY <2>2
      <3> QED  BY <3>2, <3>3
    <2> QED  BY <2>1, <2>2 DEF Profile!Apply
  <1> QED  BY <1>1, <1>3, <1>4 DEF CycleTypes

(* The cycle's now is the new zero.                                        *)
LEMMA CycleWake == ASSUME Waits, ProfileInv, CycleTypes, Profile!Wake PROVE CycleTypes'
  <1>1. /\ elapsed' = 0 /\ slept' = 0 /\ UNCHANGED <<present, status, failed, answers>>
        /\ due' = [q \in Member |-> Profile!Max({0, due[q] - elapsed})]
    BY DEF Profile!Wake, Profile!asks
  <1>2. \A q \in Member : Profile!Max({0, due[q] - elapsed}) \in 0..Longest
    <2> SUFFICES ASSUME NEW q \in Member
                 PROVE  Profile!Max({0, due[q] - elapsed}) \in 0..Longest
      OBVIOUS
    <2>1. due[q] \in 0..Longest /\ elapsed \in Nat /\ Longest \in Nat
      BY LongestIsOne DEF CycleTypes, Waits
    <2> DEFINE b == due[q] - elapsed
               m == Profile!Max({0, b})
    <2>2. b \in Int /\ b <= Longest  BY <2>1
    <2>a. 0 \in Int  OBVIOUS
    <2> HIDE DEF b
    <2>3. m \in {0, b} /\ 0 <= m  BY <2>2, <2>a, TheGreater, Zenon
    <2> HIDE DEF m
    <2>4. m \in 0..Longest  BY ONLY <2>1, <2>2, <2>3
    <2> QED  BY <2>4 DEF m, b
  <1>3. due' \in [Member -> 0..Longest]  BY <1>1, <1>2
  <1>4. elapsed' \in 0..(MaxLag + Interval) /\ slept' \in 0..MaxLag /\ elapsed' \in 0..MaxLag
    BY <1>1 DEF Waits
  <1> QED  BY <1>1, <1>3, <1>4 DEF CycleTypes

LEMMA CycleTypesNext ==
  ASSUME Waits, ProfileInv, CycleTypes, [Profile!Next]_(Profile!vars)
  PROVE  CycleTypes'
  <1>1. ASSUME NEW p \in Member, Profile!Register(p) \/ Profile!Delete(p) \/ Profile!Change(p)
        PROVE  CycleTypes'
    BY <1>1, CycleOthers
  <1>2. CASE Profile!Ring
    BY <1>2 DEF Profile!Ring, Profile!time, Profile!rows, Profile!asks, CycleTypes
  <1>3. CASE Profile!Tick
    <2>1. /\ elapsed' = elapsed + 1
          /\ IF stage = "asleep" THEN elapsed < slept + Interval ELSE elapsed < MaxLag
          /\ UNCHANGED <<slept, present, status, due, stage, answers, failed>>
      BY <1>3 DEF Profile!Tick, Profile!rows, Profile!asks
    <2>2. elapsed' \in 0..(MaxLag + Interval) /\ (stage # "asleep" => elapsed' \in 0..MaxLag)
      BY <2>1 DEF CycleTypes, Waits
    <2> QED  BY <2>1, <2>2 DEF CycleTypes
  <1>4. CASE Profile!Select  BY <1>4, CycleSelect
  <1>5. CASE Profile!Ask
    <2>1. /\ stage = "asking" /\ stage' \in {"asking", "applying"} /\ ~failed
          /\ UNCHANGED <<elapsed, slept, present, status, due, failed>>
      BY <1>5 DEF Profile!Ask, Profile!time, Profile!rows, ProfileInv, NobodyIsLeftOut
    <2> QED  BY <2>1 DEF CycleTypes
  <1>6. CASE Profile!AskInVain
    <2>1. /\ stage = "asking" /\ stage' = "applying" /\ answers' = <<>>
          /\ UNCHANGED <<elapsed, slept, present, status, due>>
      BY <1>6 DEF Profile!AskInVain, Profile!time, Profile!rows
    <2> QED  BY <2>1 DEF CycleTypes
  <1>7. CASE Profile!Apply  BY <1>7, CycleApply
  <1>8. CASE Profile!Wake  BY <1>8, CycleWake
  <1>9. CASE UNCHANGED Profile!vars
    BY <1>9 DEF Profile!vars, Profile!time, Profile!rows, Profile!asks, CycleTypes
  <1> QED
    BY <1>1, <1>2, <1>3, <1>4, <1>5, <1>6, <1>7, <1>8, <1>9 DEF Profile!Next, Profile!Cycle

LEMMA ProfileTyped == Enough /\ Waits => (Profile!Spec => []Profile!TypeOK)
  <1> SUFFICES ASSUME Enough, Waits PROVE Profile!Spec => []Profile!TypeOK  OBVIOUS
  <1>1. Profile!Init => CycleTypes  BY CycleTypesInit
  <1>2. ProfileInv /\ CycleTypes /\ [Profile!Next]_(Profile!vars) => CycleTypes'
    BY CycleTypesNext
  <1>3. ProfileInv /\ CycleTypes => Profile!TypeOK
    <2> SUFFICES ASSUME ProfileInv, CycleTypes PROVE Profile!TypeOK  OBVIOUS
    <2>1. DOMAIN answers \subseteq In(batch)
      <3>1. answers = <<>> => DOMAIN answers = {}  OBVIOUS
      <3> QED  BY <3>1 DEF ProfileInv, ProfileTypes, NobodyIsLeftOut, CycleTypes
    <2>2. DOMAIN answers \subseteq Profile!ToSet(batch)  BY <2>1 DEF In
    <2> QED
      BY <2>2 DEF ProfileInv, ProfileTypes, CycleTypes, Kinds, Longest, Profile!TypeOK
  <1> QED  BY <1>1, <1>2, <1>3, ProfileInvariant, PTL DEF Profile!Spec

-----------------------------------------------------------------------------
(***************************************************************************)
(* The services together: a step of the whole is a step of one of them,    *)
(* and the promises of all of them hold of it.                             *)
(***************************************************************************)
LEMMA TheConstantsDo == Rate \in Nat /\ Named /\ Enough
  BY ServicesAssumption DEF Named, Enough

LEMMA StepOfEach ==
  [Next]_services => /\ [Limits!Next]_(Limits!vars) /\ [Consents!Next]_(Consents!vars)
                     /\ [Digests!Next]_(Digests!vars) /\ [Profile!Next]_(Profile!vars)
  <1> SUFFICES ASSUME [Next]_services
               PROVE  /\ [Limits!Next]_(Limits!vars) /\ [Consents!Next]_(Consents!vars)
                      /\ [Digests!Next]_(Digests!vars) /\ [Profile!Next]_(Profile!vars)
    OBVIOUS
  <1>1. UNCHANGED limits => UNCHANGED Limits!vars  BY DEF limits, Limits!vars
  <1>2. UNCHANGED consents => UNCHANGED Consents!vars
    BY DEF consents, Consents!vars, Consents!vkVars, Consents!tableVars
  <1>3. UNCHANGED digests => UNCHANGED Digests!vars
    BY DEF digests, Digests!vars, Digests!clock
  <1>4. UNCHANGED profiles => UNCHANGED Profile!vars
    BY DEF profiles, Profile!vars, Profile!time, Profile!rows, Profile!asks
  <1> QED  BY <1>1, <1>2, <1>3, <1>4, Zenon DEF Next, services

THEOREM TheWholeIsItsParts ==
  Spec => Limits!Spec /\ Consents!Spec /\ Digests!Spec /\ Profile!Spec
  <1>1. Init => Limits!Init /\ Consents!Init /\ Digests!Init /\ Profile!Init  BY DEF Init
  <1> QED
    BY <1>1, StepOfEach, PTL
    DEF Spec, Limits!Spec, Consents!Spec, Digests!Spec, Profile!Spec

(* The services are well typed, for any numbers of everything.             *)
THEOREM ServicesTypeCorrect == Spec => []TypeOK
  <1>1. Ends /\ Waits  BY ServicesAssumption DEF Ends, Waits
  <1> QED
    BY <1>1, TheWholeIsItsParts, TheConstantsDo, LimiterTyped, ConsentTyped, DigestTyped,
       ProfileTyped, PTL DEF TypeOK

(* The limiter keeps its rate (AsyncLimiter.acquire).                      *)
THEOREM CallsKeepTheRate == Spec => []RateIsKept
  BY TheWholeIsItsParts, TheConstantsDo, RateKept, PTL DEF RateIsKept

(* The players are heard (vk_callback, consent.py).                        *)
THEOREM EverybodyIsHeard == Spec => PlayersAreHeard
  BY TheWholeIsItsParts, TheConstantsDo, PlayersHeard, PTL DEF PlayersAreHeard

(* Turns are told once (digest_watcher_step).                              *)
THEOREM DigestsGoOnce == Spec => TurnsAreOnce
  BY TheWholeIsItsParts, TurnsOnce, PTL DEF TurnsAreOnce

(* Nobody spoils another's profile, and names stay (run_cycle).            *)
THEOREM ProfilesAreKept == Spec => ProfilesHold
  BY TheWholeIsItsParts, TheConstantsDo, OneSpoilsNoOther, NamesRemain, PTL DEF ProfilesHold

=============================================================================
