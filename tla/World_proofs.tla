---------------------------- MODULE World_proofs ----------------------------
(***************************************************************************)
(* Proofs about what the world keeps: the pictures of its nations, the     *)
(* administrators with their panel, the players' permanent numbers, who    *)
(* owns the provinces, and the files the map is built into.                *)
(* Each part is proved by itself; that the world is the five side by side  *)
(* carries what is proved of each over to the whole.                       *)
(***************************************************************************)
EXTENDS World, FiniteSetTheorems, SequenceTheorems, FunctionTheorems, WellFoundedInduction,
        TLAPS

-----------------------------------------------------------------------------
(***************************************************************************)
(* Pictures.  Every picture has an owner that is there, ids and the kinds  *)
(* of an owner are taken once, and an upload that has found a row holds    *)
(* the id of a picture of its own kind and application.                    *)
(***************************************************************************)
Filing  == 1..MaxFiled
Filed   == [status : {"DRAFT", "PENDING", "ACCEPTED"}, owner : Applicant] \cup {Picture!NoApplication}
Rows(n) == [id : 1..n, owner : Picture!Owner, kind : Kind, file : File, late : BOOLEAN]
Seen    == {"DRAFT", "PENDING", "nation"}
Doing   ==
  {Picture!Idle}
  \cup [phase : {"body"}, owner : Picture!Owner, kind : Kind, seen : Seen]
  \cup [phase : {"look"}, owner : Picture!Owner, kind : Kind, seen : Seen, file : File]
  \cup [phase : {"write"}, owner : Picture!Owner, kind : Kind, seen : Seen, file : File, id : Nat]
  \cup [phase : {"remove"}, id : Nat, owner : Picture!Owner, file : File]

PictureTypes ==
  /\ app \in [Filing -> Filed] /\ filed \in Nat /\ nations \subseteq Filing /\ lastId \in Nat
  /\ rows \subseteq Rows(lastId) /\ tx \in [Session -> Doing]

NationsAreAccepted == \A a \in nations : app[a].status = "ACCEPTED"
LaterIsNotFiled    == \A a \in Filing : a > filed => app[a] = Picture!NoApplication

Holds(r) ==
  /\ Picture!Exists(r.owner)
  /\ ~r.late /\ r.owner[1] = "application" => app[r.owner[2]].status # "ACCEPTED"
OwnersAreThere == \A r \in rows : Holds(r)
IdsOnce   == \A r, q \in rows : r.id = q.id => r = q
KindsOnce == \A r, q \in rows : r.owner = q.owner /\ r.kind = q.kind => r = q

(* What an upload was let in by, and what it is about to write to.         *)
LetIn(t) ==
  /\ t.phase \in {"body", "look", "write"} => (t.owner[1] = "nation" <=> t.seen = "nation")
  /\ t.phase = "write" /\ t.owner[1] = "application" => t.seen = "DRAFT"
Suits(r, t) ==
  /\ r.kind = t.kind /\ r.owner[2] = t.owner[2]
  /\ t.owner[1] = "nation" => r.owner[1] = "nation"
Aims(t) ==
  t.phase = "write" /\ t.id # 0 =>
    t.id <= lastId /\ \A r \in rows : r.id = t.id => Suits(r, t)
UploadsAim == \A s \in Session : LetIn(tx[s]) /\ Aims(tx[s])

PictureInv ==
  /\ PictureTypes /\ NationsAreAccepted /\ LaterIsNotFiled /\ OwnersAreThere
  /\ IdsOnce /\ KindsOnce /\ UploadsAim

LEMMA PictureInit == MaxFiled \in Nat /\ Picture!Init => PictureInv
  <1> SUFFICES ASSUME MaxFiled \in Nat, Picture!Init PROVE PictureInv  OBVIOUS
  <1>1. /\ filed = 0 /\ nations = {} /\ rows = {} /\ lastId = 0
        /\ app = [a \in Filing |-> Picture!NoApplication]
        /\ tx = [s \in Session |-> Picture!Idle]
    BY DEF Picture!Init, Filing, Picture!Filing
  <1>2. PictureTypes  BY <1>1 DEF PictureTypes, Filed, Doing
  <1>3. NationsAreAccepted /\ LaterIsNotFiled
    BY <1>1 DEF NationsAreAccepted, LaterIsNotFiled
  <1>4. OwnersAreThere /\ IdsOnce /\ KindsOnce
    BY <1>1 DEF OwnersAreThere, IdsOnce, KindsOnce
  <1>5. Picture!Idle.phase = "idle"  BY DEF Picture!Idle
  <1>6. UploadsAim  BY <1>1, <1>5 DEF UploadsAim, LetIn, Aims
  <1> QED  BY <1>2, <1>3, <1>4, <1>6 DEF PictureInv

(* Only what a session does changes.                                       *)
LEMMA PictureOfOne ==
  ASSUME PictureInv, NEW s \in Session, NEW t \in Doing, tx' = [tx EXCEPT ![s] = t],
         UNCHANGED <<app, filed, nations, rows, lastId>>, LetIn(t), Aims(t)
  PROVE  PictureInv'
  <1> USE DEF PictureInv
  <1>1. tx'[s] = t /\ \A u \in Session \ {s} : tx'[u] = tx[u]  BY DEF PictureTypes
  <1>2. PictureTypes'  BY DEF PictureTypes
  <1>3. NationsAreAccepted' /\ LaterIsNotFiled'
    BY DEF NationsAreAccepted, LaterIsNotFiled
  <1>4. OwnersAreThere' /\ IdsOnce' /\ KindsOnce'
    BY DEF OwnersAreThere, IdsOnce, KindsOnce, Holds, Picture!Exists
  <1>5. \A u \in Session : LetIn(tx'[u]) /\ Aims(tx'[u])
    BY <1>1 DEF UploadsAim
  <1>6. UploadsAim'  BY <1>5 DEF UploadsAim, Aims, Suits, LetIn
  <1> QED  BY <1>2, <1>3, <1>4, <1>6

LEMMA IdleIsNothing == Picture!Idle \in Doing /\ LetIn(Picture!Idle) /\ Aims(Picture!Idle)
  BY DEF Picture!Idle, Doing, LetIn, Aims

LEMMA PictureStops ==
  ASSUME PictureInv, NEW s \in Session, Picture!Stop(s)
  PROVE  PictureInv'
  BY PictureOfOne, IdleIsNothing DEF Picture!Stop

(* Pictures go, or owners come: what is left has its owner.                *)
LEMMA PictureFewer ==
  ASSUME PictureInv, rows' \subseteq rows, UNCHANGED lastId, filed' \in Nat,
         app' \in [Filing -> Filed], nations' \subseteq nations,
         \A a \in nations' : app'[a] = app[a], LaterIsNotFiled', \A r \in rows' : Holds(r)',
         tx' \in [Session -> Doing], \A s \in Session : tx'[s] \in {tx[s], Picture!Idle}
  PROVE  PictureInv'
  <1> USE DEF PictureInv
  <1>1. PictureTypes'  BY DEF PictureTypes
  <1>2. NationsAreAccepted'  BY DEF NationsAreAccepted
  <1>3. OwnersAreThere' /\ IdsOnce' /\ KindsOnce'  BY DEF OwnersAreThere, IdsOnce, KindsOnce
  <1>4. \A s \in Session : LetIn(tx'[s]) /\ Aims(tx'[s])  BY IdleIsNothing DEF UploadsAim
  <1>5. UploadsAim'  BY <1>4 DEF UploadsAim, Aims, Suits, LetIn
  <1> QED  BY <1>1, <1>2, <1>3, <1>5

LEMMA DraftKeeps ==
  ASSUME MaxFiled \in Nat, PictureInv, NEW p \in Applicant, Picture!Draft(p)
  PROVE  PictureInv'
  <1> DEFINE n == [status |-> "DRAFT", owner |-> p]
  <1>0. PictureTypes /\ n \in Filed /\ n.status # "ACCEPTED" /\ n.status # "none"
    BY DEF PictureInv, Filed
  <1>1. /\ app' = [app EXCEPT ![filed + 1] = n] /\ filed' = filed + 1 /\ filed < MaxFiled
        /\ UNCHANGED <<nations, rows, lastId, tx>>
    BY DEF Picture!Draft
  <1> HIDE DEF n
  <1>2. /\ filed + 1 \in Filing /\ filed' \in Nat /\ app' \in [Filing -> Filed]
        /\ app'[filed + 1] = n /\ \A a \in Filing \ {filed + 1} : app'[a] = app[a]
    BY <1>0, <1>1 DEF PictureTypes, Filing
  <1>3. app[filed + 1] = Picture!NoApplication
    BY <1>0, <1>2 DEF PictureInv, LaterIsNotFiled, PictureTypes
  <1>4. app[filed + 1].status = "none"  BY <1>3 DEF Picture!NoApplication
  <1>5. \A a \in nations : app'[a] = app[a]
    BY <1>0, <1>2, <1>4 DEF PictureInv, NationsAreAccepted, PictureTypes
  <1>6. LaterIsNotFiled'
    BY <1>0, <1>1, <1>2 DEF PictureInv, LaterIsNotFiled, PictureTypes, Filing
  <1>7. \A r \in rows' : Holds(r)'
    <2> SUFFICES ASSUME NEW r \in rows PROVE Holds(r)'  BY <1>1
    <2>1. r.owner[2] \in Filing /\ Holds(r)
      BY <1>0 DEF PictureTypes, Rows, Picture!Owner, Filing, Picture!Filing, PictureInv,
         OwnersAreThere
    <2> QED  BY <1>0, <1>1, <1>2, <1>4, <2>1 DEF Holds, Picture!Exists
  <1> QED  BY <1>0, <1>1, <1>2, <1>5, <1>6, <1>7, PictureFewer DEF PictureTypes

LEMMA MoveKeeps ==
  ASSUME PictureInv, NEW a \in Filing, NEW from \in {"DRAFT", "PENDING"},
         NEW to \in {"DRAFT", "PENDING"}, Picture!Move(a, from, to)
  PROVE  PictureInv'
  <1>0. PictureTypes  BY DEF PictureInv
  <1>1. /\ app[a].status = from /\ app' = [app EXCEPT ![a].status = to]
        /\ UNCHANGED <<filed, nations, rows, lastId, tx>>
    BY DEF Picture!Move
  <1>2. app[a] \in [status : {"DRAFT", "PENDING", "ACCEPTED"}, owner : Applicant]
    BY <1>0, <1>1 DEF PictureTypes, Filed, Picture!NoApplication
  <1>3. /\ app' \in [Filing -> Filed] /\ app'[a].status = to
        /\ \A b \in Filing \ {a} : app'[b] = app[b]
    BY <1>0, <1>1, <1>2 DEF PictureTypes, Filed
  <1>4. \A b \in nations : app'[b] = app[b]
    BY <1>0, <1>1, <1>3 DEF PictureInv, NationsAreAccepted, PictureTypes
  <1>5. LaterIsNotFiled'
    BY <1>1, <1>3 DEF PictureInv, LaterIsNotFiled, Picture!NoApplication
  <1>6. \A r \in rows' : Holds(r)'
    <2> SUFFICES ASSUME NEW r \in rows PROVE Holds(r)'  BY <1>1
    <2>1. r.owner[2] \in Filing /\ Holds(r)
      BY <1>0 DEF PictureTypes, Rows, Picture!Owner, Filing, Picture!Filing, PictureInv,
         OwnersAreThere
    <2> QED  BY <1>1, <1>3, <2>1 DEF Holds, Picture!Exists
  <1> QED  BY <1>0, <1>1, <1>3, <1>4, <1>5, <1>6, PictureFewer DEF PictureTypes

(* The pictures of an application that is accepted are the nation's now.   *)
LEMMA AcceptMoves ==
  ASSUME PictureInv, NEW a \in Filing, Picture!Accept(a), NEW q \in rows'
  PROVE  \E r \in rows :
           /\ q.id = r.id /\ q.kind = r.kind /\ q.file = r.file /\ q.late = r.late
           /\ q \in Rows(lastId)
           /\ IF r.owner = <<"application", a>> THEN q.owner = <<"nation", a>> ELSE q = r
  <1>1. PICK r \in rows :
          q = IF r.owner = <<"application", a>> THEN [r EXCEPT !.owner = <<"nation", a>>] ELSE r
    BY DEF Picture!Accept
  <1>2. r \in Rows(lastId) /\ <<"nation", a>> \in Picture!Owner
    BY DEF PictureInv, PictureTypes, Picture!Owner, Filing, Picture!Filing
  <1>3. CASE r.owner = <<"application", a>>
    <2>1. q = [r EXCEPT !.owner = <<"nation", a>>]  BY <1>1, <1>3
    <2> QED  BY <1>2, <1>3, <2>1 DEF Rows
  <1>4. CASE r.owner # <<"application", a>>  BY <1>1, <1>2, <1>4
  <1> QED  BY <1>3, <1>4

LEMMA AcceptKeeps ==
  ASSUME PictureInv, NEW a \in Filing, Picture!Accept(a)
  PROVE  PictureInv'
  <1> USE DEF PictureInv
  <1>1. /\ app[a].status = "PENDING" /\ app' = [app EXCEPT ![a].status = "ACCEPTED"]
        /\ nations' = nations \cup {a} /\ UNCHANGED <<filed, lastId, tx>>
    BY DEF Picture!Accept
  <1>2. app[a] \in [status : {"DRAFT", "PENDING", "ACCEPTED"}, owner : Applicant]
    BY <1>1 DEF PictureTypes, Filed, Picture!NoApplication
  <1>3. /\ app' \in [Filing -> Filed] /\ app'[a].status = "ACCEPTED"
        /\ \A b \in Filing \ {a} : app'[b] = app[b]
    BY <1>1, <1>2 DEF PictureTypes, Filed
  <1>4. \A q \in rows' : q \in Rows(lastId)  BY AcceptMoves
  <1>5. PictureTypes'  BY <1>1, <1>3, <1>4 DEF PictureTypes
  <1>6. NationsAreAccepted'
    BY <1>1, <1>3 DEF NationsAreAccepted, PictureTypes
  <1>7. LaterIsNotFiled'
    BY <1>1, <1>3 DEF LaterIsNotFiled, Picture!NoApplication
  <1>8. a \notin nations  BY <1>1 DEF NationsAreAccepted
  <1>9. \A r \in rows : r.owner # <<"nation", a>> /\ Holds(r) /\ r.owner \in Picture!Owner
                         /\ r.owner[2] \in Filing
    BY <1>8 DEF OwnersAreThere, Holds, Picture!Exists, PictureTypes, Rows, Picture!Owner,
       Filing, Picture!Filing
  <1>10. OwnersAreThere'
    <2> SUFFICES ASSUME NEW q \in rows' PROVE Holds(q)'  BY DEF OwnersAreThere
    <2>1. PICK r \in rows :
            /\ q.late = r.late
            /\ IF r.owner = <<"application", a>> THEN q.owner = <<"nation", a>> ELSE q = r
      BY AcceptMoves
    <2>2. CASE r.owner = <<"application", a>>
      BY <1>1, <2>1, <2>2 DEF Holds, Picture!Exists
    <2>3. CASE r.owner # <<"application", a>>
      <3>1. q = r /\ Holds(r) /\ (r.owner[1] = "application" => r.owner[2] # a)
        BY <1>9, <2>1, <2>3 DEF Picture!Owner
      <3> QED  BY <1>1, <1>3, <1>9, <3>1 DEF Holds, Picture!Exists
    <2> QED  BY <2>2, <2>3
  <1>11. IdsOnce' /\ KindsOnce'
    <2> SUFFICES ASSUME NEW q1 \in rows', NEW q2 \in rows',
                        q1.id = q2.id \/ (q1.owner = q2.owner /\ q1.kind = q2.kind)
                 PROVE  q1 = q2
      BY DEF IdsOnce, KindsOnce
    <2>1. PICK r1 \in rows :
            /\ q1.id = r1.id /\ q1.kind = r1.kind /\ q1.file = r1.file /\ q1.late = r1.late
            /\ q1 \in Rows(lastId)
            /\ IF r1.owner = <<"application", a>> THEN q1.owner = <<"nation", a>> ELSE q1 = r1
      BY AcceptMoves
    <2>2. PICK r2 \in rows :
            /\ q2.id = r2.id /\ q2.kind = r2.kind /\ q2.file = r2.file /\ q2.late = r2.late
            /\ q2 \in Rows(lastId)
            /\ IF r2.owner = <<"application", a>> THEN q2.owner = <<"nation", a>> ELSE q2 = r2
      BY AcceptMoves
    <2>3. r1.id = r2.id \/ (r1.owner = r2.owner /\ r1.kind = r2.kind)
      BY <1>9, <2>1, <2>2
    <2>4. r1 = r2  BY <2>3 DEF IdsOnce, KindsOnce
    <2> QED  BY <2>1, <2>2, <2>4 DEF Rows
  <1>12. UploadsAim'
    <2> SUFFICES ASSUME NEW s \in Session PROVE LetIn(tx[s]) /\ Aims(tx[s])'
      BY <1>1 DEF UploadsAim, LetIn, Aims
    <2>1. LetIn(tx[s]) /\ Aims(tx[s])  BY DEF UploadsAim
    <2>2. ASSUME tx[s].phase = "write", tx[s].id # 0, NEW q \in rows', q.id = tx[s].id
          PROVE  Suits(q, tx[s])
      <3>1. PICK r \in rows :
              /\ q.id = r.id /\ q.kind = r.kind
              /\ IF r.owner = <<"application", a>> THEN q.owner = <<"nation", a>> ELSE q = r
        BY AcceptMoves
      <3>2. Suits(r, tx[s])  BY <2>1, <2>2, <3>1 DEF Aims
      <3> QED  BY <3>1, <3>2 DEF Suits
    <2> QED  BY <1>1, <2>1, <2>2 DEF Aims, Suits
  <1> QED  BY <1>5, <1>6, <1>7, <1>10, <1>11, <1>12


(* A deletion leaves only pictures whose owners it leaves.                 *)
LEMMA PurgeKeeps ==
  ASSUME MaxFiled \in Nat, PictureInv, UNCHANGED <<filed, lastId, tx>>, rows' \subseteq rows,
         NEW his \in SUBSET Filing, nations' \subseteq nations,
         app' \in [Filing -> Filed],
         \A a \in Filing : app'[a] = app[a] \/ (a \in his /\ app'[a] = Picture!NoApplication),
         \A a \in nations' : a \notin his,
         \A r \in rows' : Picture!Exists(r.owner)' /\ (r.owner[1] = "application" => r.owner[2] \notin his)
  PROVE  PictureInv'
  <1>0. PictureTypes /\ \A r \in rows : Holds(r) /\ r.owner \in Picture!Owner
                                         /\ r.owner[2] \in Filing
    BY DEF PictureInv, OwnersAreThere, PictureTypes, Rows, Picture!Owner, Filing, Picture!Filing
  <1>1. \A a \in nations' : app'[a] = app[a]  BY <1>0 DEF PictureTypes
  <1>2. LaterIsNotFiled'
    BY DEF PictureInv, LaterIsNotFiled
  <1>3. \A r \in rows' : Holds(r)'  BY <1>0 DEF Holds
  <1> QED  BY <1>0, <1>1, <1>2, <1>3, PictureFewer DEF PictureTypes

LEMMA DeleteNationKeeps ==
  ASSUME MaxFiled \in Nat, PictureInv, NEW a \in Filing, Picture!DeleteNation(a)
  PROVE  PictureInv'
  <1>1. /\ nations' = nations \ {a} /\ UNCHANGED <<app, filed, lastId, tx>>
        /\ rows' = {r \in rows : r.owner \notin {<<"nation", a>>}}
    BY DEF Picture!DeleteNation, Picture!Purge
  <1>2. \A r \in rows' : Picture!Exists(r.owner)'
    <2> SUFFICES ASSUME NEW r \in rows, r.owner # <<"nation", a>>
                 PROVE  Picture!Exists(r.owner)'
      BY <1>1
    <2>1. Holds(r) /\ r.owner \in Picture!Owner
      BY DEF PictureInv, OwnersAreThere, PictureTypes, Rows
    <2>2. r.owner[1] = "nation" => r.owner[2] # a  BY <2>1 DEF Picture!Owner
    <2> QED  BY <1>1, <2>1, <2>2 DEF Holds, Picture!Exists
  <1>3. /\ {} \in SUBSET Filing /\ rows' \subseteq rows /\ nations' \subseteq nations
        /\ app' \in [Filing -> Filed]
    BY <1>1 DEF PictureInv, PictureTypes
  <1> QED  BY <1>1, <1>2, <1>3, PurgeKeeps

LEMMA EvictKeeps ==
  ASSUME MaxFiled \in Nat, PictureInv, NEW p \in Applicant, Picture!Evict(p)
  PROVE  PictureInv'
  <1> DEFINE his == {a \in Filing : app[a].status # "none" /\ app[a].owner = p}
  <1>1. /\ nations' = nations \ his /\ UNCHANGED <<filed, lastId, tx>>
        /\ app' = [a \in Filing |-> IF a \in his THEN Picture!NoApplication ELSE app[a]]
        /\ rows' = {r \in rows : r.owner \notin {"application", "nation"} \X his}
    BY DEF Picture!Evict, Picture!Purge, Filing, Picture!Filing
  <1> HIDE DEF his
  <1>2. his \subseteq Filing  BY DEF his
  <1>3. \A a \in Filing : app'[a] = IF a \in his THEN Picture!NoApplication ELSE app[a]  BY <1>1
  <1>4. app' \in [Filing -> Filed]  BY <1>1 DEF PictureInv, PictureTypes, Filed
  <1>5. \A r \in rows' : Picture!Exists(r.owner)' /\ r.owner[2] \notin his
    <2> SUFFICES ASSUME NEW r \in rows, r.owner \notin {"application", "nation"} \X his
                 PROVE  Picture!Exists(r.owner)' /\ r.owner[2] \notin his
      BY <1>1
    <2>1. Holds(r) /\ r.owner \in Picture!Owner /\ r.owner[2] \in Filing
      BY DEF PictureInv, OwnersAreThere, PictureTypes, Rows, Picture!Owner, Filing, Picture!Filing
    <2>2. r.owner[2] \notin his  BY <2>1 DEF Picture!Owner
    <2> QED  BY <1>1, <1>3, <2>1, <2>2 DEF Holds, Picture!Exists
  <1> QED  BY <1>1, <1>2, <1>3, <1>4, <1>5, PurgeKeeps

LEMMA ResetKeeps ==
  ASSUME MaxFiled \in Nat, PictureInv, Picture!Reset
  PROVE  PictureInv'
  <1>1. /\ nations' = {} /\ rows' = {} /\ UNCHANGED <<filed, lastId, tx>>
        /\ app' = [a \in Filing |-> Picture!NoApplication]
    BY DEF Picture!Reset, Filing, Picture!Filing
  <1>2. app' \in [Filing -> Filed]  BY <1>1 DEF Filed
  <1> QED  BY <1>1, <1>2, PurgeKeeps

LEMMA AskKeeps ==
  ASSUME PictureInv, NEW s \in Session, Picture!Ask(s)
  PROVE  PictureInv'
  <1>0. UNCHANGED <<app, filed, nations, rows, lastId>>  BY DEF Picture!Ask
  <1>1. ASSUME NEW p \in Applicant, NEW k \in Kind, NEW a \in Picture!Live(p),
               tx' = [tx EXCEPT ![s] = [phase |-> "body", owner |-> <<"application", a>>,
                                        kind |-> k, seen |-> app[a].status]]
        PROVE  PictureInv'
    <2> DEFINE t == [phase |-> "body", owner |-> <<"application", a>>, kind |-> k,
                     seen |-> app[a].status]
    <2>1. a \in Filing /\ app[a].status \in {"DRAFT", "PENDING"}
      BY DEF Picture!Live, Filing, Picture!Filing
    <2>2. <<"application", a>> \in Picture!Owner
      BY <2>1 DEF Picture!Owner, Filing, Picture!Filing
    <2>3. t \in Doing /\ LetIn(t) /\ Aims(t)
      BY <2>1, <2>2 DEF Doing, Seen, LetIn, Aims
    <2>4. tx' = [tx EXCEPT ![s] = t]  BY <1>1
    <2> HIDE DEF t
    <2> QED  BY <1>0, <2>3, <2>4, PictureOfOne
  <1>2. ASSUME NEW p \in Applicant, NEW k \in Kind, NEW a \in Picture!NationOf(p),
               tx' = [tx EXCEPT ![s] = [phase |-> "body", owner |-> <<"nation", a>>,
                                        kind |-> k, seen |-> "nation"]]
        PROVE  PictureInv'
    <2> DEFINE t == [phase |-> "body", owner |-> <<"nation", a>>, kind |-> k, seen |-> "nation"]
    <2>1. a \in Filing  BY DEF Picture!NationOf, PictureInv, PictureTypes
    <2>2. <<"nation", a>> \in Picture!Owner
      BY <2>1 DEF Picture!Owner, Filing, Picture!Filing
    <2>3. t \in Doing /\ LetIn(t) /\ Aims(t)
      BY <2>2 DEF Doing, Seen, LetIn, Aims
    <2>4. tx' = [tx EXCEPT ![s] = t]  BY <1>2
    <2> HIDE DEF t
    <2> QED  BY <1>0, <2>3, <2>4, PictureOfOne
  <1> QED  BY <1>1, <1>2 DEF Picture!Ask

(* What a session that has a phase has read.                               *)
LEMMA BodyRead ==
  ASSUME PictureInv, NEW s \in Session, tx[s].phase = "body"
  PROVE  /\ tx[s].owner \in Picture!Owner /\ tx[s].kind \in Kind /\ tx[s].seen \in Seen
         /\ tx[s].owner[1] = "nation" <=> tx[s].seen = "nation"
  <1>1. tx[s] \in Doing /\ LetIn(tx[s])  BY DEF PictureInv, PictureTypes, UploadsAim
  <1> QED  BY <1>1 DEF Doing, LetIn, Picture!Idle

LEMMA LookRead ==
  ASSUME PictureInv, NEW s \in Session, tx[s].phase = "look"
  PROVE  /\ tx[s].owner \in Picture!Owner /\ tx[s].kind \in Kind /\ tx[s].seen \in Seen
         /\ tx[s].file \in File
         /\ tx[s].owner[1] = "nation" <=> tx[s].seen = "nation"
  <1>1. tx[s] \in Doing /\ LetIn(tx[s])  BY DEF PictureInv, PictureTypes, UploadsAim
  <1> QED  BY <1>1 DEF Doing, LetIn, Picture!Idle

LEMMA WriteRead ==
  ASSUME PictureInv, NEW s \in Session, tx[s].phase = "write"
  PROVE  /\ tx[s] = [phase |-> "write", owner |-> tx[s].owner, kind |-> tx[s].kind,
                     seen |-> tx[s].seen, file |-> tx[s].file, id |-> tx[s].id]
         /\ tx[s].owner \in Picture!Owner /\ tx[s].kind \in Kind /\ tx[s].seen \in Seen
         /\ tx[s].file \in File /\ tx[s].id \in Nat
         /\ tx[s].owner[1] = "nation" <=> tx[s].seen = "nation"
         /\ tx[s].owner[1] = "application" => tx[s].seen = "DRAFT"
  <1>1. tx[s] \in Doing /\ LetIn(tx[s])  BY DEF PictureInv, PictureTypes, UploadsAim
  <1> QED  BY <1>1 DEF Doing, LetIn, Picture!Idle

LEMMA ProcessKeeps ==
  ASSUME PictureInv, NEW s \in Session, Picture!Process(s)
  PROVE  PictureInv'
  <1>1. tx[s].phase = "body"  BY DEF Picture!Process
  <1>2. CASE Picture!Stop(s)  BY <1>2, PictureStops
  <1>3. ASSUME NEW f \in File, UNCHANGED <<app, filed, nations, rows, lastId>>,
               tx' = [tx EXCEPT ![s] = [phase |-> "look", owner |-> tx[s].owner,
                                        kind |-> tx[s].kind, seen |-> tx[s].seen, file |-> f]]
        PROVE  PictureInv'
    <2> DEFINE t == [phase |-> "look", owner |-> tx[s].owner, kind |-> tx[s].kind,
                     seen |-> tx[s].seen, file |-> f]
    <2>1. t \in Doing /\ LetIn(t) /\ Aims(t)  BY <1>1, BodyRead DEF Doing, LetIn, Aims
    <2>2. tx' = [tx EXCEPT ![s] = t]  BY <1>3
    <2> HIDE DEF t
    <2> QED  BY <1>3, <2>1, <2>2, PictureOfOne
  <1> QED  BY <1>2, <1>3 DEF Picture!Process

(* The row an upload finds is of its kind and of its owner.                *)
LEMMA FoundSuits ==
  ASSUME PictureInv, NEW s \in Session, tx[s].phase \in {"look", "write"}
  PROVE  /\ Picture!Found(tx[s]) \in Nat
         /\ Picture!Found(tx[s]) # 0 =>
              /\ Picture!Found(tx[s]) <= lastId
              /\ \A r \in rows : r.id = Picture!Found(tx[s]) =>
                   r.kind = tx[s].kind /\ r.owner = tx[s].owner
  <1> DEFINE its == Picture!Of(tx[s].owner, tx[s].kind)
  <1>1. CASE its = {}  BY <1>1 DEF Picture!Found, Picture!None
  <1>2. CASE its # {}
    <2>1. PICK r \in its : Picture!Found(tx[s]) = r.id  BY <1>2 DEF Picture!Found
    <2>2. r \in rows /\ r.owner = tx[s].owner /\ r.kind = tx[s].kind  BY DEF Picture!Of
    <2>3. r.id \in 1..lastId /\ lastId \in Nat  BY <2>2 DEF PictureInv, PictureTypes, Rows
    <2> QED  BY <2>1, <2>2, <2>3 DEF PictureInv, IdsOnce
  <1> QED  BY <1>1, <1>2

LEMMA LookKeeps ==
  ASSUME PictureInv, NEW s \in Session, Picture!Look(s)
  PROVE  PictureInv'
  <1>0. tx[s].phase = "look" /\ UNCHANGED <<app, filed, nations, rows, lastId>>
    BY DEF Picture!Look
  <1>1. CASE ~Picture!Welcome(tx[s])
    BY <1>0, <1>1, PictureOfOne, IdleIsNothing DEF Picture!Look
  <1>2. CASE Picture!Welcome(tx[s])
    <2> DEFINE t == [phase |-> "write", owner |-> tx[s].owner, kind |-> tx[s].kind,
                     seen |-> tx[s].seen, file |-> tx[s].file, id |-> Picture!Found(tx[s])]
    <2>1. tx' = [tx EXCEPT ![s] = t]  BY <1>2 DEF Picture!Look
    <2>2. t \in Doing  BY <1>0, LookRead, FoundSuits DEF Doing
    <2>3. LetIn(t)
      BY <1>0, <1>2, LookRead DEF LetIn, Picture!Welcome, Picture!Owner
    <2>4. Aims(t)  BY <1>0, FoundSuits DEF Aims, Suits
    <2> HIDE DEF t
    <2> QED  BY <1>0, <2>1, <2>2, <2>3, <2>4, PictureOfOne
  <1> QED  BY <1>1, <1>2

LEMMA CollideKeeps ==
  ASSUME PictureInv, NEW s \in Session, Picture!Collide(s)
  PROVE  PictureInv'
  <1>0. tx[s].phase = "write"  BY DEF Picture!Collide
  <1>1. CASE Picture!Stop(s)  BY <1>1, PictureStops
  <1>2. CASE /\ tx' = [tx EXCEPT ![s].id = Picture!Found(tx[s])]
             /\ UNCHANGED <<app, filed, nations, rows, lastId>>
    <2> DEFINE t == [phase |-> "write", owner |-> tx[s].owner, kind |-> tx[s].kind,
                     seen |-> tx[s].seen, file |-> tx[s].file, id |-> Picture!Found(tx[s])]
    <2>1. \A x, o, k, e, f, i, j :
            x = [phase |-> "write", owner |-> o, kind |-> k, seen |-> e, file |-> f, id |-> i]
              => [x EXCEPT !.id = j]
                   = [phase |-> "write", owner |-> o, kind |-> k, seen |-> e, file |-> f, id |-> j]
      OBVIOUS
    <2> DEFINE x == tx[s]  o == tx[s].owner  k == tx[s].kind  e == tx[s].seen
               f == tx[s].file  i == tx[s].id  j == Picture!Found(tx[s])
    <2>2. x = [phase |-> "write", owner |-> o, kind |-> k, seen |-> e, file |-> f, id |-> i]
      BY <1>0, WriteRead
    <2>3. t = [phase |-> "write", owner |-> o, kind |-> k, seen |-> e, file |-> f, id |-> j]
      OBVIOUS
    <2>4. [x EXCEPT !.id = j] = t
      <3> HIDE DEF x, o, k, e, f, i, j, t
      <3> QED  BY <2>1, <2>3, <2>2
    <2>5. [tx[s] EXCEPT !.id = Picture!Found(tx[s])] = t  BY <2>4
    <2>6. tx' = [tx EXCEPT ![s] = t]  BY <1>2, <2>5
    <2>7. t \in Doing /\ LetIn(t)  BY <1>0, WriteRead, FoundSuits DEF Doing, LetIn
    <2>8. Aims(t)  BY <1>0, FoundSuits DEF Aims, Suits
    <2> HIDE DEF t
    <2> QED  BY <1>2, <2>6, <2>7, <2>8, PictureOfOne
  <1> QED  BY <1>1, <1>2 DEF Picture!Collide

LEMMA PickKeeps ==
  ASSUME PictureInv, NEW s \in Session, Picture!Pick(s)
  PROVE  PictureInv'
  <1>1. PICK r \in rows :
          tx' = [tx EXCEPT ![s] = [phase |-> "remove", id |-> r.id, owner |-> r.owner,
                                   file |-> r.file]]
    BY DEF Picture!Pick
  <1>2. UNCHANGED <<app, filed, nations, rows, lastId>>  BY DEF Picture!Pick
  <1> DEFINE t == [phase |-> "remove", id |-> r.id, owner |-> r.owner, file |-> r.file]
  <1>3. r \in Rows(lastId) /\ lastId \in Nat  BY DEF PictureInv, PictureTypes
  <1>4. t \in Doing /\ LetIn(t) /\ Aims(t)  BY <1>3 DEF Doing, Rows, LetIn, Aims
  <1>5. tx' = [tx EXCEPT ![s] = t]  BY <1>1
  <1> HIDE DEF t
  <1> QED  BY <1>2, <1>4, <1>5, PictureOfOne

LEMMA RemoveKeeps ==
  ASSUME PictureInv, NEW s \in Session, Picture!Remove(s)
  PROVE  PictureInv'
  <1>0. PictureTypes  BY DEF PictureInv
  <1>1. /\ rows' \subseteq rows /\ UNCHANGED <<app, filed, nations, lastId>>
        /\ tx' = [tx EXCEPT ![s] = Picture!Idle]
    BY DEF Picture!Remove
  <1>2. \A u \in Session : tx'[u] \in {tx[u], Picture!Idle}  BY <1>0, <1>1 DEF PictureTypes
  <1>3. tx' \in [Session -> Doing]  BY <1>0, <1>1, IdleIsNothing DEF PictureTypes
  <1>4. LaterIsNotFiled'  BY <1>1 DEF PictureInv, LaterIsNotFiled
  <1>5. \A r \in rows' : Holds(r)'
    BY <1>1 DEF PictureInv, OwnersAreThere, Holds, Picture!Exists
  <1> QED  BY <1>0, <1>1, <1>2, <1>3, <1>4, <1>5, PictureFewer DEF PictureTypes


(* The row an upload inserts: it has an owner, under an id of its own.     *)
LEMMA InsertKeeps ==
  ASSUME PictureInv, NEW s \in Session, Picture!Insert(s)
  PROVE  PictureInv'
  <1> USE DEF PictureInv
  <1>0. PICK n : /\ n = [id |-> lastId + 1, owner |-> tx[s].owner, kind |-> tx[s].kind,
                         file |-> tx[s].file, late |-> Picture!Late(tx[s])]
                 /\ rows' = rows \cup {n}
    BY DEF Picture!Insert
  <1>1. /\ tx[s].phase = "write" /\ Picture!Exists(tx[s].owner)
        /\ Picture!Of(tx[s].owner, tx[s].kind) = {}
        /\ lastId' = lastId + 1 /\ rows' = rows \cup {n}
        /\ tx' = [tx EXCEPT ![s] = Picture!Idle] /\ UNCHANGED <<app, filed, nations>>
    BY <1>0 DEF Picture!Insert
  <1>2. /\ n.id = lastId + 1 /\ n.owner = tx[s].owner /\ n.kind = tx[s].kind
        /\ n.late = Picture!Late(tx[s])
    BY <1>0
  <1>3. n \in [id : 1..(lastId + 1), owner : Picture!Owner, kind : Kind, file : File, late : BOOLEAN]
    BY <1>0, <1>1, WriteRead DEF PictureTypes, Picture!Late
  <1>4. lastId \in Nat /\ \A r \in rows : r \in Rows(lastId) /\ r.id \in 1..lastId
    BY DEF PictureTypes, Rows
  <1>5. Rows(lastId) \subseteq Rows(lastId') /\ n \in Rows(lastId')
    BY <1>1, <1>3, <1>4 DEF Rows
  <1>6. Holds(n)'
    <2>1. Picture!Exists(n.owner)'  BY <1>1, <1>2 DEF Picture!Exists
    <2>2. ASSUME ~n.late, n.owner[1] = "application" PROVE app[n.owner[2]].status # "ACCEPTED"
      BY <1>1, <1>2, <2>2, WriteRead DEF Picture!Late
    <2> QED  BY <1>1, <2>1, <2>2 DEF Holds
  <1>7. \A r \in rows : r.id # n.id /\ ~(r.owner = n.owner /\ r.kind = n.kind)
    BY <1>1, <1>2, <1>4 DEF Picture!Of
  <1>8. PictureTypes'
    <2>1. rows' \subseteq Rows(lastId')  BY <1>1, <1>4, <1>5
    <2> QED  BY <1>1, <1>4, <2>1, IdleIsNothing DEF PictureTypes
  <1>9. NationsAreAccepted' /\ LaterIsNotFiled'
    BY <1>1 DEF NationsAreAccepted, LaterIsNotFiled
  <1>10. OwnersAreThere'
    BY <1>1, <1>6 DEF OwnersAreThere, Holds, Picture!Exists
  <1>11. IdsOnce' /\ KindsOnce'  BY <1>1, <1>7 DEF IdsOnce, KindsOnce
  <1>12. \A u \in Session : LetIn(tx[u])' /\ Aims(tx[u])'
    <2> SUFFICES ASSUME NEW u \in Session PROVE LetIn(tx[u])' /\ Aims(tx[u])'  OBVIOUS
    <2>1. tx'[u] = tx[u] \/ tx'[u] = Picture!Idle  BY <1>1 DEF PictureTypes
    <2>2. LetIn(tx'[u]) /\ Aims(tx'[u])  BY <2>1, IdleIsNothing DEF UploadsAim
    <2>3. tx'[u] \in Doing  BY <1>8 DEF PictureTypes
    <2>4. tx'[u].phase = "write" => tx'[u].id \in Nat  BY <2>3 DEF Doing, Picture!Idle
    <2>5. tx'[u].phase = "write" /\ tx'[u].id # 0 =>
            tx'[u].id <= lastId' /\ tx'[u].id # n.id
      BY <1>1, <1>2, <1>4, <2>2, <2>4 DEF Aims
    <2> QED  BY <1>1, <2>2, <2>5 DEF Aims, Suits
  <1>13. UploadsAim'  BY <1>12 DEF UploadsAim, Aims, LetIn, Suits
  <1> QED  BY <1>8, <1>9, <1>10, <1>11, <1>13

(* A rewritten picture keeps its place; it is late if its upload was.      *)
LEMMA RewriteChanges ==
  ASSUME PictureInv, NEW s \in Session, Picture!Rewrite(s), NEW q \in rows'
  PROVE  \E r \in rows :
           /\ q.id = r.id /\ q.kind = r.kind /\ q.owner = r.owner /\ q \in Rows(lastId)
           /\ IF r.id = tx[s].id THEN q.file = tx[s].file /\ q.late = (r.late \/ Picture!Late(tx[s]))
              ELSE q = r
  <1>1. PICK r \in rows :
          q = IF r.id = tx[s].id
              THEN [r EXCEPT !.file = tx[s].file, !.late = @ \/ Picture!Late(tx[s])] ELSE r
    BY DEF Picture!Rewrite
  <1>2. r \in Rows(lastId) /\ tx[s].file \in File
    BY WriteRead DEF Picture!Rewrite, PictureInv, PictureTypes
  <1>3. CASE r.id = tx[s].id
    <2>1. q = [r EXCEPT !.file = tx[s].file, !.late = r.late \/ Picture!Late(tx[s])]
      BY <1>1, <1>3
    <2>2. (r.late \/ Picture!Late(tx[s])) \in BOOLEAN  OBVIOUS
    <2> QED  BY <1>2, <1>3, <2>1, <2>2 DEF Rows
  <1>4. CASE r.id # tx[s].id  BY <1>1, <1>2, <1>4
  <1> QED  BY <1>3, <1>4

LEMMA RewriteKeeps ==
  ASSUME PictureInv, NEW s \in Session, Picture!Rewrite(s)
  PROVE  PictureInv'
  <1> USE DEF PictureInv
  <1>1. /\ tx' = [tx EXCEPT ![s] = Picture!Idle]
        /\ UNCHANGED <<app, filed, nations, lastId>>
    BY DEF Picture!Rewrite
  <1>2. \A q \in rows' : \E r \in rows :
          /\ q.id = r.id /\ q.kind = r.kind /\ q.owner = r.owner /\ q \in Rows(lastId)
          /\ (r.late => q.late) /\ (r.id # tx[s].id => q = r)
    <2> SUFFICES ASSUME NEW q \in rows'
                 PROVE  \E r \in rows :
                          /\ q.id = r.id /\ q.kind = r.kind /\ q.owner = r.owner
                          /\ q \in Rows(lastId)
                          /\ (r.late => q.late) /\ (r.id # tx[s].id => q = r)
      OBVIOUS
    <2>1. PICK r \in rows :
            /\ q.id = r.id /\ q.kind = r.kind /\ q.owner = r.owner /\ q \in Rows(lastId)
            /\ IF r.id = tx[s].id
               THEN q.file = tx[s].file /\ q.late = (r.late \/ Picture!Late(tx[s])) ELSE q = r
      BY RewriteChanges
    <2>2. r.late => q.late  BY <2>1
    <2> QED  BY <2>1, <2>2
  <1>3. PictureTypes'  BY <1>1, <1>2, IdleIsNothing DEF PictureTypes
  <1>4. NationsAreAccepted' /\ LaterIsNotFiled'
    BY <1>1 DEF NationsAreAccepted, LaterIsNotFiled
  <1>5. OwnersAreThere'
    BY <1>1, <1>2 DEF OwnersAreThere, Holds, Picture!Exists
  <1>6. IdsOnce' /\ KindsOnce'
    <2> SUFFICES ASSUME NEW q1 \in rows', NEW q2 \in rows',
                        q1.id = q2.id \/ (q1.owner = q2.owner /\ q1.kind = q2.kind)
                 PROVE  q1 = q2
      BY DEF IdsOnce, KindsOnce
    <2>1. PICK r1 \in rows :
            /\ q1.id = r1.id /\ q1.kind = r1.kind /\ q1.owner = r1.owner /\ q1 \in Rows(lastId)
            /\ IF r1.id = tx[s].id
               THEN q1.file = tx[s].file /\ q1.late = (r1.late \/ Picture!Late(tx[s]))
               ELSE q1 = r1
      BY RewriteChanges
    <2>2. PICK r2 \in rows :
            /\ q2.id = r2.id /\ q2.kind = r2.kind /\ q2.owner = r2.owner /\ q2 \in Rows(lastId)
            /\ IF r2.id = tx[s].id
               THEN q2.file = tx[s].file /\ q2.late = (r2.late \/ Picture!Late(tx[s]))
               ELSE q2 = r2
      BY RewriteChanges
    <2>3. r1 = r2  BY <2>1, <2>2 DEF IdsOnce, KindsOnce
    <2>4. q1.file = q2.file /\ q1.late = q2.late  BY <2>1, <2>2, <2>3
    <2> QED  BY <2>1, <2>2, <2>3, <2>4 DEF Rows
  <1>7. \A u \in Session : LetIn(tx[u])' /\ Aims(tx[u])'
    <2> SUFFICES ASSUME NEW u \in Session PROVE LetIn(tx[u])' /\ Aims(tx[u])'  OBVIOUS
    <2>1. tx'[u] = tx[u] \/ tx'[u] = Picture!Idle  BY <1>1 DEF PictureTypes
    <2>2. LetIn(tx'[u]) /\ Aims(tx'[u])  BY <2>1, IdleIsNothing DEF UploadsAim
    <2> QED  BY <1>1, <1>2, <2>2 DEF Aims, Suits
  <1>8. UploadsAim'  BY <1>7 DEF UploadsAim, Aims, LetIn, Suits
  <1> QED  BY <1>3, <1>4, <1>5, <1>6, <1>8

LEMMA PictureNext ==
  ASSUME MaxFiled \in Nat, PictureInv, [Picture!Next]_(Picture!vars)
  PROVE  PictureInv'
  <1>1. ASSUME NEW p \in Applicant, Picture!Draft(p) PROVE PictureInv'  BY <1>1, DraftKeeps
  <1>2. ASSUME NEW p \in Applicant, Picture!Evict(p) PROVE PictureInv'  BY <1>2, EvictKeeps
  <1>3. ASSUME NEW a \in Filing, Picture!Move(a, "DRAFT", "PENDING")
               \/ Picture!Move(a, "PENDING", "DRAFT") \/ Picture!Accept(a)
        PROVE  PictureInv'
    BY <1>3, MoveKeeps, AcceptKeeps
  <1>4. ASSUME NEW a \in nations, Picture!DeleteNation(a) PROVE PictureInv'
    <2>1. a \in Filing  BY DEF PictureInv, PictureTypes
    <2> QED  BY <1>4, <2>1, DeleteNationKeeps
  <1>5. CASE Picture!Reset  BY <1>5, ResetKeeps
  <1>6. ASSUME NEW s \in Session, Picture!Upload(s) \/ Picture!Pick(s) \/ Picture!Remove(s)
        PROVE  PictureInv'
    BY <1>6, AskKeeps, ProcessKeeps, LookKeeps, InsertKeeps, CollideKeeps, RewriteKeeps,
       PickKeeps, RemoveKeeps DEF Picture!Upload
  <1>7. CASE UNCHANGED Picture!vars
    <2>1. UNCHANGED <<app, filed, nations, rows, lastId, tx>>  BY <1>7 DEF Picture!vars
    <2> QED
      BY <2>1 DEF PictureInv, PictureTypes, NationsAreAccepted, LaterIsNotFiled, OwnersAreThere,
         Holds, Picture!Exists, IdsOnce, KindsOnce, UploadsAim, LetIn, Aims, Suits
  <1> QED
    BY <1>1, <1>2, <1>3, <1>4, <1>5, <1>6, <1>7 DEF Picture!Next, Filing, Picture!Filing

LEMMA PictureInvariant == ASSUME MaxFiled \in Nat PROVE Picture!Spec => []PictureInv
  <1>1. Picture!Init => PictureInv  BY PictureInit
  <1>2. PictureInv /\ [Picture!Next]_(Picture!vars) => PictureInv'  BY PictureNext
  <1> QED  BY <1>1, <1>2, PTL DEF Picture!Spec

(* INV-15 (_apply_image and the unique index of the table): one picture of *)
(* a kind, and every picture not written late belongs to a nation or an    *)
(* application that can show it - for any number of uploads, deletions,    *)
(* acceptances and resets under way together.                              *)
THEOREM PicturesOwned ==
  ASSUME MaxFiled \in Nat PROVE Picture!Spec => []Picture!PicturesHaveOwners
  <1>1. PictureInv => Picture!PicturesHaveOwners
    <2> SUFFICES ASSUME PictureInv, NEW r \in rows
                 PROVE  /\ Picture!Of(r.owner, r.kind) = {r}
                        /\ Picture!Exists(r.owner) \/ r.late
                        /\ r.late \/ (r.owner[1] = "application"
                                        => app[r.owner[2]].status # "ACCEPTED")
      BY DEF Picture!PicturesHaveOwners
    <2>1. Holds(r)  BY DEF PictureInv, OwnersAreThere
    <2>2. \A q \in Picture!Of(r.owner, r.kind) : q = r
      BY DEF PictureInv, KindsOnce, Picture!Of
    <2>3. r \in Picture!Of(r.owner, r.kind)  BY DEF Picture!Of
    <2> QED  BY <2>1, <2>2, <2>3 DEF Holds
  <1> QED  BY <1>1, PictureInvariant, PTL


(* What most steps leave: the pictures as they are.                        *)
LEMMA QuietSteps ==
  ASSUME [Picture!Next]_(Picture!vars)
  PROVE  \/ UNCHANGED rows
         \/ \E p \in Applicant : Picture!Evict(p)
         \/ \E a \in Filing : Picture!Accept(a)
         \/ \E a \in nations : Picture!DeleteNation(a)
         \/ Picture!Reset
         \/ \E s \in Session : Picture!Insert(s) \/ Picture!Rewrite(s) \/ Picture!Remove(s)
  <1>1. ASSUME NEW p \in Applicant, Picture!Draft(p) PROVE UNCHANGED rows
    BY <1>1 DEF Picture!Draft
  <1>2. ASSUME NEW a \in Filing, NEW from, NEW to, Picture!Move(a, from, to)
        PROVE  UNCHANGED rows
    BY <1>2 DEF Picture!Move
  <1>3. ASSUME NEW s \in Session, Picture!Ask(s) \/ Picture!Process(s) \/ Picture!Look(s)
               \/ Picture!Collide(s) \/ Picture!Pick(s)
        PROVE  UNCHANGED rows
    BY <1>3 DEF Picture!Ask, Picture!Process, Picture!Look, Picture!Collide, Picture!Pick,
       Picture!Stop
  <1>4. CASE UNCHANGED Picture!vars  BY <1>4 DEF Picture!vars
  <1> QED
    BY <1>1, <1>2, <1>3, <1>4 DEF Picture!Next, Picture!Upload, Filing, Picture!Filing

(* While an application stays pending, its rows stay.                      *)
LEMMA PendingRowsStay ==
  ASSUME MaxFiled \in Nat, PictureInv, [Picture!Next]_(Picture!vars), NEW a \in Filing,
         app[a].status = "PENDING", app'[a].status = "PENDING",
         \A s \in Session : tx[s].phase # "remove"
                            /\ ~(tx[s].phase = "write" /\ Picture!Late(tx[s]))
  PROVE  {q \in rows' : q.owner = <<"application", a>>}
           = {q \in rows : q.owner = <<"application", a>>}
  <1> DEFINE o == <<"application", a>>
             Same == {q \in rows' : q.owner = o} = {q \in rows : q.owner = o}
  <1> SUFFICES Same  OBVIOUS
  <1>0. ASSUME NEW s \in Session, tx[s].phase = "write", tx[s].owner = o PROVE FALSE
    <2>1. o[1] = "application" /\ o[2] = a  OBVIOUS
    <2>2. tx[s].seen = "DRAFT"  BY <1>0, <2>1, WriteRead
    <2>3. app[tx[s].owner[2]].status # tx[s].seen /\ tx[s].owner[1] = "application"
      BY <1>0, <2>1, <2>2
    <2> QED  BY <1>0, <2>3 DEF Picture!Late
  <1>1. CASE UNCHANGED rows  BY <1>1
  <1>2. ASSUME NEW p \in Applicant, Picture!Evict(p) PROVE Same
    <2> DEFINE his == {b \in Filing : app[b].status # "none" /\ app[b].owner = p}
    <2>1. /\ app' = [b \in Filing |-> IF b \in his THEN Picture!NoApplication ELSE app[b]]
          /\ rows' = {r \in rows : r.owner \notin {"application", "nation"} \X his}
      BY <1>2 DEF Picture!Evict, Picture!Purge, Filing, Picture!Filing
    <2> HIDE DEF his
    <2>2. a \notin his  BY <2>1 DEF Picture!NoApplication
    <2> QED  BY <2>1, <2>2
  <1>3. ASSUME NEW b \in Filing, Picture!Accept(b) PROVE Same
    <2>1. app' = [app EXCEPT ![b].status = "ACCEPTED"] /\ app[b].status = "PENDING"
      BY <1>3 DEF Picture!Accept
    <2>2. app[b] \in [status : {"DRAFT", "PENDING", "ACCEPTED"}, owner : Applicant]
      BY <2>1 DEF PictureInv, PictureTypes, Filed, Picture!NoApplication
    <2>3. b # a  BY <2>1, <2>2 DEF PictureInv, PictureTypes
    <2>4. \A q \in rows' : q.owner = o => q \in rows
      BY <1>3, AcceptMoves
    <2>5. \A r \in rows : r.owner = o => r \in rows'
      <3> SUFFICES ASSUME NEW r \in rows, r.owner = o PROVE r \in rows'  OBVIOUS
      <3>1. r.owner # <<"application", b>>  BY <2>3
      <3> QED  BY <1>3, <3>1 DEF Picture!Accept
    <2> QED  BY <2>4, <2>5
  <1>4. ASSUME NEW b \in nations, Picture!DeleteNation(b) PROVE Same
    BY <1>4 DEF Picture!DeleteNation, Picture!Purge
  <1>5. CASE Picture!Reset
    <2>1. app' = [b \in Filing |-> Picture!NoApplication]
      BY <1>5 DEF Picture!Reset, Filing, Picture!Filing
    <2> QED  BY <2>1 DEF Picture!NoApplication
  <1>6. ASSUME NEW s \in Session, Picture!Insert(s) PROVE Same
    <2>1. PICK n : n.owner = tx[s].owner /\ rows' = rows \cup {n}
      BY <1>6 DEF Picture!Insert
    <2>2. tx[s].owner # o  BY <1>0, <1>6 DEF Picture!Insert
    <2> QED  BY <2>1, <2>2
  <1>7. ASSUME NEW s \in Session, Picture!Rewrite(s) PROVE Same
    <2>1. tx[s].phase = "write" /\ tx[s].id # 0
      BY <1>7 DEF Picture!Rewrite, Picture!None
    <2>2. \A r \in rows : r.id = tx[s].id => r.owner # o
      <3> SUFFICES ASSUME NEW r \in rows, r.id = tx[s].id, r.owner = o PROVE FALSE  OBVIOUS
      <3>1. Suits(r, tx[s])  BY <2>1 DEF PictureInv, UploadsAim, Aims
      <3>2. tx[s].owner \in Picture!Owner  BY <2>1, WriteRead
      <3>3. o[1] = "application" /\ o[2] = a  OBVIOUS
      <3>4. tx[s].owner[1] # "nation" /\ tx[s].owner[2] = a  BY <3>1, <3>3 DEF Suits
      <3>5. tx[s].owner = o  BY <3>2, <3>4 DEF Picture!Owner
      <3> QED  BY <1>0, <2>1, <3>5
    <2>3. \A q \in rows' : q.owner = o => q \in rows
      <3> SUFFICES ASSUME NEW q \in rows', q.owner = o PROVE q \in rows  OBVIOUS
      <3>1. PICK r \in rows : q.owner = r.owner /\ (r.id # tx[s].id => q = r)
        BY <1>7, RewriteChanges
      <3> QED  BY <2>2, <3>1
    <2>4. \A r \in rows : r.owner = o => r \in rows'
      <3> SUFFICES ASSUME NEW r \in rows, r.owner = o PROVE r \in rows'  OBVIOUS
      <3>1. r.id # tx[s].id  BY <2>2
      <3> QED  BY <1>7, <3>1 DEF Picture!Rewrite
    <2> QED  BY <2>3, <2>4
  <1>8. ASSUME NEW s \in Session, Picture!Remove(s) PROVE Same
    BY <1>8 DEF Picture!Remove
  <1> QED  BY <1>1, <1>2, <1>3, <1>4, <1>5, <1>6, <1>7, <1>8, QuietSteps

(* What the reviewers of a pending application look at changes only by an  *)
(* administrator's removal or by an upload let in while it was a draft     *)
(* (put_application_image looks at the status it loaded before).           *)
THEOREM ReviewedStand ==
  ASSUME MaxFiled \in Nat PROVE Picture!Spec => Picture!ReviewedPicturesStand
  <1> DEFINE Step ==
        \A a \in Picture!Filing : LET o == <<"application", a>> IN
          app[a].status = "PENDING" /\ app'[a].status = "PENDING"
          /\ Picture!Pictures(o)' # Picture!Pictures(o)
            => \E s \in Session : \/ tx[s].phase = "remove"
                                  \/ tx[s].phase = "write" /\ Picture!Late(tx[s])
  <1>1. PictureInv /\ [Picture!Next]_(Picture!vars) => Step
    <2> SUFFICES ASSUME PictureInv, [Picture!Next]_(Picture!vars), NEW a \in Picture!Filing,
                        app[a].status = "PENDING", app'[a].status = "PENDING",
                        \A s \in Session : tx[s].phase # "remove"
                               /\ ~(tx[s].phase = "write" /\ Picture!Late(tx[s]))
                 PROVE  Picture!Pictures(<<"application", a>>)'
                          = Picture!Pictures(<<"application", a>>)
      OBVIOUS
    <2>1. {q \in rows' : q.owner = <<"application", a>>}
            = {q \in rows : q.owner = <<"application", a>>}
      BY PendingRowsStay DEF Filing, Picture!Filing
    <2> QED  BY <2>1 DEF Picture!Pictures
  <1>2. Picture!ReviewedPicturesStand <=> [][Step]_(Picture!vars)
    BY DEF Picture!ReviewedPicturesStand
  <1> HIDE DEF Step
  <1> QED  BY <1>1, <1>2, PictureInvariant, PTL DEF Picture!Spec

(* A row that goes while its owner stays goes on record; one that stays    *)
(* keeps its kind and the application it was filed with.                   *)
LEMMA RowsLeaveOnRecord ==
  ASSUME MaxFiled \in Nat, PictureInv, [Picture!Next]_(Picture!vars), NEW r \in rows
  PROVE  /\ (\A q \in rows' : q.id # r.id) /\ Picture!Exists(r.owner)'
              => \E e \in removed' : e.id = r.id
         /\ \A q \in rows' : q.id = r.id => q.kind = r.kind /\ q.owner[2] = r.owner[2]
  <1> DEFINE Goes == (\A q \in rows' : q.id # r.id) /\ Picture!Exists(r.owner)'
                       => \E e \in removed' : e.id = r.id
             Keeps == \A q \in rows' : q.id = r.id => q.kind = r.kind /\ q.owner[2] = r.owner[2]
  <1>0. /\ \A q \in rows : q.id = r.id => q = r
        /\ r.owner \in Picture!Owner /\ r.owner[2] \in Filing
    BY DEF PictureInv, IdsOnce, PictureTypes, Rows, Picture!Owner, Filing, Picture!Filing
  <1>1. CASE UNCHANGED rows  BY <1>0, <1>1
  <1>2. ASSUME NEW p \in Applicant, Picture!Evict(p) PROVE Goes /\ Keeps
    <2> DEFINE his == {b \in Filing : app[b].status # "none" /\ app[b].owner = p}
    <2>1. /\ app' = [b \in Filing |-> IF b \in his THEN Picture!NoApplication ELSE app[b]]
          /\ rows' = {q \in rows : q.owner \notin {"application", "nation"} \X his}
          /\ nations' = nations \ his
      BY <1>2 DEF Picture!Evict, Picture!Purge, Filing, Picture!Filing
    <2> HIDE DEF his
    <2>2. CASE r \in rows'  BY <1>0, <2>1, <2>2
    <2>3. CASE r \notin rows'
      <3>1. r.owner[2] \in his  BY <2>1, <2>3
      <3>2. ~Picture!Exists(r.owner)'
        BY <1>0, <2>1, <3>1 DEF Picture!Exists, Picture!NoApplication
      <3> QED  BY <1>0, <2>1, <3>2
    <2> QED  BY <2>2, <2>3
  <1>3. ASSUME NEW b \in Filing, Picture!Accept(b) PROVE Goes /\ Keeps
    <2>1. Keeps
      <3> SUFFICES ASSUME NEW q \in rows', q.id = r.id
                   PROVE  q.kind = r.kind /\ q.owner[2] = r.owner[2]
        OBVIOUS
      <3>1. PICK x \in rows :
              /\ q.id = x.id /\ q.kind = x.kind
              /\ IF x.owner = <<"application", b>> THEN q.owner = <<"nation", b>> ELSE q = x
        BY <1>3, AcceptMoves
      <3> QED  BY <1>0, <3>1
    <2>2. \E q \in rows' : q.id = r.id
      <3>1. rows' = {IF x.owner = <<"application", b>> THEN [x EXCEPT !.owner = <<"nation", b>>]
                     ELSE x : x \in rows}
        BY <1>3 DEF Picture!Accept
      <3>2. r \in Rows(lastId)  BY DEF PictureInv, PictureTypes
      <3>3. [r EXCEPT !.owner = <<"nation", b>>].id = r.id  BY <3>2 DEF Rows
      <3> QED  BY <3>1, <3>3
    <2> QED  BY <2>1, <2>2
  <1>4. ASSUME NEW b \in nations, Picture!DeleteNation(b) PROVE Goes /\ Keeps
    <2>1. rows' = {q \in rows : q.owner # <<"nation", b>>} /\ nations' = nations \ {b}
      BY <1>4 DEF Picture!DeleteNation, Picture!Purge
    <2>2. r.owner = <<"nation", b>> => ~Picture!Exists(r.owner)'
      BY <2>1 DEF Picture!Exists
    <2> QED  BY <1>0, <2>1, <2>2
  <1>5. CASE Picture!Reset
    <2>1. /\ app' = [b \in Filing |-> Picture!NoApplication] /\ nations' = {} /\ rows' = {}
      BY <1>5 DEF Picture!Reset, Filing, Picture!Filing
    <2>2. ~Picture!Exists(r.owner)'
      BY <1>0, <2>1 DEF Picture!Exists, Picture!NoApplication
    <2> QED  BY <2>1, <2>2
  <1>6. ASSUME NEW s \in Session, Picture!Insert(s) PROVE Goes /\ Keeps
    <2>1. PICK n : n.id = lastId + 1 /\ rows' = rows \cup {n}
      BY <1>6 DEF Picture!Insert
    <2>2. r.id \in 1..lastId /\ lastId \in Nat  BY DEF PictureInv, PictureTypes, Rows
    <2> QED  BY <1>0, <2>1, <2>2
  <1>7. ASSUME NEW s \in Session, Picture!Rewrite(s) PROVE Goes /\ Keeps
    <2>1. Keeps
      <3> SUFFICES ASSUME NEW q \in rows', q.id = r.id
                   PROVE  q.kind = r.kind /\ q.owner[2] = r.owner[2]
        OBVIOUS
      <3>1. PICK x \in rows : q.id = x.id /\ q.kind = x.kind /\ q.owner = x.owner
        BY <1>7, RewriteChanges
      <3> QED  BY <1>0, <3>1
    <2>2. \E q \in rows' : q.id = r.id
      <3>1. rows' = {IF x.id = tx[s].id
                     THEN [x EXCEPT !.file = tx[s].file, !.late = @ \/ Picture!Late(tx[s])]
                     ELSE x : x \in rows}
        BY <1>7 DEF Picture!Rewrite
      <3>2. r \in Rows(lastId)  BY DEF PictureInv, PictureTypes
      <3>3. [r EXCEPT !.file = tx[s].file, !.late = @ \/ Picture!Late(tx[s])].id = r.id
        BY <3>2 DEF Rows
      <3> QED  BY <3>1, <3>3
    <2> QED  BY <2>1, <2>2
  <1>8. ASSUME NEW s \in Session, Picture!Remove(s) PROVE Goes /\ Keeps
    <2>1. rows' = {q \in rows : q.id # tx[s].id}  BY <1>8 DEF Picture!Remove
    <2> DEFINE e == [id |-> tx[s].id, owner |-> tx[s].owner, file |-> tx[s].file]
    <2>2. e \in removed' /\ e.id = tx[s].id  BY <1>8 DEF Picture!Remove
    <2> QED  BY <1>0, <2>1, <2>2
  <1> QED  BY <1>1, <1>2, <1>3, <1>4, <1>5, <1>6, <1>7, <1>8, QuietSteps

(* INV-19 (delete_image, accept and the explicit deletes): a picture whose *)
(* owner stays goes only by a removal on record, and never changes hands   *)
(* but to the nation of its application.                                   *)
THEOREM PicturesStayOnRecord ==
  ASSUME MaxFiled \in Nat PROVE Picture!Spec => Picture!PicturesLeaveOnRecord
  <1> DEFINE Step ==
        \A r \in rows :
          LET same == {q \in rows' : q.id = r.id} IN
          /\ same = {} /\ Picture!Exists(r.owner)' => \E e \in removed' : e.id = r.id
          /\ \A q \in same : q.kind = r.kind /\ q.owner[2] = r.owner[2]
  <1>1. PictureInv /\ [Picture!Next]_(Picture!vars) => Step
    <2> SUFFICES ASSUME PictureInv, [Picture!Next]_(Picture!vars), NEW r \in rows
                 PROVE  /\ {q \in rows' : q.id = r.id} = {} /\ Picture!Exists(r.owner)'
                             => \E e \in removed' : e.id = r.id
                        /\ \A q \in {q \in rows' : q.id = r.id} :
                             q.kind = r.kind /\ q.owner[2] = r.owner[2]
      OBVIOUS
    <2> QED  BY RowsLeaveOnRecord
  <1>2. Picture!PicturesLeaveOnRecord <=> [][Step]_(Picture!vars)
    BY DEF Picture!PicturesLeaveOnRecord
  <1> HIDE DEF Step
  <1> QED  BY <1>1, <1>2, PictureInvariant, PTL DEF Picture!Spec


-----------------------------------------------------------------------------
(***************************************************************************)
(* What is accepted as a picture can be cut to its format.  The side that  *)
(* is cut, a, becomes b times the target's proportion p / q, rounded down. *)
(***************************************************************************)
LEMMA Division ==
  \A n, d \in Nat : d > 0 => n \div d \in Nat /\ (n \div d) * d <= n /\ n < (n \div d) * d + d
  OBVIOUS

LEMMA Cancel == \A x, y, d \in Nat : d > 0 /\ x * d <= y * d => x <= y
  OBVIOUS

LEMMA Positive == \A x, d, n \in Nat : d > 0 /\ n >= d /\ n < x * d + d => x > 0
  OBVIOUS

LEMMA Centred == \A a, b \in Nat : b <= a => (a - b) \div 2 >= 0 /\ (a - b) \div 2 + b <= a
  OBVIOUS

LEMMA AtLeast == \A x, y, m \in Nat : x >= m => x * y >= m * y
  OBVIOUS

LEMMA CutFits ==
  ASSUME NEW a \in Nat \ {0}, NEW b \in Nat \ {0}, NEW p \in Nat \ {0}, NEW q \in Nat \ {0},
         b * p >= q, b * p <= a * q
  PROVE  LET cut == (b * p) \div q
         IN /\ cut \in Nat /\ cut > 0 /\ cut <= a
            /\ cut * q <= b * p /\ b * p <= cut * q + q
  <1> DEFINE n == b * p
             cut == n \div q
  <1>1. n \in Nat  OBVIOUS
  <1>2. n >= q /\ n <= a * q  OBVIOUS
  <1> HIDE DEF n
  <1>3. cut \in Nat /\ cut * q <= n /\ n < cut * q + q  BY <1>1, Division
  <1> HIDE DEF cut
  <1>4. cut * q \in Nat /\ a * q \in Nat  BY <1>3
  <1>5. cut > 0  BY <1>1, <1>2, <1>3, Positive
  <1>6. cut * q <= a * q  BY <1>1, <1>2, <1>3, <1>4
  <1>7. cut <= a  BY <1>3, <1>6, Cancel
  <1>8. n <= cut * q + q  BY <1>1, <1>3, <1>4
  <1> QED  BY <1>3, <1>5, <1>7, <1>8 DEF n, cut

(* A picture w x h, a format tw x th; the picture lies as the format does. *)
LEMMA CropOfBoth ==
  ASSUME NEW w \in Nat \ {0}, NEW h \in Nat \ {0}, NEW tw \in Nat \ {0}, NEW th \in Nat \ {0},
         \/ w > h /\ th < tw /\ tw <= 2 * th
         \/ h > w /\ tw < th /\ th <= 2 * tw
  PROVE  LET c == Picture!Crop(<<w, h>>, <<tw, th>>)
         IN /\ c[1] \in Nat /\ c[2] \in Nat /\ c[1] > 0 /\ c[2] > 0 /\ c[1] <= w /\ c[2] <= h
            /\ c[1] * th <= c[2] * tw + tw /\ c[2] * tw <= c[1] * th + th
  <1> DEFINE c == Picture!Crop(<<w, h>>, <<tw, th>>)
  <1>1. /\ h * tw \in Nat /\ w * th \in Nat /\ h * tw >= tw /\ w * th >= th
    <2>1. h >= 1 /\ w >= 1 /\ 1 * tw = tw /\ 1 * th = th  OBVIOUS
    <2> QED  BY <2>1, AtLeast
  <1>2. CASE w * th > h * tw
    <2>1. h * tw >= th
      <3>1. CASE th < tw  BY <1>1, <3>1
      <3>2. CASE h > w /\ th <= 2 * tw
        <4>1. h >= 2  BY <3>2
        <4>2. h * tw >= 2 * tw  BY <4>1, AtLeast
        <4> QED  BY <1>1, <3>2, <4>2
      <3> QED  BY <3>1, <3>2
    <2> DEFINE cut == (h * tw) \div th
    <2>2. c = <<cut, h>>  BY <1>2 DEF Picture!Crop
    <2>3. /\ cut \in Nat /\ cut > 0 /\ cut <= w
          /\ cut * th <= h * tw /\ h * tw <= cut * th + th
      <3>1. h * tw <= w * th  BY <1>1, <1>2
      <3> QED  BY <2>1, <3>1, CutFits
    <2> HIDE DEF cut, c
    <2>4. h * tw \in Nat /\ w * th \in Nat /\ cut * th \in Nat /\ cut * tw \in Nat  BY <1>1, <2>3
    <2> QED  BY <2>2, <2>3, <2>4 DEF c
  <1>3. CASE ~(w * th > h * tw)
    <2>1. w * th >= tw
      <3>1. CASE tw < th  BY <1>1, <3>1
      <3>2. CASE w > h /\ tw <= 2 * th
        <4>1. w >= 2  BY <3>2
        <4>2. w * th >= 2 * th  BY <4>1, AtLeast
        <4> QED  BY <1>1, <3>2, <4>2
      <3> QED  BY <3>1, <3>2
    <2> DEFINE cut == (w * th) \div tw
    <2>2. c = <<w, cut>>  BY <1>3 DEF Picture!Crop
    <2>3. /\ cut \in Nat /\ cut > 0 /\ cut <= h
          /\ cut * tw <= w * th /\ w * th <= cut * tw + tw
      <3>1. w * th <= h * tw  BY <1>1, <1>3
      <3> QED  BY <2>1, <3>1, CutFits
    <2> HIDE DEF cut, c
    <2>4. h * tw \in Nat /\ w * th \in Nat /\ cut * th \in Nat /\ cut * tw \in Nat  BY <1>1, <2>3
    <2> QED  BY <2>2, <2>3, <2>4 DEF c
  <1> QED  BY <1>2, <1>3

(* process_image: what passes the checks is cut to a rectangle inside it,  *)
(* not empty, of the format's proportion to the pixel.                     *)
THEOREM PicturesCanBeCut == SizesAreModest => Picture!CropFits
  <1> SUFFICES ASSUME SizesAreModest, NEW raw \in Raw, NEW k \in Kind, Picture!Judge(raw, k) = "ok"
               PROVE  LET src == Picture!Shown(raw)  t == Target[k]
                          c == Picture!Crop(src, t)  at == Picture!Corner(src, t)
                      IN \A i \in {1, 2} :
                           /\ c[i] > 0 /\ at[i] >= 0 /\ at[i] + c[i] <= src[i]
                           /\ c[i] * t[3 - i] <= c[3 - i] * t[i] + t[i]
    BY DEF Picture!CropFits
  <1> DEFINE src == Picture!Shown(raw)
             w   == src[1]
             h   == src[2]
             tw  == Target[k][1]
             th  == Target[k][2]
             c   == Picture!Crop(src, Target[k])
             d   == Picture!Crop(<<w, h>>, <<tw, th>>)
             at  == Picture!Corner(src, Target[k])
  <1>1. w \in Nat \ {0} /\ h \in Nat \ {0}  BY DEF SizesAreModest, Picture!Shown
  <1>2. Picture!Lies(raw, k)  BY DEF Picture!Judge
  <1>3. IF k = "flag" THEN w > h ELSE h > w  BY <1>2 DEF Picture!Lies
  <1>4. /\ tw \in Nat \ {0} /\ th \in Nat \ {0}
        /\ IF k = "flag" THEN th < tw /\ tw <= 2 * th ELSE tw < th /\ th <= 2 * tw
    BY DEF SizesAreModest
  <1>5. c = d  BY DEF Picture!Crop
  <1>6. at = <<(w - c[1]) \div 2, (h - c[2]) \div 2>>  BY DEF Picture!Corner
  <1> HIDE DEF src, w, h, tw, th, c, d, at
  <1>7. /\ d[1] \in Nat /\ d[2] \in Nat /\ d[1] > 0 /\ d[2] > 0 /\ d[1] <= w /\ d[2] <= h
        /\ d[1] * th <= d[2] * tw + tw /\ d[2] * tw <= d[1] * th + th
    BY <1>1, <1>3, <1>4, CropOfBoth DEF d
  <1>8. /\ c[1] > 0 /\ at[1] >= 0 /\ at[1] + c[1] <= w /\ c[1] * th <= c[2] * tw + tw
        /\ c[2] > 0 /\ at[2] >= 0 /\ at[2] + c[2] <= h /\ c[2] * tw <= c[1] * th + th
    <2>1. at[1] >= 0 /\ at[1] + c[1] <= w  BY <1>1, <1>5, <1>6, <1>7, Centred
    <2>2. at[2] >= 0 /\ at[2] + c[2] <= h  BY <1>1, <1>5, <1>6, <1>7, Centred
    <2>3. c[1] * th \in Nat /\ c[2] * tw \in Nat  BY <1>4, <1>5, <1>7
    <2> QED  BY <1>4, <1>5, <1>7, <2>1, <2>2, <2>3
  <1> QED  BY <1>8 DEF w, h, tw, th, c, at, src

-----------------------------------------------------------------------------
(***************************************************************************)
(* Administrators.                                                         *)
(***************************************************************************)
Deed  == {"idle", "grant", "revoke", "delete", "enter"}
Asked == [op : Deed, who : Person \cup {0}, link : Nat, seen : SUBSET Person, row : Nat,
          old : SUBSET Nat]
Link(n) == [id : 1..n, who : Person, dies : Int, used : BOOLEAN]

AdminTypes ==
  /\ grants \subseteq Person /\ players \subseteq Person /\ req \in [Request -> Asked]
  /\ nextRow \in Nat \ {0} /\ audit \subseteq 1..(nextRow - 1)
  /\ \A r \in Request : req[r].row < nextRow
  /\ issued \in Nat /\ issued + nextRow <= MaxActs + 1
  /\ links \subseteq Link(issued) /\ IsFiniteSet(links)
  /\ entered \in [1..MaxActs -> Nat] /\ clock \in Int

(* Least and greatest numbers.                                             *)
LEMMA LeastNumber ==
  ASSUME NEW T \in SUBSET Nat, T # {}
  PROVE  \E x \in T : \A y \in T : x <= y
  <1>1. \A x, y \in Nat : y < x => <<y, x>> \in OpToRel(<, Nat)  BY DEF OpToRel
  <1>2. \E R : IsWellFoundedOn(R, Nat) /\ \A x, y \in Nat : y < x => <<y, x>> \in R
    BY <1>1, NatLessThanWellFounded, Zenon
  <1>3. PICK R : IsWellFoundedOn(R, Nat) /\ \A x, y \in Nat : y < x => <<y, x>> \in R
    BY <1>2
  <1>4. PICK x \in T : \A y \in T : ~(<<y, x>> \in R)  BY <1>3, WFMin
  <1>5. \A y \in T : y \in Nat /\ x \in Nat /\ ~(y < x)  BY <1>3, <1>4, Zenon
  <1> QED  BY <1>5

LEMMA SameCount == ASSUME NEW S PROVE Admin!Cardinality(S) = Cardinality(S)
  BY DEF Admin!Cardinality, Cardinality

(* The n newest of any entries are at most n.                              *)
LEMMA NewestAreFew ==
  ASSUME NEW es, IsFiniteSet(es), \A e \in es : e.id \in Nat, NEW n \in Nat
  PROVE  /\ Admin!Newest(es, n) \subseteq es /\ IsFiniteSet(Admin!Newest(es, n))
         /\ Cardinality(Admin!Newest(es, n)) <= n
  <1> DEFINE new == Admin!Newest(es, n)
             ids == {e.id : e \in new}
  <1>1. new \subseteq es /\ \A e \in new : Cardinality({f \in es : f.id >= e.id}) <= n
    <2>1. \A e \in new : e \in es /\ Admin!Cardinality({f \in es : f.id >= e.id}) <= n
      BY DEF Admin!Newest
    <2> HIDE DEF new
    <2> QED  BY <2>1, SameCount
  <1>2. IsFiniteSet(new)  BY <1>1, FS_Subset
  <1> SUFFICES Cardinality(new) <= n  BY <1>1, <1>2
  <1> HIDE DEF new
  <1>3. CASE new = {}  BY <1>1, <1>2, <1>3, FS_EmptySet
  <1>4. CASE new # {}
    <2>1. ids \in SUBSET Nat /\ ids # {}  BY <1>1, <1>4
    <2>2. PICK least \in ids : \A i \in ids : least <= i  BY <2>1, LeastNumber
    <2>3. PICK e \in new : e.id = least  BY <2>2
    <2>4. \A f \in new : f.id >= e.id /\ f \in es
      <3> SUFFICES ASSUME NEW f \in new PROVE f.id >= e.id /\ f \in es  OBVIOUS
      <3>1. f.id \in ids /\ least <= f.id  BY <2>2
      <3> QED  BY <1>1, <2>1, <2>3, <3>1
    <2>5. new \subseteq {f \in es : f.id >= e.id}  BY <2>4
    <2>6. IsFiniteSet({f \in es : f.id >= e.id})  BY FS_Subset
    <2>7. Cardinality(new) <= Cardinality({f \in es : f.id >= e.id})  BY <2>5, <2>6, FS_Subset
    <2>8. Cardinality({f \in es : f.id >= e.id}) <= n  BY <1>1
    <2>9. Cardinality(new) \in Nat /\ Cardinality({f \in es : f.id >= e.id}) \in Nat
      BY <1>2, <2>6, FS_CardinalityType
    <2> QED  BY <1>1, <1>2, <2>7, <2>8, <2>9
  <1> QED  BY <1>3, <1>4


(* What each request is about, field by field.                             *)
LEMMA AskedIs ==
  ASSUME AdminTypes, NEW r \in Request
  PROVE  /\ req[r] \in Asked /\ req[r].op \in Deed /\ req[r].who \in Person \cup {0}
         /\ req[r].link \in Nat /\ req[r].seen \subseteq Person /\ req[r].row \in Nat
         /\ req[r].old \subseteq Nat
  BY DEF AdminTypes, Asked

LEMMA AuditIs ==
  ASSUME AdminTypes, NEW row \in audit
  PROVE  row \in Nat /\ 1 <= row /\ row < nextRow /\ nextRow \in Nat
  <1>1. row \in 1..(nextRow - 1) /\ nextRow \in Nat  BY DEF AdminTypes
  <1> QED  BY <1>1

LEMMA IdleIs ==
  /\ Admin!Idle \in Asked /\ Admin!Idle.op = "idle" /\ Admin!Idle.row = 0
  /\ Admin!Idle.old = {}
  BY DEF Admin!Idle, Asked, Deed

(* One request changes, to something that may be asked.                    *)
LEMMA OneAsks ==
  ASSUME AdminTypes, NEW r \in Request, NEW q \in Asked, req' = [req EXCEPT ![r] = q]
  PROVE  /\ req' \in [Request -> Asked] /\ req'[r] = q
         /\ \A o \in Request \ {r} : req'[o] = req[o]
  BY DEF AdminTypes

(* A row of the journal is taken.                                          *)
LEMMA RecordTakes ==
  ASSUME AdminTypes, NEW r \in Request, NEW seen \in SUBSET Person, Admin!Record(r, seen)
  PROVE  /\ req' \in [Request -> Asked] /\ nextRow' = nextRow + 1 /\ issued + nextRow <= MaxActs
         /\ \A o \in Request \ {r} : req'[o] = req[o]
         /\ req'[r].op = req[r].op /\ req'[r].who = req[r].who /\ req'[r].link = req[r].link
         /\ req'[r].seen = seen /\ req'[r].row = nextRow
         /\ req'[r].old = {row \in audit : row <= nextRow - MaxRows}
  <1> DEFINE q == [op |-> req[r].op, who |-> req[r].who, link |-> req[r].link, seen |-> seen,
                   row |-> nextRow, old |-> Admin!Trimmed(nextRow)]
  <1>1. req' = [req EXCEPT ![r] = q] /\ nextRow' = nextRow + 1 /\ issued + nextRow <= MaxActs
    BY DEF Admin!Record, Admin!RoomForAct
  <1>2. Admin!Trimmed(nextRow) = {row \in audit : row <= nextRow - MaxRows}
    BY DEF Admin!Trimmed
  <1>3. Admin!Trimmed(nextRow) \subseteq Nat  BY <1>2, AuditIs
  <1>4. q \in Asked  BY <1>3, AskedIs DEF AdminTypes, Asked
  <1>5. /\ q.op = req[r].op /\ q.who = req[r].who /\ q.link = req[r].link
        /\ q.seen = seen /\ q.row = nextRow /\ q.old = Admin!Trimmed(nextRow)
    OBVIOUS
  <1> HIDE DEF q
  <1> QED  BY <1>1, <1>2, <1>4, <1>5, OneAsks

LEMMA CommitsRow ==
  ASSUME AdminTypes, NEW r \in Request, Admin!CommitRow(r), req[r].row # 0
  PROVE  /\ audit' = (audit \ req[r].old) \cup {req[r].row}
         /\ audit' \subseteq 1..(nextRow - 1)
  <1>1. audit' = (audit \ req[r].old) \cup {req[r].row}  BY DEF Admin!CommitRow
  <1>2. req[r].row \in Nat /\ req[r].row < nextRow /\ nextRow \in Nat
    BY AskedIs DEF AdminTypes
  <1>3. req[r].row \in 1..(nextRow - 1)  BY <1>2
  <1>4. audit \subseteq 1..(nextRow - 1)  BY DEF AdminTypes
  <1> QED  BY <1>1, <1>3, <1>4


(* The room an issue makes: at most all entries but one are left, and at   *)
(* most all pending ones but one of the player.                            *)
LEMMA RoomIs ==
  ASSUME Limited, AdminTypes, NEW p
  PROVE  /\ Admin!Room(p) \subseteq links /\ IsFiniteSet(Admin!Room(p))
         /\ Cardinality(Admin!Room(p)) <= HardCap - 1
         /\ \E few : /\ IsFiniteSet(few) /\ Cardinality(few) <= MaxPending - 1
                     /\ \A e \in Admin!Room(p) : e.who = p /\ ~e.used => e \in few
  <1> DEFINE live == Admin!Purged
             his  == Admin!PendingOf(live, p)
             few  == Admin!Newest(his, MaxPending - 1)
             left_ == live \ Admin!Surplus(live, p)
  <1>1. live \subseteq links /\ IsFiniteSet(links) /\ \A e \in links : e.id \in Nat
    BY DEF Admin!Purged, AdminTypes, Link
  <1>2. IsFiniteSet(live)  BY <1>1, FS_Subset
  <1>3. his = {e \in live : e.who = p /\ ~e.used}  BY DEF Admin!PendingOf
  <1>4. IsFiniteSet(his)  BY <1>2, <1>3, FS_Subset
  <1>5. MaxPending - 1 \in Nat /\ HardCap - 1 \in Nat  BY DEF Limited
  <1>6. IsFiniteSet(few) /\ Cardinality(few) <= MaxPending - 1
    <2>1. \A e \in his : e.id \in Nat  BY <1>1, <1>3
    <2> HIDE DEF his
    <2> QED  BY <1>4, <1>5, <2>1, NewestAreFew
  <1>7. left_ = live \ (his \ few)  BY DEF Admin!Surplus
  <1>8. Admin!Room(p) = Admin!Newest(left_, HardCap - 1)  BY DEF Admin!Room
  <1> HIDE DEF live, his, few, left_
  <1>9. left_ \subseteq links /\ IsFiniteSet(left_)  BY <1>1, <1>2, <1>7, FS_Subset
  <1>10. /\ Admin!Room(p) \subseteq left_ /\ IsFiniteSet(Admin!Room(p))
         /\ Cardinality(Admin!Room(p)) <= HardCap - 1
    BY <1>1, <1>5, <1>8, <1>9, NewestAreFew
  <1>11. \A e \in Admin!Room(p) : e.who = p /\ ~e.used => e \in few
    BY <1>3, <1>7, <1>10
  <1> QED  BY <1>6, <1>9, <1>10, <1>11

LEMMA AdminTypesInit == Limited /\ Admin!Init => AdminTypes
  <1> SUFFICES ASSUME Limited, Admin!Init PROVE AdminTypes  OBVIOUS
  <1>1. /\ players = Person /\ grants \subseteq Person /\ audit = {} /\ nextRow = 1
        /\ req = [r \in Request |-> Admin!Idle] /\ links = {} /\ issued = 0 /\ clock = 0
        /\ entered = [id \in 1..MaxActs |-> 0]
    BY DEF Admin!Init
  <1>2. req \in [Request -> Asked] /\ \A r \in Request : req[r].row < nextRow
    BY <1>1, IdleIs
  <1>3. IsFiniteSet(links)  BY <1>1, FS_EmptySet
  <1> QED  BY <1>1, <1>2, <1>3 DEF AdminTypes, Limited

(* Of a request that a step starts, changes or ends.                       *)
LEMMA TypesOfOne ==
  ASSUME AdminTypes, NEW r \in Request, NEW q \in Asked, req' = [req EXCEPT ![r] = q],
         q.row < nextRow, UNCHANGED nextRow
  PROVE  req' \in [Request -> Asked] /\ \A o \in Request : req'[o].row < nextRow'
  BY OneAsks DEF AdminTypes

LEMMA AskTypes ==
  ASSUME AdminTypes, NEW r \in Request, NEW op \in {"grant", "revoke", "delete"},
         NEW by \in Person, NEW about \in Person, Admin!Ask(r, op, by, about)
  PROVE  /\ AdminTypes' /\ req[r] = Admin!Idle
         /\ req'[r].op = op /\ req'[r].row = 0 /\ req'[r].old = {}
         /\ \A o \in Request \ {r} : req'[o] = req[o]
         /\ UNCHANGED <<root, players, grants, audit, nextRow, links, issued, entered, clock>>
  <1> DEFINE q == [Admin!Idle EXCEPT !.op = op, !.who = about]
  <1>1. /\ req' = [req EXCEPT ![r] = q] /\ req[r] = Admin!Idle
        /\ UNCHANGED <<root, players, grants, audit, nextRow, links, issued, entered, clock>>
    BY DEF Admin!Ask, Admin!world, Admin!journal, Admin!door
  <1>2. q \in Asked /\ q.op = op /\ q.row = 0 /\ q.old = {}  BY DEF Admin!Idle, Asked, Deed
  <1> HIDE DEF q
  <1>3. q.row < nextRow  BY <1>2 DEF AdminTypes
  <1>4. req' \in [Request -> Asked] /\ \A o \in Request : req'[o].row < nextRow'
    BY <1>1, <1>2, <1>3, TypesOfOne
  <1>5. AdminTypes'  BY <1>1, <1>4 DEF AdminTypes
  <1> QED  BY <1>1, <1>2, <1>5, OneAsks

(* A request that ends, whatever it does to the rest.                      *)
LEMMA EndTypes ==
  ASSUME AdminTypes, NEW r \in Request, req' = [req EXCEPT ![r] = Admin!Idle],
         UNCHANGED nextRow
  PROVE  /\ req' \in [Request -> Asked] /\ \A o \in Request : req'[o].row < nextRow'
         /\ req'[r] = Admin!Idle /\ \A o \in Request \ {r} : req'[o] = req[o]
  BY IdleIs, OneAsks, TypesOfOne DEF AdminTypes

LEMMA RecordTypes ==
  ASSUME AdminTypes, NEW r \in Request, NEW seen \in SUBSET Person, Admin!Record(r, seen)
  PROVE  req' \in [Request -> Asked] /\ \A o \in Request : req'[o].row < nextRow'
  <1>1. \A o \in Request : req[o].row \in Nat /\ req[o].row < nextRow /\ nextRow \in Nat
    BY AskedIs DEF AdminTypes
  <1> QED  BY <1>1, RecordTakes

LEMMA ReadTypes ==
  ASSUME Limited, AdminTypes, NEW r \in Request, Admin!Read(r) \/ Admin!Admit(r)
  PROVE  AdminTypes'
  <1>1. UNCHANGED <<players, grants, audit, links, issued, entered, clock>>
    BY DEF Admin!Read, Admin!Admit, Admin!world, Admin!door
  <1>2. CASE req' = [req EXCEPT ![r] = Admin!Idle] /\ UNCHANGED nextRow
    BY <1>1, <1>2, EndTypes DEF AdminTypes
  <1>3. ASSUME NEW seen \in SUBSET Person, Admin!Record(r, seen) PROVE AdminTypes'
    <2>1. nextRow' = nextRow + 1 /\ issued + nextRow <= MaxActs  BY <1>3, RecordTakes
    <2>2. nextRow' \in Nat \ {0} /\ issued' + nextRow' <= MaxActs + 1
      BY <1>1, <2>1 DEF AdminTypes, Limited
    <2>3. audit' \subseteq 1..(nextRow' - 1)
      <3>1. \A row \in audit : row \in 1..(nextRow' - 1)  BY <2>1, AuditIs
      <3> QED  BY <1>1, <3>1
    <2> QED  BY <1>1, <1>3, <2>2, <2>3, RecordTypes DEF AdminTypes
  <1>4. grants \in SUBSET Person /\ {} \in SUBSET Person  BY DEF AdminTypes
  <1>5. ASSUME Admin!Read(r) PROVE AdminTypes'
    <2>1. (IF req[r].op = "revoke" THEN grants ELSE {}) \in SUBSET Person  BY <1>4
    <2> QED  BY <1>2, <1>3, <1>5, <2>1 DEF Admin!Read
  <1>6. ASSUME Admin!Admit(r) PROVE AdminTypes'
    BY <1>2, <1>3, <1>4, <1>6 DEF Admin!Admit
  <1> QED  BY <1>5, <1>6

LEMMA CommitTypes ==
  ASSUME AdminTypes, NEW r \in Request, Admin!Commit(r)
  PROVE  AdminTypes'
  <1>1. /\ req' = [req EXCEPT ![r] = Admin!Idle] /\ req[r].row # 0
        /\ UNCHANGED <<nextRow, links, issued, entered, clock>>
    BY DEF Admin!Commit, Admin!door
  <1>2. grants' \subseteq Person /\ players' \subseteq Person
    <2>1. CASE UNCHANGED <<grants, players>>  BY <2>1 DEF AdminTypes
    <2>2. CASE /\ Admin!Referenced(req[r])
               /\ grants' = IF req[r].op = "grant" THEN grants \cup {req[r].who}
                            ELSE IF req[r].op = "revoke" THEN grants \ {req[r].who} ELSE grants
               /\ players' = IF req[r].op = "delete" THEN players \ {req[r].who} ELSE players
      BY <2>2 DEF AdminTypes, Admin!Referenced
    <2> QED  BY <2>1, <2>2 DEF Admin!Commit
  <1>3. audit' \subseteq 1..(nextRow' - 1)
    <2>1. CASE Admin!CommitRow(r)  BY <1>1, <2>1, CommitsRow
    <2>2. CASE UNCHANGED audit  BY <1>1, <2>2 DEF AdminTypes
    <2> QED  BY <2>1, <2>2 DEF Admin!Commit
  <1>4. req' \in [Request -> Asked] /\ \A o \in Request : req'[o].row < nextRow'
    BY <1>1, EndTypes
  <1> QED  BY <1>1, <1>2, <1>3, <1>4 DEF AdminTypes

LEMMA IssueTypes ==
  ASSUME Limited, AdminTypes, NEW p \in Person, Admin!Issue(p)
  PROVE  /\ AdminTypes' /\ issued' = issued + 1
         /\ \E n : /\ n.id = issued + 1 /\ n.who = p /\ n.used = FALSE
                   /\ links' = Admin!Room(p) \cup {n}
         /\ UNCHANGED <<root, players, grants, req, audit, nextRow, entered>>
  <1>0. /\ issued' = issued + 1 /\ issued + nextRow <= MaxActs
        /\ UNCHANGED <<root, players, grants, req, audit, nextRow, entered, clock>>
    BY DEF Admin!Issue, Admin!RoomForAct, Admin!world, Admin!journal
  <1>1. PICK n : /\ n = [id |-> issued + 1, who |-> p, dies |-> clock + Lifetime, used |-> FALSE]
                 /\ links' = Admin!Room(p) \cup {n}
    BY DEF Admin!Issue
  <1>2. n \in Link(issued + 1) /\ n.id = issued + 1 /\ n.who = p /\ n.used = FALSE
    BY <1>1 DEF AdminTypes, Limited, Link
  <1>3. Link(issued) \subseteq Link(issued + 1)  BY DEF AdminTypes, Link
  <1>4. links' \subseteq Link(issued')  BY <1>0, <1>1, <1>2, <1>3, RoomIs DEF AdminTypes
  <1>5. IsFiniteSet(links')  BY <1>1, RoomIs, FS_AddElement
  <1>6. issued' \in Nat /\ issued' + nextRow' <= MaxActs + 1
    BY <1>0 DEF AdminTypes, Limited
  <1>7. AdminTypes'  BY <1>0, <1>4, <1>5, <1>6 DEF AdminTypes
  <1> QED  BY <1>0, <1>1, <1>2, <1>7

LEMMA RedeemTypes ==
  ASSUME Limited, AdminTypes, NEW r \in Request, Admin!Redeem(r)
  PROVE  /\ AdminTypes' /\ req[r] = Admin!Idle
         /\ \E e \in links : \E n :
              /\ ~e.used /\ n.used = TRUE /\ n.id = e.id /\ n.who = e.who
              /\ links' = (Admin!Purged \ {e}) \cup {n} /\ e \in Admin!Purged
              /\ req'[r].op = "enter" /\ req'[r].link = e.id
         /\ req'[r].row = 0
         /\ \A o \in Request \ {r} : req'[o] = req[o]
         /\ UNCHANGED <<root, players, grants, audit, nextRow, issued, entered>>
  <1>0. /\ req[r] = Admin!Idle
        /\ UNCHANGED <<root, players, grants, audit, nextRow, issued, entered, clock>>
    BY DEF Admin!Redeem, Admin!world, Admin!journal
  <1>1. PICK e \in Admin!Purged :
          /\ ~e.used /\ links' = (Admin!Purged \ {e}) \cup {Admin!Spent(e)}
          /\ req' = [req EXCEPT ![r] =
               [Admin!Idle EXCEPT !.op = "enter", !.who = e.who, !.link = e.id]]
    BY DEF Admin!Redeem
  <1>2. Admin!Purged \subseteq links  BY DEF Admin!Purged
  <1>3. e \in Link(issued)  BY <1>1, <1>2 DEF AdminTypes
  <1>4. PICK n : n = Admin!Spent(e)  OBVIOUS
  <1>5. n \in Link(issued) /\ n.used = TRUE /\ n.id = e.id /\ n.who = e.who
    BY <1>3, <1>4 DEF Link, Admin!Spent
  <1> DEFINE q == [Admin!Idle EXCEPT !.op = "enter", !.who = e.who, !.link = e.id]
  <1>6. e.who \in Person /\ e.id \in Nat  BY <1>3 DEF Link
  <1>7. q \in Asked /\ q.op = "enter" /\ q.link = e.id /\ q.row = 0
    BY <1>6 DEF Admin!Idle, Asked, Deed
  <1>8. req' = [req EXCEPT ![r] = q]  BY <1>1
  <1> HIDE DEF q
  <1>9. q.row < nextRow  BY <1>7 DEF AdminTypes
  <1>10. req' \in [Request -> Asked] /\ \A o \in Request : req'[o].row < nextRow'
    BY <1>0, <1>7, <1>8, <1>9, TypesOfOne
  <1>11. links' \subseteq Link(issued')  BY <1>0, <1>1, <1>2, <1>4, <1>5 DEF AdminTypes
  <1>12. IsFiniteSet(links')
    <2>1. IsFiniteSet(links)  BY DEF AdminTypes
    <2>2. IsFiniteSet(Admin!Purged \ {e})  BY <1>2, <2>1, FS_Subset
    <2> QED  BY <1>1, <2>2, FS_AddElement
  <1>13. AdminTypes'  BY <1>0, <1>10, <1>11, <1>12 DEF AdminTypes
  <1>14. \A o \in Request \ {r} : req'[o] = req[o]  BY <1>7, <1>8, OneAsks
  <1>15. req'[r] = q  BY <1>7, <1>8, OneAsks
  <1> QED  BY <1>0, <1>1, <1>2, <1>4, <1>5, <1>7, <1>13, <1>14, <1>15

LEMMA EnterTypes ==
  ASSUME AdminTypes, NEW r \in Request, Admin!Enter(r)
  PROVE  AdminTypes'
  <1>1. /\ req[r].row # 0 /\ entered' = [entered EXCEPT ![req[r].link] = @ + 1]
        /\ Admin!CommitRow(r) /\ req' = [req EXCEPT ![r] = Admin!Idle]
        /\ UNCHANGED <<players, grants, nextRow, links, issued, clock>>
    BY DEF Admin!Enter, Admin!world
  <1>2. audit' \subseteq 1..(nextRow' - 1)  BY <1>1, CommitsRow
  <1>3. entered' \in [1..MaxActs -> Nat]
    <2>1. entered \in [1..MaxActs -> Nat]  BY DEF AdminTypes
    <2>2. entered' = [id \in 1..MaxActs |-> IF id = req[r].link THEN entered[id] + 1
                                           ELSE entered[id]]
      BY <1>1, <2>1
    <2> QED  BY <2>1, <2>2
  <1> QED  BY <1>1, <1>2, <1>3, EndTypes DEF AdminTypes

LEMMA OtherTypes ==
  ASSUME AdminTypes,
         \/ \E r \in Request : Admin!Fail(r)
         \/ \E p \in Person : Admin!Register(p)
         \/ Admin!Elapse \/ Admin!Restart \/ UNCHANGED Admin!vars
  PROVE  AdminTypes'
  <1>1. ASSUME NEW r \in Request, Admin!Fail(r) PROVE AdminTypes'
    BY <1>1, EndTypes DEF Admin!Fail, Admin!world, Admin!journal, Admin!door, AdminTypes
  <1>2. ASSUME NEW p \in Person, Admin!Register(p) PROVE AdminTypes'
    BY <1>2 DEF Admin!Register, Admin!world, Admin!journal, Admin!door, AdminTypes
  <1>3. CASE Admin!Elapse
    <2>1. /\ clock' = clock + 1
          /\ UNCHANGED <<players, grants, req, audit, nextRow, links, issued, entered>>
      BY <1>3 DEF Admin!Elapse, Admin!world, Admin!journal, Admin!door
    <2> QED  BY <2>1 DEF AdminTypes
  <1>4. CASE Admin!Restart
    <2>1. /\ links' = {} /\ req' = [r \in Request |-> Admin!Idle]
          /\ UNCHANGED <<players, grants, audit, nextRow, issued, entered, clock>>
      BY <1>4 DEF Admin!Restart, Admin!journal
    <2>2. req' \in [Request -> Asked] /\ \A r \in Request : req'[r].row < nextRow'
      BY <2>1, IdleIs DEF AdminTypes
    <2> QED  BY <2>1, <2>2, FS_EmptySet DEF AdminTypes
  <1>5. CASE UNCHANGED Admin!vars
    BY <1>5 DEF Admin!vars, Admin!world, Admin!journal, Admin!door, AdminTypes
  <1> QED  BY <1>1, <1>2, <1>3, <1>4, <1>5


LEMMA AdminTypesNext ==
  ASSUME Limited, AdminTypes, [Admin!Next]_(Admin!vars)
  PROVE  AdminTypes'
  BY AskTypes, ReadTypes, CommitTypes, IssueTypes, RedeemTypes, EnterTypes, OtherTypes
     DEF Admin!Next, Admin!RequestStep

(***************************************************************************)
(* The rights.  A revocation that has been allowed leaves somebody, of     *)
(* those it has seen.                                                      *)
(***************************************************************************)
LeavesOne(q) == q.op = "revoke" /\ q.row # 0 => (q.seen \ {q.who}) \cup root # {}
RightsHold   == Admin!GrantsHavePlayers /\ \A r \in Request : LeavesOne(req[r])

(* Nothing but a request's end, and nobody's rights change.                *)
LEMMA RightsStand ==
  ASSUME RightsHold, UNCHANGED <<root, grants>>, players \subseteq players',
         \A r \in Request : req'[r] \in {req[r], Admin!Idle}
  PROVE  RightsHold'
  <1>1. \A r \in Request : LeavesOne(req'[r])  BY IdleIs DEF RightsHold, LeavesOne
  <1>2. \A r \in Request : LeavesOne(req[r])'  BY <1>1 DEF LeavesOne
  <1> QED  BY <1>2 DEF RightsHold, Admin!GrantsHavePlayers

LEMMA ReadRights ==
  ASSUME AdminTypes, RightsHold, NEW r \in Request, Admin!Read(r) \/ Admin!Admit(r)
  PROVE  RightsHold'
  <1>1. UNCHANGED <<root, players, grants>>
    BY DEF Admin!Read, Admin!Admit, Admin!world
  <1>2. CASE req' = [req EXCEPT ![r] = Admin!Idle] /\ UNCHANGED nextRow
    BY <1>1, <1>2, EndTypes, RightsStand
  <1>3. ASSUME NEW seen \in SUBSET Person, Admin!Record(r, seen),
               req[r].op = "revoke" => (seen \ {req[r].who}) \cup root # {}
        PROVE  RightsHold'
    <2>1. /\ req'[r].op = req[r].op /\ req'[r].who = req[r].who /\ req'[r].seen = seen
          /\ \A o \in Request \ {r} : req'[o] = req[o]
      BY <1>3, RecordTakes
    <2>2. LeavesOne(req'[r])  BY <1>3, <2>1 DEF LeavesOne
    <2>3. \A o \in Request : LeavesOne(req'[o])  BY <2>1, <2>2 DEF RightsHold
    <2>4. \A o \in Request : LeavesOne(req[o])'  BY <1>1, <2>3 DEF LeavesOne
    <2> QED  BY <1>1, <2>4 DEF RightsHold, Admin!GrantsHavePlayers
  <1>4. grants \in SUBSET Person /\ {} \in SUBSET Person  BY DEF AdminTypes
  <1>5. ASSUME Admin!Read(r) PROVE RightsHold'
    <2> DEFINE seen == IF req[r].op = "revoke" THEN grants ELSE {}
    <2>1. seen \in SUBSET Person  BY <1>4
    <2>2. CASE Admin!Allowed(req[r].op, req[r].who) /\ Admin!Record(r, seen)
      <3>1. req[r].op = "revoke" => Admin!Revocable(req[r].who)  BY <2>2 DEF Admin!Allowed
      <3>2. req[r].op = "revoke" => (seen \ {req[r].who}) \cup root # {}
        BY <3>1 DEF Admin!Revocable
      <3> QED  BY <1>3, <2>1, <2>2, <3>2
    <2> QED  BY <1>2, <1>5, <2>2 DEF Admin!Read
  <1>6. ASSUME Admin!Admit(r) PROVE RightsHold'
    <2>1. req[r].op # "revoke"  BY <1>6 DEF Admin!Admit
    <2> QED  BY <1>2, <1>3, <1>4, <1>6, <2>1 DEF Admin!Admit
  <1> QED  BY <1>5, <1>6

LEMMA CommitRights ==
  ASSUME AdminTypes, RightsHold, NEW r \in Request, Admin!Commit(r)
  PROVE  RightsHold'
  <1>1. req' = [req EXCEPT ![r] = Admin!Idle] /\ UNCHANGED <<root, nextRow>>
    BY DEF Admin!Commit
  <1>2. \A o \in Request : req'[o] \in {req[o], Admin!Idle}  BY <1>1, EndTypes
  <1>3. \A o \in Request : LeavesOne(req'[o])  BY <1>2, IdleIs DEF RightsHold, LeavesOne
  <1>4. \A o \in Request : LeavesOne(req[o])'  BY <1>1, <1>3 DEF LeavesOne
  <1>5. grants' \subseteq players'
    BY DEF Admin!Commit, Admin!Referenced, RightsHold, Admin!GrantsHavePlayers
  <1> QED  BY <1>4, <1>5 DEF RightsHold, Admin!GrantsHavePlayers

LEMMA RightsNext ==
  ASSUME Limited, AdminTypes, RightsHold, [Admin!Next]_(Admin!vars)
  PROVE  RightsHold'
  <1>1. ASSUME NEW r \in Request, NEW op \in {"grant", "revoke", "delete"}, NEW by \in Person,
               NEW about \in Person, Admin!Ask(r, op, by, about)
        PROVE  RightsHold'
    <2>1. /\ req'[r].row = 0 /\ \A o \in Request \ {r} : req'[o] = req[o]
          /\ UNCHANGED <<root, players, grants>>
      BY <1>1, AskTypes
    <2>2. \A o \in Request : LeavesOne(req'[o])  BY <2>1 DEF RightsHold, LeavesOne
    <2>3. \A o \in Request : LeavesOne(req[o])'  BY <2>1, <2>2 DEF LeavesOne
    <2> QED  BY <2>1, <2>3 DEF RightsHold, Admin!GrantsHavePlayers
  <1>2. ASSUME NEW r \in Request, Admin!Redeem(r) PROVE RightsHold'
    <2>1. /\ req'[r].row = 0 /\ \A o \in Request \ {r} : req'[o] = req[o]
          /\ UNCHANGED <<root, players, grants>>
      BY <1>2, RedeemTypes
    <2>2. \A o \in Request : LeavesOne(req'[o])  BY <2>1 DEF RightsHold, LeavesOne
    <2>3. \A o \in Request : LeavesOne(req[o])'  BY <2>1, <2>2 DEF LeavesOne
    <2> QED  BY <2>1, <2>3 DEF RightsHold, Admin!GrantsHavePlayers
  <1>3. ASSUME NEW r \in Request, Admin!Enter(r) \/ Admin!Fail(r) PROVE RightsHold'
    <2>1. req' = [req EXCEPT ![r] = Admin!Idle] /\ UNCHANGED <<root, players, grants, nextRow>>
      BY <1>3 DEF Admin!Enter, Admin!Fail, Admin!world, Admin!journal
    <2> QED  BY <2>1, EndTypes, RightsStand
  <1>4. ASSUME NEW p \in Person, Admin!Register(p) PROVE RightsHold'
    BY <1>4, RightsStand DEF Admin!Register
  <1>5. ASSUME NEW p \in Person, Admin!Issue(p) PROVE RightsHold'
    BY <1>5, IssueTypes, RightsStand
  <1>6. CASE Admin!Elapse \/ UNCHANGED Admin!vars
    BY <1>6, RightsStand DEF Admin!Elapse, Admin!vars, Admin!world
  <1>7. CASE Admin!Restart
    <2>1. req' = [r \in Request |-> Admin!Idle] /\ UNCHANGED <<players, grants>>
      BY <1>7 DEF Admin!Restart
    <2>2. \A r \in Request : LeavesOne(req[r])'  BY <2>1, IdleIs DEF LeavesOne
    <2> QED  BY <2>1, <2>2 DEF RightsHold, Admin!GrantsHavePlayers
  <1> QED
    BY <1>1, <1>2, <1>3, <1>4, <1>5, <1>6, <1>7, ReadRights, CommitRights
       DEF Admin!Next, Admin!RequestStep

LEMMA RightsInvariant ==
  ASSUME Limited PROVE Admin!Spec => [](AdminTypes /\ RightsHold)
  <1>1. Admin!Init => AdminTypes /\ RightsHold
    <2> SUFFICES ASSUME Admin!Init PROVE AdminTypes /\ RightsHold  OBVIOUS
    <2>1. players = Person /\ grants \subseteq Person /\ req = [r \in Request |-> Admin!Idle]
      BY DEF Admin!Init
    <2>2. RightsHold  BY <2>1, IdleIs DEF RightsHold, LeavesOne, Admin!GrantsHavePlayers
    <2> QED  BY <2>2, AdminTypesInit
  <1>2. AdminTypes /\ RightsHold /\ [Admin!Next]_(Admin!vars) => (AdminTypes /\ RightsHold)'
    BY AdminTypesNext, RightsNext
  <1> QED  BY <1>1, <1>2, PTL DEF Admin!Spec

(* The foreign key of admin_grants: nobody administers who is no player.   *)
THEOREM GrantsArePlayers ==
  ASSUME Limited PROVE Admin!Spec => []Admin!GrantsHavePlayers
  <1>1. RightsHold => Admin!GrantsHavePlayers  BY DEF RightsHold
  <1> QED  BY <1>1, RightsInvariant, PTL

(* AdminGrantService.revoke: the last administrator goes only by a change  *)
(* of the environment, or by a revocation that decided by grants which     *)
(* have changed since - for any number of administrators and requests.     *)
THEOREM LastAdminIsKept ==
  ASSUME Limited PROVE Admin!Spec => Admin!LastAdminStays
  <1> DEFINE Step == Admin!Admins # {} /\ Admin!Admins' = {}
                       => root' # root \/ \E r \in Request : Admin!Overtaken(r)
  <1>1. AdminTypes /\ RightsHold /\ [Admin!Next]_(Admin!vars) => Step
    <2> SUFFICES ASSUME AdminTypes, RightsHold, [Admin!Next]_(Admin!vars),
                        grants \cup root # {}, grants' \cup root' = {}, root' = root
                 PROVE  \E r \in Request : Admin!Overtaken(r)
      BY DEF Admin!Admins
    <2>1. grants' # grants /\ root = {}  OBVIOUS
    <2>2. PICK r \in Request : Admin!Commit(r)
      <3>1. ASSUME NEW r \in Request, Admin!RequestStep(r), ~Admin!Commit(r)
            PROVE  UNCHANGED grants
        BY <3>1 DEF Admin!RequestStep, Admin!Ask, Admin!Read, Admin!Redeem, Admin!Admit,
           Admin!Enter, Admin!Fail, Admin!world
      <3>2. ASSUME NEW p \in Person, Admin!Issue(p) \/ Admin!Register(p) PROVE UNCHANGED grants
        BY <3>2 DEF Admin!Issue, Admin!Register, Admin!world
      <3>3. CASE Admin!Elapse \/ Admin!Restart \/ UNCHANGED Admin!vars
        BY <3>3 DEF Admin!Elapse, Admin!Restart, Admin!vars, Admin!world
      <3> QED  BY <2>1, <3>1, <3>2, <3>3 DEF Admin!Next
    <2>3. /\ req[r].op = "revoke" /\ req[r].row # 0 /\ grants' = grants \ {req[r].who}
          /\ req' = [req EXCEPT ![r] = Admin!Idle]
      BY <2>1, <2>2 DEF Admin!Commit
    <2>4. req'[r] = Admin!Idle  BY <2>3 DEF AdminTypes
    <2>5. LeavesOne(req[r])  BY DEF RightsHold
    <2>6. req[r].seen # grants  BY <2>1, <2>3, <2>5 DEF LeavesOne
    <2> QED  BY <2>3, <2>4, <2>6 DEF Admin!Overtaken
  <1>2. Admin!LastAdminStays <=> [][Step]_(Admin!vars)  BY DEF Admin!LastAdminStays
  <1> HIDE DEF Step
  <1> QED  BY <1>1, <1>2, RightsInvariant, PTL DEF Admin!Spec


(***************************************************************************)
(* The links.  An entry that is not spent has opened nothing and is being  *)
(* exchanged by nobody; an exchange under way holds a spent link alone.    *)
(***************************************************************************)
Enters(q) == q.op = "enter"
Exchange(r) ==
  Enters(req[r]) =>
    /\ req[r].link \in 1..issued /\ entered[req[r].link] = 0
    /\ \A e \in links : e.id = req[r].link => e.used
LinksOnce ==
  /\ \A e, f \in links : e.id = f.id => e = f
  /\ \A id \in 1..MaxActs : entered[id] <= 1 /\ (id > issued => entered[id] = 0)
  /\ \A e \in links : ~e.used => entered[e.id] = 0
  /\ \A r \in Request : Exchange(r)
  /\ \A r, q \in Request :
       Enters(req[r]) /\ Enters(req[q]) /\ req[r].link = req[q].link => r = q
LinksFew ==
  /\ Cardinality(links) <= HardCap
  /\ \A p \in Person : Cardinality(Admin!PendingOf(links, p)) <= MaxPending

LEMMA OneMore ==
  ASSUME NEW S, IsFiniteSet(S), NEW x
  PROVE  /\ IsFiniteSet(S \cup {x}) /\ Cardinality(S \cup {x}) <= Cardinality(S) + 1
         /\ Cardinality(S) \in Nat /\ Cardinality(S \cup {x}) \in Nat
  <1>1. IsFiniteSet(S \cup {x})  BY FS_AddElement
  <1>2. Cardinality(S) \in Nat /\ Cardinality(S \cup {x}) \in Nat  BY <1>1, FS_CardinalityType
  <1>3. Cardinality(S \cup {x}) = IF x \in S THEN Cardinality(S) ELSE Cardinality(S) + 1
    BY FS_AddElement
  <1> QED  BY <1>1, <1>2, <1>3

LEMMA PendingIs ==
  ASSUME NEW es, IsFiniteSet(es), NEW p
  PROVE  /\ Admin!PendingOf(es, p) = {e \in es : e.who = p /\ ~e.used}
         /\ Admin!PendingOf(es, p) \subseteq es /\ IsFiniteSet(Admin!PendingOf(es, p))
         /\ Cardinality(Admin!PendingOf(es, p)) \in Nat
  <1>1. Admin!PendingOf(es, p) = {e \in es : e.who = p /\ ~e.used}  BY DEF Admin!PendingOf
  <1>2. Admin!PendingOf(es, p) \subseteq es  BY <1>1
  <1>3. IsFiniteSet(Admin!PendingOf(es, p))  BY <1>2, FS_Subset
  <1> QED  BY <1>1, <1>2, <1>3, FS_CardinalityType

(* No more entries than there were, and nobody has more of them pending.   *)
LEMMA NoMoreAreFew ==
  ASSUME Limited, AdminTypes, LinksFew, IsFiniteSet(links'),
         Cardinality(links') <= Cardinality(links),
         \A e \in links' : ~e.used => e \in links
  PROVE  LinksFew'
  <1>1. IsFiniteSet(links)  BY DEF AdminTypes
  <1>2. Cardinality(links') \in Nat /\ Cardinality(links) \in Nat /\ HardCap \in Nat
    BY <1>1, FS_CardinalityType DEF Limited
  <1>3. Cardinality(links') <= HardCap  BY <1>2 DEF LinksFew
  <1>4. ASSUME NEW p \in Person PROVE Cardinality(Admin!PendingOf(links', p)) <= MaxPending
    <2> DEFINE now == Admin!PendingOf(links', p)  was == Admin!PendingOf(links, p)
    <2>1. now = {e \in links' : e.who = p /\ ~e.used} /\ Cardinality(now) \in Nat
      BY PendingIs
    <2>2. was = {e \in links : e.who = p /\ ~e.used} /\ IsFiniteSet(was)
          /\ Cardinality(was) \in Nat
      BY <1>1, PendingIs
    <2>3. now \subseteq was  BY <2>1, <2>2
    <2>4. Cardinality(was) <= MaxPending /\ MaxPending \in Nat  BY DEF LinksFew, Limited
    <2> HIDE DEF now, was
    <2>5. Cardinality(now) <= Cardinality(was)  BY <2>2, <2>3, FS_Subset
    <2> QED  BY <2>1, <2>2, <2>4, <2>5 DEF now
  <1> QED  BY <1>3, <1>4 DEF LinksFew, Admin!PendingOf

(* Nobody comes to exchange, and entries only go.                          *)
LEMMA DoorStands ==
  ASSUME Limited, AdminTypes, LinksOnce, LinksFew, links' \subseteq links,
         UNCHANGED <<issued, entered>>,
         \A r \in Request : Enters(req'[r]) => Enters(req[r]) /\ req'[r].link = req[r].link
  PROVE  LinksOnce' /\ LinksFew'
  <1>1. \A r \in Request : Exchange(r)'  BY DEF LinksOnce, Exchange, Enters
  <1>2. \A r, q \in Request :
          Enters(req'[r]) /\ Enters(req'[q]) /\ req'[r].link = req'[q].link => r = q
    BY DEF LinksOnce
  <1>3. LinksOnce'
    <2>1. \A e, f \in links' : e.id = f.id => e = f  BY DEF LinksOnce
    <2>2. \A id \in 1..MaxActs : entered'[id] <= 1 /\ (id > issued' => entered'[id] = 0)
      BY DEF LinksOnce
    <2>3. \A e \in links' : ~e.used => entered'[e.id] = 0  BY DEF LinksOnce
    <2> QED  BY <1>1, <1>2, <2>1, <2>2, <2>3 DEF LinksOnce, Enters
  <1>4. IsFiniteSet(links)  BY DEF AdminTypes
  <1>5. IsFiniteSet(links') /\ Cardinality(links') <= Cardinality(links)  BY <1>4, FS_Subset
  <1> QED  BY <1>3, <1>5, NoMoreAreFew

LEMMA IssueDoor ==
  ASSUME Limited, AdminTypes, LinksOnce, LinksFew, NEW p \in Person, Admin!Issue(p)
  PROVE  LinksOnce' /\ LinksFew'
  <1>1. PICK n : /\ n.id = issued + 1 /\ n.who = p /\ n.used = FALSE
                 /\ links' = Admin!Room(p) \cup {n}
    BY IssueTypes
  <1>2. issued' = issued + 1 /\ UNCHANGED <<req, entered>> /\ AdminTypes'  BY IssueTypes
  <1>3. PICK few : /\ IsFiniteSet(few) /\ Cardinality(few) <= MaxPending - 1
                   /\ \A e \in Admin!Room(p) : e.who = p /\ ~e.used => e \in few
    BY RoomIs
  <1>4. /\ Admin!Room(p) \subseteq links /\ IsFiniteSet(Admin!Room(p))
        /\ Cardinality(Admin!Room(p)) <= HardCap - 1
    BY RoomIs
  <1>5. issued \in Nat /\ \A e \in links : e.id \in 1..issued  BY DEF AdminTypes, Link
  <1>6. issued + 1 \in 1..MaxActs
    <2>1. issued' \in Nat /\ nextRow' \in Nat \ {0} /\ issued' + nextRow' <= MaxActs + 1
      BY <1>2 DEF AdminTypes
    <2>2. MaxActs \in Nat  BY DEF Limited
    <2>3. \A a, b, m \in Nat : b # 0 /\ a + b <= m + 1 => a <= m  OBVIOUS
    <2>4. issued' <= MaxActs  BY <2>1, <2>2, <2>3
    <2> QED  BY <1>2, <1>5, <2>2, <2>4
  <1>7. LinksOnce'
    <2>1. \A e, f \in links' : e.id = f.id => e = f
      BY <1>1, <1>4, <1>5 DEF LinksOnce
    <2>2. \A id \in 1..MaxActs : entered'[id] <= 1 /\ (id > issued' => entered'[id] = 0)
      BY <1>2, <1>5 DEF LinksOnce
    <2>3. \A e \in links' : ~e.used => entered'[e.id] = 0
      BY <1>1, <1>2, <1>4, <1>5, <1>6 DEF LinksOnce
    <2>4. ASSUME NEW r \in Request, Enters(req[r])
          PROVE  /\ req[r].link \in 1..issued' /\ entered[req[r].link] = 0
                 /\ \A e \in links' : e.id = req[r].link => e.used
      <3>1. /\ req[r].link \in 1..issued /\ entered[req[r].link] = 0
            /\ \A e \in links : e.id = req[r].link => e.used
        BY <2>4 DEF LinksOnce, Exchange
      <3> QED  BY <1>1, <1>2, <1>4, <1>5, <3>1
    <2>5. \A r \in Request : Exchange(r)'  BY <1>2, <2>4 DEF Exchange, Enters
    <2> QED  BY <1>2, <2>1, <2>2, <2>3, <2>5 DEF LinksOnce, Enters
  <1>8. Cardinality(links') <= HardCap
    <2>1. Cardinality(links') <= Cardinality(Admin!Room(p)) + 1
      BY <1>1, <1>4, OneMore
    <2>2. Cardinality(links') \in Nat /\ Cardinality(Admin!Room(p)) \in Nat /\ HardCap \in Nat
      BY <1>2, <1>4, FS_CardinalityType DEF AdminTypes, Limited
    <2> QED  BY <1>4, <2>1, <2>2
  <1>9. ASSUME NEW o \in Person PROVE Cardinality(Admin!PendingOf(links', o)) <= MaxPending
    <2> DEFINE now == Admin!PendingOf(links', o)
    <2>1. IsFiniteSet(links') /\ IsFiniteSet(links)  BY <1>2 DEF AdminTypes
    <2>2. now = {e \in links' : e.who = o /\ ~e.used} /\ IsFiniteSet(now)
          /\ Cardinality(now) \in Nat
      BY <2>1, PendingIs
    <2>3. MaxPending \in Nat  BY DEF Limited
    <2>4. CASE o = p
      <3>1. IsFiniteSet(few \cup {n}) /\ Cardinality(few \cup {n}) <= Cardinality(few) + 1
            /\ Cardinality(few) \in Nat
        BY <1>3, OneMore
      <3>2. now \subseteq few \cup {n}  BY <1>1, <1>3, <2>2, <2>4
      <3> HIDE DEF now
      <3>3. Cardinality(now) <= Cardinality(few \cup {n}) /\ Cardinality(few \cup {n}) \in Nat
        BY <3>1, <3>2, FS_Subset, FS_CardinalityType
      <3> QED  BY <1>3, <2>2, <2>3, <3>1, <3>3 DEF now
    <2>5. CASE o # p
      <3> DEFINE was == Admin!PendingOf(links, o)
      <3>1. was = {e \in links : e.who = o /\ ~e.used} /\ IsFiniteSet(was)
            /\ Cardinality(was) \in Nat
        BY <2>1, PendingIs
      <3>2. now \subseteq was  BY <1>1, <1>4, <2>2, <2>5, <3>1
      <3>3. Cardinality(was) <= MaxPending  BY DEF LinksFew
      <3> HIDE DEF now, was
      <3>4. Cardinality(now) <= Cardinality(was)  BY <3>1, <3>2, FS_Subset
      <3> QED  BY <2>2, <2>3, <3>1, <3>3, <3>4 DEF now
    <2> QED  BY <2>4, <2>5
  <1> QED  BY <1>7, <1>8, <1>9 DEF LinksFew, Admin!PendingOf

LEMMA RedeemDoor ==
  ASSUME Limited, AdminTypes, LinksOnce, LinksFew, NEW r \in Request, Admin!Redeem(r)
  PROVE  LinksOnce' /\ LinksFew'
  <1>1. PICK e \in links :
          \E n : /\ ~e.used /\ n.used = TRUE /\ n.id = e.id /\ n.who = e.who
                 /\ links' = (Admin!Purged \ {e}) \cup {n} /\ e \in Admin!Purged
                 /\ req'[r].op = "enter" /\ req'[r].link = e.id
    BY RedeemTypes
  <1>2. PICK n : /\ ~e.used /\ n.used = TRUE /\ n.id = e.id /\ n.who = e.who
                 /\ links' = (Admin!Purged \ {e}) \cup {n} /\ e \in Admin!Purged
                 /\ req'[r].op = "enter" /\ req'[r].link = e.id
    BY <1>1
  <1>3. /\ req[r] = Admin!Idle /\ UNCHANGED <<issued, entered>> /\ AdminTypes'
        /\ \A o \in Request \ {r} : req'[o] = req[o]
    BY RedeemTypes
  <1>4. Admin!Purged \subseteq links  BY DEF Admin!Purged
  <1>5. /\ \A f \in links : f.id = e.id => f = e
        /\ \A q \in Request : Enters(req[q]) => req[q].link # e.id
    BY <1>2 DEF LinksOnce, Exchange
  <1>6. e.id \in 1..issued /\ entered[e.id] = 0
    BY <1>2 DEF AdminTypes, Link, LinksOnce
  <1>7. LinksOnce'
    <2>1. \A f, g \in links' : f.id = g.id => f = g
      BY <1>2, <1>4, <1>5 DEF LinksOnce
    <2>2. \A id \in 1..MaxActs : entered'[id] <= 1 /\ (id > issued' => entered'[id] = 0)
      BY <1>3 DEF LinksOnce
    <2>3. \A f \in links' : ~f.used => entered'[f.id] = 0
      BY <1>2, <1>3, <1>4 DEF LinksOnce
    <2>4. ASSUME NEW q \in Request, Enters(req'[q])
          PROVE  /\ req'[q].link \in 1..issued /\ entered[req'[q].link] = 0
                 /\ \A f \in links' : f.id = req'[q].link => f.used
      <3>1. CASE q = r  BY <1>2, <1>4, <1>5, <1>6, <3>1
      <3>2. CASE q # r
        <4>1. req'[q] = req[q]  BY <1>3, <3>2
        <4>2. /\ req[q].link \in 1..issued /\ entered[req[q].link] = 0
              /\ \A f \in links : f.id = req[q].link => f.used
          BY <2>4, <4>1 DEF LinksOnce, Exchange
        <4> QED  BY <1>2, <1>4, <4>1, <4>2
      <3> QED  BY <3>1, <3>2
    <2>5. \A q \in Request : Exchange(q)'  BY <1>3, <2>4 DEF Exchange, Enters
    <2>6. \A q, o \in Request :
            Enters(req'[q]) /\ Enters(req'[o]) /\ req'[q].link = req'[o].link => q = o
      BY <1>2, <1>3, <1>5 DEF LinksOnce
    <2> QED  BY <2>1, <2>2, <2>3, <2>5, <2>6 DEF LinksOnce, Enters
  <1>8. IsFiniteSet(links) /\ IsFiniteSet(links')  BY <1>3 DEF AdminTypes
  <1>9. Cardinality(links') <= Cardinality(links)
    <2>1. IsFiniteSet(links \ {e}) /\ Cardinality(links \ {e}) = Cardinality(links) - 1
      BY <1>8, FS_RemoveElement
    <2>2. IsFiniteSet(Admin!Purged \ {e})
          /\ Cardinality(Admin!Purged \ {e}) <= Cardinality(links \ {e})
      BY <1>4, <2>1, FS_Subset
    <2>3. Cardinality(links') <= Cardinality(Admin!Purged \ {e}) + 1
      BY <1>2, <2>2, OneMore
    <2>4. /\ Cardinality(links') \in Nat /\ Cardinality(links) \in Nat
          /\ Cardinality(Admin!Purged \ {e}) \in Nat
      BY <1>8, <2>2, FS_CardinalityType
    <2> QED  BY <2>1, <2>2, <2>3, <2>4
  <1>10. \A f \in links' : ~f.used => f \in links  BY <1>2, <1>4
  <1> QED  BY <1>7, <1>8, <1>9, <1>10, NoMoreAreFew

LEMMA EnterDoor ==
  ASSUME Limited, AdminTypes, LinksOnce, LinksFew, NEW r \in Request, Admin!Enter(r)
  PROVE  LinksOnce' /\ LinksFew'
  <1>1. /\ req[r].op = "enter" /\ entered' = [entered EXCEPT ![req[r].link] = @ + 1]
        /\ req' = [req EXCEPT ![r] = Admin!Idle]
        /\ UNCHANGED <<nextRow, links, issued>>
    BY DEF Admin!Enter
  <1>2. req'[r] = Admin!Idle /\ \A o \in Request \ {r} : req'[o] = req[o]
    BY <1>1, EndTypes
  <1> DEFINE k == req[r].link
  <1>3. /\ k \in 1..issued /\ entered[k] = 0 /\ \A e \in links : e.id = k => e.used
    BY <1>1 DEF LinksOnce, Exchange, Enters
  <1>4. \A q \in Request \ {r} : Enters(req[q]) => req[q].link # k
    BY <1>1 DEF LinksOnce, Enters
  <1> HIDE DEF k
  <1>5. /\ entered \in [1..MaxActs -> Nat] /\ issued \in Nat /\ issued <= MaxActs
    BY DEF AdminTypes, Limited
  <1>6. k \in 1..MaxActs  BY <1>3, <1>5 DEF Limited
  <1>7. entered'[k] = 1 /\ \A id \in 1..MaxActs : id # k => entered'[id] = entered[id]
    BY <1>1, <1>3, <1>5, <1>6 DEF k
  <1>8. LinksOnce'
    <2>1. \A e, f \in links' : e.id = f.id => e = f  BY <1>1 DEF LinksOnce
    <2>2. \A id \in 1..MaxActs : entered'[id] <= 1 /\ (id > issued' => entered'[id] = 0)
      BY <1>1, <1>3, <1>5, <1>7 DEF LinksOnce
    <2>3. \A e \in links : e.id \in 1..MaxActs
      BY <1>5 DEF AdminTypes, Link, Limited
    <2>4. \A e \in links' : ~e.used => entered'[e.id] = 0
      BY <1>1, <1>3, <1>7, <2>3 DEF LinksOnce
    <2>5. ASSUME NEW q \in Request, Enters(req'[q])
          PROVE  /\ req'[q].link \in 1..issued /\ entered'[req'[q].link] = 0
                 /\ \A f \in links : f.id = req'[q].link => f.used
      <3>1. q # r /\ req'[q] = req[q]  BY <1>2, <2>5, IdleIs DEF Enters
      <3>2. /\ req[q].link \in 1..issued /\ entered[req[q].link] = 0
            /\ \A f \in links : f.id = req[q].link => f.used
        BY <2>5, <3>1 DEF LinksOnce, Exchange
      <3>3. req[q].link # k /\ req[q].link \in 1..MaxActs
        BY <1>4, <1>5, <2>5, <3>1, <3>2 DEF Limited
      <3> QED  BY <1>7, <3>1, <3>2, <3>3
    <2>6. \A q \in Request : Exchange(q)'  BY <1>1, <2>5 DEF Exchange, Enters
    <2>7. \A q, o \in Request :
            Enters(req'[q]) /\ Enters(req'[o]) /\ req'[q].link = req'[o].link => q = o
      BY <1>2, IdleIs DEF LinksOnce, Enters
    <2> QED  BY <2>1, <2>2, <2>4, <2>6, <2>7 DEF LinksOnce, Enters
  <1> QED  BY <1>1, <1>8 DEF LinksFew, Admin!PendingOf


LEMMA DoorNext ==
  ASSUME Limited, AdminTypes, LinksOnce, LinksFew, [Admin!Next]_(Admin!vars)
  PROVE  LinksOnce' /\ LinksFew'
  <1>1. ASSUME NEW r \in Request, NEW op \in {"grant", "revoke", "delete"}, NEW by \in Person,
               NEW about \in Person, Admin!Ask(r, op, by, about)
        PROVE  LinksOnce' /\ LinksFew'
    <2>1. /\ ~Enters(req'[r]) /\ \A o \in Request \ {r} : req'[o] = req[o]
          /\ UNCHANGED <<links, issued, entered>>
      BY <1>1, AskTypes DEF Enters
    <2> QED  BY <2>1, DoorStands
  <1>2. ASSUME NEW r \in Request, Admin!Read(r) \/ Admin!Admit(r)
        PROVE  LinksOnce' /\ LinksFew'
    <2>1. UNCHANGED <<links, issued, entered>>
      BY <1>2 DEF Admin!Read, Admin!Admit, Admin!door
    <2>2. CASE req' = [req EXCEPT ![r] = Admin!Idle] /\ UNCHANGED nextRow
      BY <2>1, <2>2, EndTypes, IdleIs, DoorStands DEF Enters
    <2>3. ASSUME NEW seen \in SUBSET Person, Admin!Record(r, seen)
          PROVE  LinksOnce' /\ LinksFew'
      <3>1. /\ req'[r].op = req[r].op /\ req'[r].link = req[r].link
            /\ \A o \in Request \ {r} : req'[o] = req[o]
        BY <2>3, RecordTakes
      <3> QED  BY <2>1, <3>1, DoorStands DEF Enters
    <2>4. /\ (IF req[r].op = "revoke" THEN grants ELSE {}) \in SUBSET Person
          /\ {} \in SUBSET Person
      BY DEF AdminTypes
    <2>5. CASE Admin!Read(r)  BY <2>2, <2>3, <2>4, <2>5 DEF Admin!Read
    <2>6. CASE Admin!Admit(r)  BY <2>2, <2>3, <2>4, <2>6 DEF Admin!Admit
    <2> QED  BY <1>2, <2>5, <2>6
  <1>3. ASSUME NEW r \in Request, Admin!Commit(r) \/ Admin!Fail(r)
        PROVE  LinksOnce' /\ LinksFew'
    <2>1. /\ req' = [req EXCEPT ![r] = Admin!Idle] /\ UNCHANGED nextRow
          /\ UNCHANGED <<links, issued, entered>>
      BY <1>3 DEF Admin!Commit, Admin!Fail, Admin!door, Admin!journal
    <2> QED  BY <2>1, EndTypes, IdleIs, DoorStands DEF Enters
  <1>4. ASSUME NEW p \in Person, Admin!Register(p) PROVE LinksOnce' /\ LinksFew'
    BY <1>4, DoorStands DEF Admin!Register, Admin!door
  <1>5. CASE Admin!Elapse \/ UNCHANGED Admin!vars
    <2>1. UNCHANGED <<req, links, issued, entered>>
      BY <1>5 DEF Admin!Elapse, Admin!vars, Admin!door
    <2> QED  BY <2>1, DoorStands
  <1>6. CASE Admin!Restart
    <2>1. /\ links' = {} /\ UNCHANGED <<issued, entered>>
          /\ \A r \in Request : req'[r] = Admin!Idle
      BY <1>6 DEF Admin!Restart
    <2> QED  BY <2>1, IdleIs, DoorStands DEF Enters
  <1> QED
    BY <1>1, <1>2, <1>3, <1>4, <1>5, <1>6, IssueDoor, RedeemDoor, EnterDoor
       DEF Admin!Next, Admin!RequestStep

LEMMA DoorInvariant ==
  ASSUME Limited
  PROVE  Admin!Spec => [](AdminTypes /\ LinksOnce /\ LinksFew)
  <1>1. Admin!Init => AdminTypes /\ LinksOnce /\ LinksFew
    <2> SUFFICES ASSUME Admin!Init PROVE AdminTypes /\ LinksOnce /\ LinksFew  OBVIOUS
    <2>1. /\ links = {} /\ issued = 0 /\ entered = [id \in 1..MaxActs |-> 0]
          /\ req = [r \in Request |-> Admin!Idle]
      BY DEF Admin!Init
    <2>2. LinksOnce  BY <2>1, IdleIs DEF LinksOnce, Exchange, Enters
    <2>3. LinksFew
      <3>1. \A p \in Person : Admin!PendingOf(links, p) = {}  BY <2>1 DEF Admin!PendingOf
      <3>2. Cardinality({}) = 0  BY FS_EmptySet
      <3>3. 0 <= HardCap /\ 0 <= MaxPending  BY DEF Limited
      <3> QED  BY <2>1, <3>1, <3>2, <3>3 DEF LinksFew
    <2> QED  BY <2>2, <2>3, AdminTypesInit
  <1>2. AdminTypes /\ LinksOnce /\ LinksFew /\ [Admin!Next]_(Admin!vars)
          => (AdminTypes /\ LinksOnce /\ LinksFew)'
    BY AdminTypesNext, DoorNext
  <1> QED  BY <1>1, <1>2, PTL DEF Admin!Spec

(* PanelLinkStore.redeem and admin_panel_session: a link opens the panel   *)
(* once, and the entries stay within HARD_CAP and the limit of each        *)
(* player, for any number of exchanges under way, any limits and restarts. *)
THEOREM LinksOpenOnce ==
  ASSUME Limited
  PROVE  Admin!Spec => [](Admin!LinkOpensOnce /\ Admin!LinksAreBounded)
  <1>1. AdminTypes /\ LinksOnce => Admin!LinkOpensOnce
    BY DEF AdminTypes, LinksOnce, Admin!LinkOpensOnce
  <1>2. LinksFew => Admin!LinksAreBounded
    <2> SUFFICES ASSUME LinksFew PROVE Admin!LinksAreBounded  OBVIOUS
    <2>1. Admin!Cardinality(links) <= HardCap  BY SameCount DEF LinksFew
    <2>2. \A p \in Person : Admin!Cardinality(Admin!PendingOf(links, p)) <= MaxPending
      BY SameCount DEF LinksFew
    <2> QED  BY <2>1, <2>2 DEF Admin!LinksAreBounded
  <1> QED  BY <1>1, <1>2, DoorInvariant, PTL


(***************************************************************************)
(* The journal.  What a committed row leaves behind of those the cap cuts  *)
(* off, and what was under way below it when it was taken, is never more   *)
(* than the other requests; the same of a row that is under way, without   *)
(* those it deletes when it commits.                                       *)
(***************************************************************************)
Behind(x, gone) ==
  {a \in audit : a <= x - MaxRows /\ a \notin gone}
  \cup {a \in 1..(nextRow - 1) : a <= x - MaxRows /\ \E r \in Request : req[r].row = a}
Small(S) == IsFiniteSet(S) /\ Cardinality(S) <= Cardinality(Request) - 1
JournalFew ==
  /\ \A x \in audit : Small(Behind(x, {}))
  /\ \A r \in Request : req[r].row # 0 => Small(Behind(req[r].row, req[r].old))

LEMMA RequestsCount == Limited => Cardinality(Request) \in Nat
  BY FS_CardinalityType DEF Limited

LEMMA SmallerIsSmall ==
  ASSUME Limited, NEW S, Small(S), NEW T \in SUBSET S
  PROVE  Small(T)
  <1>1. IsFiniteSet(S) /\ Cardinality(S) <= Cardinality(Request) - 1  BY DEF Small
  <1>2. IsFiniteSet(T) /\ Cardinality(T) <= Cardinality(S)  BY <1>1, FS_Subset
  <1>3. Cardinality(S) \in Nat /\ Cardinality(T) \in Nat  BY <1>1, <1>2, FS_CardinalityType
  <1> QED  BY <1>1, <1>2, <1>3, RequestsCount DEF Small

(* What the other requests hold is small.                                  *)
LEMMA OthersAreSmall ==
  ASSUME Limited, NEW r \in Request, NEW f, NEW S,
         \A a \in S : \E o \in Request \ {r} : f[o] = a
  PROVE  Small(S)
  <1> DEFINE O == Request \ {r}
             T == {f[o] : o \in O}
             g == [o \in O |-> f[o]]
  <1>1. IsFiniteSet(Request)  BY DEF Limited
  <1>2. IsFiniteSet(O) /\ Cardinality(O) = Cardinality(Request) - 1
    BY <1>1, FS_RemoveElement
  <1>3. g \in Surjection(O, T)  BY DEF Surjection
  <1> HIDE DEF g, O, T
  <1>4. IsFiniteSet(T) /\ Cardinality(T) <= Cardinality(O)  BY <1>2, <1>3, FS_Surjection
  <1>5. Small(T)  BY <1>2, <1>4 DEF Small
  <1>6. S \subseteq T  BY DEF T, O
  <1> QED  BY <1>5, <1>6, SmallerIsSmall

(* Rows and requests only go, or a row passes from a request to the        *)
(* journal.                                                                *)
LEMMA JournalStands ==
  ASSUME Limited, AdminTypes, AdminTypes', JournalFew, UNCHANGED nextRow,
         \A o \in Request : req'[o].row # 0 => req'[o].row = req[o].row /\ req'[o].old = req[o].old,
         audit' \subseteq audit
  PROVE  JournalFew'
  <1>1. ASSUME NEW x, NEW gone PROVE Behind(x, gone)' \subseteq Behind(x, gone)
    <2> SUFFICES ASSUME NEW a \in Behind(x, gone)' PROVE a \in Behind(x, gone)  OBVIOUS
    <2>1. CASE a \in audit' /\ a <= x - MaxRows /\ a \notin gone  BY <2>1 DEF Behind
    <2>2. CASE /\ a \in 1..(nextRow' - 1) /\ a <= x - MaxRows
               /\ \E r \in Request : req'[r].row = a
      BY <2>2 DEF Behind
    <2> QED  BY <2>1, <2>2 DEF Behind
  <1>2. \A x \in audit' : Small(Behind(x, {})')
    BY <1>1, SmallerIsSmall DEF JournalFew
  <1>3. ASSUME NEW r \in Request, req'[r].row # 0
        PROVE  Small(Behind(req[r].row, req[r].old)')
    <2>1. PICK x, gone : x = req[r].row /\ gone = req[r].old  OBVIOUS
    <2>2. x = req'[r].row /\ gone = req'[r].old  BY <1>3, <2>1
    <2>3. Small(Behind(x, gone))  BY <1>3, <2>1, <2>2 DEF JournalFew
    <2>4. Small(Behind(x, gone)')  BY <1>1, <2>3, SmallerIsSmall
    <2>5. Behind(req[r].row, req[r].old)' = Behind(x, gone)'  BY <2>2 DEF Behind
    <2> QED  BY <2>4, <2>5
  <1> QED  BY <1>2, <1>3 DEF JournalFew, Small, Behind


LEMMA RecordJournal ==
  ASSUME Limited, AdminTypes, JournalFew, NEW r \in Request, NEW seen \in SUBSET Person,
         Admin!Record(r, seen), req[r].row = 0, UNCHANGED audit
  PROVE  JournalFew'
  <1>1. /\ nextRow' = nextRow + 1 /\ \A o \in Request \ {r} : req'[o] = req[o]
        /\ req'[r].row = nextRow /\ req'[r].old = {row \in audit : row <= nextRow - MaxRows}
    BY RecordTakes
  <1>2. nextRow \in Nat \ {0} /\ MaxRows \in Nat \ {0}  BY DEF AdminTypes, Limited
  <1>3. ASSUME NEW x \in Nat, x < nextRow, NEW gone
        PROVE  Behind(x, gone)' \subseteq Behind(x, gone)
    <2> SUFFICES ASSUME NEW a \in Behind(x, gone)' PROVE a \in Behind(x, gone)  OBVIOUS
    <2>1. CASE a \in audit' /\ a <= x - MaxRows /\ a \notin gone  BY <2>1 DEF Behind
    <2>2. CASE /\ a \in 1..(nextRow' - 1) /\ a <= x - MaxRows
               /\ \E o \in Request : req'[o].row = a
      <3>1. PICK o \in Request : req'[o].row = a  BY <2>2
      <3>2. a \in Int /\ 1 <= a /\ a < nextRow  BY <1>1, <1>2, <1>3, <2>2
      <3>3. o # r  BY <1>1, <3>1, <3>2
      <3>4. req[o].row = a  BY <1>1, <3>1, <3>3
      <3>5. a \in 1..(nextRow - 1)  BY <1>2, <3>2
      <3> QED  BY <2>2, <3>4, <3>5 DEF Behind
    <2> QED  BY <2>1, <2>2 DEF Behind
  <1>4. \A x \in audit' : Small(Behind(x, {})')
    <2> SUFFICES ASSUME NEW x \in audit PROVE Small(Behind(x, {})')  OBVIOUS
    <2>1. x \in Nat /\ x < nextRow  BY AuditIs
    <2>2. Small(Behind(x, {}))  BY DEF JournalFew
    <2> QED  BY <1>3, <2>1, <2>2, SmallerIsSmall
  <1>5. ASSUME NEW o \in Request, o # r, req'[o].row # 0
        PROVE  Small(Behind(req[o].row, req[o].old)')
    <2>1. PICK x, gone : x = req[o].row /\ gone = req[o].old  OBVIOUS
    <2>2. x = req'[o].row /\ gone = req'[o].old  BY <1>1, <1>5, <2>1
    <2>3. Small(Behind(x, gone))  BY <1>5, <2>1, <2>2 DEF JournalFew
    <2>4. x \in Nat /\ x < nextRow  BY <2>1, AskedIs DEF AdminTypes
    <2>5. Small(Behind(x, gone)')  BY <1>3, <2>3, <2>4, SmallerIsSmall
    <2>6. Behind(req[o].row, req[o].old)' = Behind(x, gone)'  BY <2>2 DEF Behind
    <2> QED  BY <2>5, <2>6
  <1>6. Small(Behind(req[r].row, req[r].old)')
    <2>1. PICK x, gone : x = nextRow /\ gone = {row \in audit : row <= nextRow - MaxRows}
      OBVIOUS
    <2>2. Behind(req[r].row, req[r].old)' = Behind(x, gone)'  BY <1>1, <2>1 DEF Behind
    <2>3. PICK f : f = [o \in Request |-> req'[o].row]  OBVIOUS
    <2>4. ASSUME NEW a \in Behind(x, gone)' PROVE \E o \in Request \ {r} : f[o] = a
      <3>1. ~(a \in audit' /\ a <= x - MaxRows /\ a \notin gone)  BY <2>1
      <3>2. a \in 1..(nextRow' - 1) /\ a <= x - MaxRows /\ \E o \in Request : req'[o].row = a
        BY <3>1 DEF Behind
      <3>3. PICK o \in Request : req'[o].row = a  BY <3>2
      <3>4. a # nextRow  BY <1>1, <1>2, <2>1, <3>2
      <3>5. o # r  BY <1>1, <3>3, <3>4
      <3> QED  BY <2>3, <3>3, <3>5
    <2>5. Small(Behind(x, gone)')  BY <2>4, OthersAreSmall
    <2> QED  BY <2>2, <2>5
  <1>7. \A o \in Request : req'[o].row # 0 => Small(Behind(req[o].row, req[o].old)')
    BY <1>5, <1>6
  <1> QED  BY <1>4, <1>7 DEF JournalFew, Small, Behind

LEMMA CommitJournal ==
  ASSUME Limited, AdminTypes, JournalFew, NEW r \in Request, req[r].row # 0,
         Admin!CommitRow(r), req' = [req EXCEPT ![r] = Admin!Idle], UNCHANGED nextRow
  PROVE  JournalFew'
  <1>1. req'[r] = Admin!Idle /\ \A o \in Request \ {r} : req'[o] = req[o]  BY EndTypes
  <1>2. PICK n, old : n = req[r].row /\ old = req[r].old  OBVIOUS
  <1>3. audit' = (audit \ old) \cup {n}  BY <1>2, CommitsRow
  <1>4. /\ n \in Nat \ {0} /\ n < nextRow /\ nextRow \in Nat /\ MaxRows \in Nat \ {0}
    BY <1>2, AskedIs DEF AdminTypes, Limited
  <1>5. n \in 1..(nextRow - 1)  BY <1>4
  <1>6. ASSUME NEW x, NEW gone PROVE Behind(x, gone)' \subseteq Behind(x, gone)
    <2> SUFFICES ASSUME NEW a \in Behind(x, gone)' PROVE a \in Behind(x, gone)  OBVIOUS
    <2>1. CASE a \in audit' /\ a <= x - MaxRows /\ a \notin gone
      <3>1. CASE a = n  BY <1>2, <1>5, <2>1, <3>1 DEF Behind
      <3>2. CASE a # n  BY <1>3, <2>1, <3>2 DEF Behind
      <3> QED  BY <3>1, <3>2
    <2>2. CASE /\ a \in 1..(nextRow' - 1) /\ a <= x - MaxRows
               /\ \E o \in Request : req'[o].row = a
      <3>1. PICK o \in Request : req'[o].row = a  BY <2>2
      <3>2. a # 0  BY <1>4, <2>2
      <3>3. o # r  BY <1>1, <3>1, <3>2, IdleIs
      <3> QED  BY <1>1, <2>2, <3>1, <3>3 DEF Behind
    <2> QED  BY <2>1, <2>2 DEF Behind
  <1>7. Behind(n, {})' \subseteq Behind(n, old)
    <2> SUFFICES ASSUME NEW a \in Behind(n, {})' PROVE a \in Behind(n, old)  OBVIOUS
    <2>1. CASE a \in audit' /\ a <= n - MaxRows
      <3>1. a # n  BY <1>4, <2>1
      <3> QED  BY <1>3, <2>1, <3>1 DEF Behind
    <2>2. CASE a \in Behind(n, old)'  BY <1>6, <2>2
    <2> QED  BY <2>1, <2>2 DEF Behind
  <1>8. \A x \in audit' : Small(Behind(x, {})')
    <2> SUFFICES ASSUME NEW x \in audit' PROVE Small(Behind(x, {})')  OBVIOUS
    <2>1. CASE x = n
      <3>1. Small(Behind(n, old))  BY <1>2 DEF JournalFew
      <3> QED  BY <1>7, <2>1, <3>1, SmallerIsSmall
    <2>2. CASE x \in audit
      <3>1. Small(Behind(x, {}))  BY <2>2 DEF JournalFew
      <3> QED  BY <1>6, <3>1, SmallerIsSmall
    <2> QED  BY <1>3, <2>1, <2>2
  <1>9. ASSUME NEW o \in Request, req'[o].row # 0
        PROVE  Small(Behind(req[o].row, req[o].old)')
    <2>1. PICK x, gone : x = req[o].row /\ gone = req[o].old  OBVIOUS
    <2>2. o # r  BY <1>1, <1>9, IdleIs
    <2>3. x = req'[o].row /\ gone = req'[o].old  BY <1>1, <2>1, <2>2
    <2>4. Small(Behind(x, gone))  BY <1>9, <2>1, <2>3 DEF JournalFew
    <2>5. Small(Behind(x, gone)')  BY <1>6, <2>4, SmallerIsSmall
    <2>6. Behind(req[o].row, req[o].old)' = Behind(x, gone)'  BY <2>3 DEF Behind
    <2> QED  BY <2>5, <2>6
  <1> QED  BY <1>8, <1>9 DEF JournalFew, Small, Behind

LEMMA JournalNext ==
  ASSUME Limited, AdminTypes, AdminTypes', JournalFew, [Admin!Next]_(Admin!vars)
  PROVE  JournalFew'
  <1>1. ASSUME NEW r \in Request, NEW op \in {"grant", "revoke", "delete"}, NEW by \in Person,
               NEW about \in Person, Admin!Ask(r, op, by, about)
        PROVE  JournalFew'
    <2>1. /\ req'[r].row = 0 /\ \A o \in Request \ {r} : req'[o] = req[o]
          /\ UNCHANGED <<audit, nextRow>>
      BY <1>1, AskTypes
    <2> QED  BY <2>1, JournalStands
  <1>2. ASSUME NEW r \in Request, Admin!Redeem(r) PROVE JournalFew'
    <2>1. /\ req'[r].row = 0 /\ \A o \in Request \ {r} : req'[o] = req[o]
          /\ UNCHANGED <<audit, nextRow>>
      BY <1>2, RedeemTypes
    <2> QED  BY <2>1, JournalStands
  <1>3. ASSUME NEW r \in Request, UNCHANGED <<audit, nextRow>>,
               req' = [req EXCEPT ![r] = Admin!Idle]
        PROVE  JournalFew'
    BY <1>3, EndTypes, IdleIs, JournalStands
  <1>4. ASSUME NEW r \in Request, Admin!Read(r) \/ Admin!Admit(r) PROVE JournalFew'
    <2>1. req[r].row = 0 /\ UNCHANGED audit  BY <1>4 DEF Admin!Read, Admin!Admit
    <2>2. /\ (IF req[r].op = "revoke" THEN grants ELSE {}) \in SUBSET Person
          /\ {} \in SUBSET Person
      BY DEF AdminTypes
    <2>3. CASE Admin!Read(r)  BY <1>3, <2>1, <2>2, <2>3, RecordJournal DEF Admin!Read
    <2>4. CASE Admin!Admit(r)  BY <1>3, <2>1, <2>2, <2>4, RecordJournal DEF Admin!Admit
    <2> QED  BY <1>4, <2>3, <2>4
  <1>5. ASSUME NEW r \in Request, Admin!Commit(r) PROVE JournalFew'
    <2>1. req[r].row # 0 /\ req' = [req EXCEPT ![r] = Admin!Idle] /\ UNCHANGED nextRow
      BY <1>5 DEF Admin!Commit
    <2>2. Admin!CommitRow(r) \/ UNCHANGED audit  BY <1>5 DEF Admin!Commit
    <2> QED  BY <1>3, <2>1, <2>2, CommitJournal
  <1>6. ASSUME NEW r \in Request, Admin!Enter(r) PROVE JournalFew'
    BY <1>6, CommitJournal DEF Admin!Enter
  <1>7. ASSUME NEW r \in Request, Admin!Fail(r) PROVE JournalFew'
    BY <1>3, <1>7 DEF Admin!Fail, Admin!journal
  <1>8. ASSUME UNCHANGED <<req, audit, nextRow>> PROVE JournalFew'
    BY <1>8, JournalStands
  <1>9. ASSUME NEW p \in Person, Admin!Issue(p) \/ Admin!Register(p) PROVE JournalFew'
    BY <1>8, <1>9 DEF Admin!Issue, Admin!Register, Admin!journal
  <1>10. CASE Admin!Elapse \/ UNCHANGED Admin!vars
    BY <1>8, <1>10 DEF Admin!Elapse, Admin!vars, Admin!journal
  <1>11. CASE Admin!Restart
    <2>1. UNCHANGED <<audit, nextRow>> /\ \A r \in Request : req'[r] = Admin!Idle
      BY <1>11 DEF Admin!Restart, Admin!journal
    <2> QED  BY <2>1, IdleIs, JournalStands
  <1> QED
    BY <1>1, <1>2, <1>4, <1>5, <1>6, <1>7, <1>8, <1>9, <1>10, <1>11
       DEF Admin!Next, Admin!RequestStep

LEMMA JournalInvariant ==
  ASSUME Limited PROVE Admin!Spec => [](AdminTypes /\ JournalFew)
  <1>1. Admin!Init => AdminTypes /\ JournalFew
    <2> SUFFICES ASSUME Admin!Init PROVE AdminTypes /\ JournalFew  OBVIOUS
    <2>1. audit = {} /\ req = [r \in Request |-> Admin!Idle]  BY DEF Admin!Init
    <2> QED  BY <2>1, IdleIs, AdminTypesInit DEF JournalFew
  <1>2. AdminTypes /\ JournalFew /\ [Admin!Next]_(Admin!vars) => (AdminTypes /\ JournalFew)'
    BY AdminTypesNext, JournalNext
  <1> QED  BY <1>1, <1>2, PTL DEF Admin!Spec

(* AdminAuditService.record: the journal holds audit_log_max_rows and at   *)
(* most one more for every other request - for any cap and any number of   *)
(* requests whose rows commit in any order or not at all.                  *)
THEOREM JournalStaysBounded ==
  ASSUME Limited PROVE Admin!Spec => []Admin!JournalIsBounded
  <1>1. AdminTypes /\ JournalFew => Admin!JournalIsBounded
    <2> SUFFICES ASSUME AdminTypes, JournalFew
                 PROVE  Cardinality(audit) <= MaxRows + Cardinality(Request) - 1
      BY SameCount DEF Admin!JournalIsBounded
    <2>0. MaxRows \in Nat \ {0} /\ Cardinality(Request) \in Nat
      BY RequestsCount DEF Limited
    <2>1. CASE audit = {}
      <3>1. Cardinality(audit) = 0  BY <2>1, FS_EmptySet
      <3> QED  BY <2>0, <3>1
    <2>2. CASE audit # {}
      <3> DEFINE T == {nextRow - a : a \in audit}
      <3>1. \A a \in audit : a \in Nat /\ 1 <= a /\ a < nextRow /\ nextRow \in Nat  BY AuditIs
      <3>2. T \in SUBSET Nat /\ T # {}  BY <2>2, <3>1
      <3>3. PICK least \in T : \A t \in T : least <= t  BY <3>2, LeastNumber
      <3>4. PICK x \in audit : least = nextRow - x  OBVIOUS
      <3>5. ASSUME NEW a \in audit PROVE a <= x
        <4>1. least <= nextRow - a  BY <3>3
        <4>2. a \in Nat /\ x \in Nat /\ nextRow \in Nat  BY <3>1
        <4> HIDE DEF T
        <4> QED  BY <3>4, <4>1, <4>2
      <3> DEFINE top == (x - MaxRows + 1)..x
                 low == Behind(x, {})
      <3>6. audit \subseteq top \cup low
        <4> SUFFICES ASSUME NEW a \in audit PROVE a \in top \cup low  OBVIOUS
        <4>1. CASE a <= x - MaxRows  BY <4>1 DEF Behind
        <4>2. CASE ~(a <= x - MaxRows)  BY <2>0, <3>1, <3>5, <4>2
        <4> QED  BY <4>1, <4>2
      <3>7. IsFiniteSet(low) /\ Cardinality(low) <= Cardinality(Request) - 1
        BY DEF JournalFew, Small
      <3>8. IsFiniteSet(top) /\ Cardinality(top) = MaxRows
        <4>1. x - MaxRows + 1 \in Int /\ x \in Int  BY <2>0, <3>1
        <4>2. IsFiniteSet(top) /\ Cardinality(top) = IF x - MaxRows + 1 > x THEN 0
                                                     ELSE x - (x - MaxRows + 1) + 1
          BY <4>1, FS_Interval
        <4>3. x \in Nat  BY <3>1
        <4> QED  BY <2>0, <4>2, <4>3
      <3> HIDE DEF top, low
      <3>9. /\ IsFiniteSet(top \cup low)
            /\ Cardinality(top \cup low) = Cardinality(top) + Cardinality(low)
                                             - Cardinality(top \cap low)
        BY <3>7, <3>8, FS_Union
      <3>10. IsFiniteSet(top \cap low)  BY <3>7, FS_Intersection
      <3>11. IsFiniteSet(audit) /\ Cardinality(audit) <= Cardinality(top \cup low)
        BY <3>6, <3>9, FS_Subset
      <3>12. /\ Cardinality(audit) \in Nat /\ Cardinality(low) \in Nat
             /\ Cardinality(top \cap low) \in Nat /\ Cardinality(top \cup low) \in Nat
        BY <3>7, <3>9, <3>10, <3>11, FS_CardinalityType
      <3> QED  BY <2>0, <3>7, <3>8, <3>9, <3>11, <3>12
    <2> QED  BY <2>1, <2>2
  <1> QED  BY <1>1, JournalInvariant, PTL

-----------------------------------------------------------------------------
(***************************************************************************)
(* Numbers.  Whoever has listed the players has listed everybody who came  *)
(* before those it lists, or they have their numbers; so whoever issues    *)
(* under the lock issues in the order of arrival.                          *)
(***************************************************************************)
NumberTypes ==
  /\ registered \in 0..MaxPlayers /\ roster \subseteq 1..registered /\ counter \in Nat
  /\ numbers \in [Number!Player -> Nat]
  /\ request \in [Reader -> [stage : {"idle", "listed", "issuing"}, tries : Nat,
                             missing : SUBSET (1..registered)]]

HandedStands ==
  /\ handed \subseteq (1..counter) \X (1..registered)
  /\ \A h \in handed : h[2] \in roster => numbers[h[2]] = h[1]
  /\ \A a, b \in handed : (a[1] = b[1]) = (a[2] = b[2])
NumbersStand ==
  \A p \in Number!Player : numbers[p] # 0 => p \in roster /\ <<numbers[p], p>> \in handed

Before(todo) ==
  \A q \in todo : \A p \in roster : p < q => p \in todo \/ numbers[p] # 0
ListsAreWhole == \A r \in Reader : Before(request[r].missing)
LockHeld ==
  /\ \A r, s \in Reader : request[r].stage = "issuing" /\ request[s].stage = "issuing" => r = s
  /\ \A r \in Reader : request[r].stage = "issuing" =>
       \A p \in request[r].missing : numbers[p] = 0

NumberInv ==
  /\ NumberTypes /\ HandedStands /\ NumbersStand /\ ListsAreWhole /\ LockHeld
  /\ Number!NumbersFollowArrival

LEMMA SameNumber == ASSUME NEW S PROVE Number!Cardinality(S) = Cardinality(S)
  BY DEF Number!Cardinality, Cardinality

(* The place of a player among those who are given numbers.                *)
Place(todo, p) == Cardinality({q \in todo : q <= p})

LEMMA PlacesAre ==
  ASSUME NEW n \in Nat, NEW todo \in SUBSET (1..n)
  PROVE  /\ Cardinality(todo) \in Nat
         /\ \A p \in todo : Place(todo, p) \in 1..Cardinality(todo)
         /\ \A p, q \in todo : p < q => Place(todo, p) < Place(todo, q)
  <1>1. IsFiniteSet(todo) /\ Cardinality(todo) \in Nat
    <2>1. IsFiniteSet(1..n)  BY FS_Interval
    <2> QED  BY <2>1, FS_Subset, FS_CardinalityType
  <1>2. ASSUME NEW p \in todo PROVE Place(todo, p) \in 1..Cardinality(todo)
    <2> DEFINE S == {q \in todo : q <= p}
    <2>1. IsFiniteSet(S) /\ Cardinality(S) \in Nat /\ Cardinality(S) <= Cardinality(todo)
      BY <1>1, FS_Subset, FS_CardinalityType
    <2>2. Cardinality(S) # 0
      <3>1. p \in S  OBVIOUS
      <3> QED  BY <2>1, <3>1, FS_EmptySet
    <2> QED  BY <1>1, <2>1, <2>2 DEF Place
  <1>3. ASSUME NEW p \in todo, NEW q \in todo, p < q PROVE Place(todo, p) < Place(todo, q)
    <2> DEFINE S == {x \in todo : x <= p}
               T == {x \in todo : x <= q}
    <2>1. IsFiniteSet(T) /\ Cardinality(T) \in Nat  BY <1>1, FS_Subset, FS_CardinalityType
    <2>2. S \subseteq T /\ S # T
      <3>0. p \in Nat /\ q \in Nat /\ \A x \in todo : x \in Nat  OBVIOUS
      <3>1. \A x \in todo : x <= p => x <= q  BY <1>3, <3>0
      <3>2. S \subseteq T  BY <3>1
      <3>3. q \in T /\ q \notin S  BY <1>3, <3>0
      <3> QED  BY <3>2, <3>3
    <2>3. IsFiniteSet(S) /\ Cardinality(S) \in Nat /\ Cardinality(S) < Cardinality(T)
      BY <2>1, <2>2, FS_Subset, FS_CardinalityType
    <2> QED  BY <2>3 DEF Place
  <1> QED  BY <1>1, <1>2, <1>3

LEMMA NumberInit == MaxPlayers \in Nat /\ Number!Init => NumberInv
  <1> SUFFICES ASSUME MaxPlayers \in Nat, Number!Init PROVE NumberInv  OBVIOUS
  <1>1. request = [r \in Reader |-> Number!Idle]
        /\ Number!Idle = [stage |-> "idle", tries |-> 0, missing |-> {}]
    BY DEF Number!Init, Number!Idle
  <1>2. \A r \in Reader : request[r] = [stage |-> "idle", tries |-> 0, missing |-> {}]
    BY <1>1
  <1> USE DEF Number!Init
  <1>3. NumberTypes  BY <1>1 DEF NumberTypes
  <1>4. HandedStands  BY DEF HandedStands
  <1>5. NumbersStand  BY DEF NumbersStand
  <1>6. ListsAreWhole  BY <1>2 DEF ListsAreWhole, Before
  <1>7. LockHeld  BY <1>2 DEF LockHeld
  <1>8. Number!NumbersFollowArrival  BY DEF Number!NumbersFollowArrival
  <1> QED  BY <1>3, <1>4, <1>5, <1>6, <1>7, <1>8 DEF NumberInv

(* A step that changes what one request has read, and nothing else.        *)
LEMMA RequestKeeps ==
  ASSUME MaxPlayers \in Nat, NumberInv, NEW r \in Reader,
         NEW t \in [stage : {"idle", "listed", "issuing"}, tries : Nat,
                    missing : SUBSET (1..registered)],
         request' = [request EXCEPT ![r] = t],
         UNCHANGED <<roster, registered, numbers, counter, handed>>,
         Before(t.missing),
         t.stage = "issuing" =>
           /\ \A s \in Reader : request[s].stage # "issuing"
           /\ \A p \in t.missing : numbers[p] = 0
  PROVE  NumberInv'
  <1> USE DEF NumberInv
  <1>0. /\ request'[r] = t
        /\ \A s \in Reader : s # r => request'[s] = request[s]
    BY DEF NumberTypes
  <1>1. NumberTypes'  BY DEF NumberTypes, Number!Player
  <1>2. HandedStands'  BY DEF HandedStands
  <1>3. NumbersStand'  BY DEF NumbersStand, Number!Player
  <1>4. ListsAreWhole'
    <2> SUFFICES ASSUME NEW s \in Reader PROVE Before(request[s].missing)'
      BY DEF ListsAreWhole
    <2>1. Before(request'[s].missing)
      BY <1>0 DEF ListsAreWhole
    <2> QED  BY <2>1 DEF Before
  <1>5. LockHeld'  BY <1>0 DEF LockHeld
  <1>6. Number!NumbersFollowArrival'  BY DEF Number!NumbersFollowArrival, Number!Player
  <1> QED  BY <1>1, <1>2, <1>3, <1>4, <1>5, <1>6

LEMMA NumberIdleIs ==
  /\ Number!Idle \in [stage : {"idle", "listed", "issuing"}, tries : Nat,
                      missing : SUBSET (1..registered)]
  /\ Number!Idle.stage = "idle" /\ Number!Idle.missing = {} /\ Before(Number!Idle.missing)
  BY DEF Number!Idle, Before

LEMMA ListKeeps ==
  ASSUME MaxPlayers \in Nat, NumberInv, NEW r \in Reader, Number!List(r) PROVE NumberInv'
  <1> DEFINE t == [request[r] EXCEPT !.stage = "listed", !.missing = Number!Listed]
  <1>1. request[r] \in [stage : {"idle", "listed", "issuing"}, tries : Nat,
                        missing : SUBSET (1..registered)]
    BY DEF NumberInv, NumberTypes
  <1>3. Number!Listed \subseteq 1..registered /\ Before(Number!Listed)
    BY DEF NumberInv, NumberTypes, Number!Listed, Number!NoNumber, Before
  <1>4. request' = [request EXCEPT ![r] = IF Number!Listed = {} THEN Number!Idle ELSE t]
    BY DEF Number!List
  <1>5. t \in [stage : {"idle", "listed", "issuing"}, tries : Nat, missing : SUBSET (1..registered)]
        /\ t.stage = "listed" /\ t.missing = Number!Listed
    BY <1>1, <1>3
  <1> HIDE DEF t
  <1>6. UNCHANGED <<roster, registered, numbers, counter, handed>>  BY DEF Number!List
  <1>7. CASE Number!Listed = {}  BY <1>4, <1>6, <1>7, NumberIdleIs, RequestKeeps
  <1>8. CASE Number!Listed # {}  BY <1>3, <1>4, <1>5, <1>6, <1>8, RequestKeeps
  <1> QED  BY <1>7, <1>8

LEMMA TakeKeeps ==
  ASSUME MaxPlayers \in Nat, NumberInv, NEW r \in Reader, Number!Take(r) PROVE NumberInv'
  <1> DEFINE still == {p \in request[r].missing : Number!NoNumber(p)}
             t == [request[r] EXCEPT !.stage = "issuing", !.missing = still]
  <1>1. request[r] \in [stage : {"idle", "listed", "issuing"}, tries : Nat,
                        missing : SUBSET (1..registered)]
    BY DEF NumberInv, NumberTypes
  <1>3. still \subseteq 1..registered /\ Before(still) /\ \A p \in still : numbers[p] = 0
    BY <1>1 DEF NumberInv, ListsAreWhole, NumberTypes, Number!NoNumber, Before
  <1>4. request' = [request EXCEPT ![r] = IF still = {} THEN Number!Idle ELSE t]
    BY DEF Number!Take
  <1>5. t \in [stage : {"idle", "listed", "issuing"}, tries : Nat, missing : SUBSET (1..registered)]
        /\ t.missing = still
    BY <1>1, <1>3
  <1>6. UNCHANGED <<roster, registered, numbers, counter, handed>>
        /\ \A s \in Reader : request[s].stage # "issuing"
    BY DEF Number!Take, Number!Free
  <1> HIDE DEF t, still
  <1>7. CASE still = {}  BY <1>4, <1>6, <1>7, NumberIdleIs, RequestKeeps
  <1>8. CASE still # {}  BY <1>3, <1>4, <1>5, <1>6, <1>8, RequestKeeps
  <1> QED  BY <1>7, <1>8

LEMMA ConflictKeeps ==
  ASSUME MaxPlayers \in Nat, NumberInv, NEW r \in Reader, Number!Commit(r), Number!Conflict(r),
         request' = [request EXCEPT ![r] =
             IF request[r].tries + 1 = Attempts THEN Number!Idle
             ELSE [Number!Idle EXCEPT !.tries = request[r].tries + 1]]
  PROVE NumberInv'
  <1> DEFINE t == [Number!Idle EXCEPT !.tries = request[r].tries + 1]
  <1>1. request[r].tries \in Nat  BY DEF NumberInv, NumberTypes
  <1>3. request' = [request EXCEPT ![r] =
          IF request[r].tries + 1 = Attempts THEN Number!Idle ELSE t]
    OBVIOUS
  <1>4. t \in [stage : {"idle", "listed", "issuing"}, tries : Nat, missing : SUBSET (1..registered)]
        /\ t.stage = "idle" /\ t.missing = {} /\ Before(t.missing)
    BY <1>1 DEF Number!Idle, Before
  <1>5. UNCHANGED <<roster, registered, numbers, counter, handed>>
    BY DEF Number!Commit, Number!Conflict
  <1> HIDE DEF t
  <1>6. CASE request[r].tries + 1 = Attempts  BY <1>3, <1>5, <1>6, NumberIdleIs, RequestKeeps
  <1>7. CASE request[r].tries + 1 # Attempts  BY <1>3, <1>4, <1>5, <1>7, RequestKeeps
  <1> QED  BY <1>6, <1>7

LEMMA IssueKeeps ==
  ASSUME MaxPlayers \in Nat, NumberInv, NEW r \in Reader, Number!Commit(r), Number!Issue(r),
         request' = [request EXCEPT ![r] = Number!Idle]
  PROVE  NumberInv'
  <1> DEFINE todo  == request[r].missing
             place == [p \in todo |-> Place(todo, p)]
             many  == Cardinality(todo)
  <1> USE DEF NumberInv
  <1>1. /\ todo \in SUBSET (1..registered) /\ registered \in Nat /\ registered <= MaxPlayers
        /\ counter \in Nat /\ roster \subseteq 1..registered /\ Number!Player = 1..MaxPlayers
        /\ numbers \in [1..MaxPlayers -> Nat]
    BY DEF NumberTypes, Number!Player
  <1>2. /\ many \in Nat /\ place \in [todo -> 1..many]
        /\ \A p, q \in todo : p < q => place[p] < place[q]
    BY <1>1, PlacesAre
  <1>3. \A p \in todo : Number!NumberOf(todo, p) = counter + place[p]
    BY SameNumber DEF Number!NumberOf, Place
  <1>4. /\ request[r].stage = "issuing" /\ todo \subseteq roster /\ UNCHANGED <<roster, registered>>
        /\ numbers' = [p \in 1..MaxPlayers |-> IF p \in todo THEN counter + place[p] ELSE numbers[p]]
        /\ counter' = counter + many
        /\ handed' = handed \cup {<<counter + place[p], p>> : p \in todo}
    <2>1. /\ numbers' = [p \in Number!Player |->
                           IF p \in todo THEN Number!NumberOf(todo, p) ELSE numbers[p]]
          /\ counter' = counter + Number!Cardinality(todo)
          /\ handed' = handed \cup {<<Number!NumberOf(todo, p), p>> : p \in todo}
          /\ request[r].stage = "issuing" /\ todo \subseteq roster /\ UNCHANGED <<roster, registered>>
      BY DEF Number!Issue, Number!Commit
    <2>2. {<<Number!NumberOf(todo, p), p>> : p \in todo} = {<<counter + place[p], p>> : p \in todo}
      BY <1>3
    <2>3. [p \in Number!Player |-> IF p \in todo THEN Number!NumberOf(todo, p) ELSE numbers[p]]
          = [p \in 1..MaxPlayers |-> IF p \in todo THEN counter + place[p] ELSE numbers[p]]
      BY <1>1, <1>3
    <2> QED  BY <2>1, <2>2, <2>3, SameNumber
  <1>5. /\ \A p \in todo : numbers[p] = 0
        /\ \A s \in Reader : s # r => request[s].stage # "issuing"
        /\ Before(todo)
    BY <1>4 DEF LockHeld, ListsAreWhole
  <1>6. /\ request'[r] = Number!Idle
        /\ \A s \in Reader : s # r => request'[s] = request[s]
    BY DEF NumberTypes
  <1> HIDE DEF place, many
  <1>7. /\ \A p \in todo : p \in 1..registered /\ p \in 1..MaxPlayers /\ p \in Nat
        /\ \A p \in todo : numbers'[p] = counter + place[p] /\ place[p] \in Nat
                           /\ 1 <= place[p] /\ place[p] <= many
        /\ \A p \in 1..MaxPlayers : p \notin todo => numbers'[p] = numbers[p]
    BY <1>1, <1>2, <1>4
  <1>8. NumberTypes'
    <2>1. numbers' \in [1..MaxPlayers -> Nat] /\ counter' \in Nat  BY <1>1, <1>2, <1>4, <1>7
    <2>2. request' \in [Reader -> [stage : {"idle", "listed", "issuing"}, tries : Nat,
                                   missing : SUBSET (1..registered)]]
      BY NumberIdleIs DEF NumberTypes
    <2> QED  BY <1>1, <1>4, <2>1, <2>2 DEF NumberTypes, Number!Player
  <1>9. \A h \in handed : /\ h[1] \in Nat /\ 1 <= h[1] /\ h[1] <= counter
                          /\ h[2] \in 1..registered /\ h[2] \notin todo
                          /\ h = <<h[1], h[2]>>
    <2> SUFFICES ASSUME NEW h \in handed
                 PROVE  /\ h[1] \in Nat /\ 1 <= h[1] /\ h[1] <= counter
                        /\ h[2] \in 1..registered /\ h[2] \notin todo
                        /\ h = <<h[1], h[2]>>
      OBVIOUS
    <2>1. h \in (1..counter) \X (1..registered)  BY DEF HandedStands
    <2>2. h[1] \in 1..counter /\ h[2] \in 1..registered /\ h = <<h[1], h[2]>>  BY <2>1
    <2>3. h[2] \in roster => numbers[h[2]] = h[1]  BY DEF HandedStands
    <2> QED  BY <1>1, <1>4, <1>5, <2>2, <2>3
  <1>10. \A p, q \in todo : (counter + place[p] = counter + place[q]) = (p = q)
    <2> SUFFICES ASSUME NEW p \in todo, NEW q \in todo, counter + place[p] = counter + place[q]
                 PROVE  p = q
      OBVIOUS
    <2>1. p \in Nat /\ q \in Nat /\ place[p] \in Nat /\ place[q] \in Nat /\ counter \in Nat
      BY <1>1, <1>7
    <2>2. place[p] = place[q]  BY <2>1
    <2>3. ~(p < q) /\ ~(q < p)  BY <1>2, <2>1, <2>2
    <2> QED  BY <2>1, <2>3
  <1>11. HandedStands'
    <2>1. handed' \subseteq (1..counter') \X (1..registered')
      <3> SUFFICES ASSUME NEW h \in handed' PROVE h \in (1..counter') \X (1..registered')  OBVIOUS
      <3>1. CASE h \in handed  BY <1>1, <1>2, <1>4, <1>9, <3>1
      <3>2. CASE h \in {<<counter + place[p], p>> : p \in todo}
        <4>1. PICK p \in todo : h = <<counter + place[p], p>>  BY <3>2
        <4>2. counter + place[p] \in 1..(counter + many)  BY <1>1, <1>2, <1>7
        <4> QED  BY <1>4, <1>7, <4>1, <4>2
      <3> QED  BY <1>4, <3>1, <3>2
    <2>2. \A h \in handed' : h[2] \in roster' => numbers'[h[2]] = h[1]
      <3> SUFFICES ASSUME NEW h \in handed', h[2] \in roster' PROVE numbers'[h[2]] = h[1]  OBVIOUS
      <3>1. CASE h \in handed
        <4>1. numbers[h[2]] = h[1]  BY <1>4, <3>1 DEF HandedStands
        <4>2. h[2] \in 1..MaxPlayers  BY <1>1, <1>9, <3>1
        <4> QED  BY <1>7, <1>9, <3>1, <4>1, <4>2
      <3>2. CASE h \in {<<counter + place[p], p>> : p \in todo}  BY <1>7, <3>2
      <3> QED  BY <1>4, <3>1, <3>2
    <2>3. \A a, b \in handed' : (a[1] = b[1]) = (a[2] = b[2])
      <3> SUFFICES ASSUME NEW a \in handed', NEW b \in handed' PROVE (a[1] = b[1]) = (a[2] = b[2])
        OBVIOUS
      <3> DEFINE new == {<<counter + place[p], p>> : p \in todo}
      <3>1. CASE a \in handed /\ b \in handed  BY <3>1 DEF HandedStands
      <3>2. \A x \in handed, y \in new : x[1] # y[1] /\ x[2] # y[2]
        <4> SUFFICES ASSUME NEW x \in handed, NEW p \in todo
                     PROVE  x[1] # counter + place[p] /\ x[2] # p
          OBVIOUS
        <4> QED  BY <1>1, <1>7, <1>9
      <3>3. CASE a \in new /\ b \in new
        <4>1. PICK p \in todo : a = <<counter + place[p], p>>  BY <3>3
        <4>2. PICK q \in todo : b = <<counter + place[q], q>>  BY <3>3
        <4> QED  BY <1>10, <4>1, <4>2
      <3>4. (a \in handed \/ a \in new) /\ (b \in handed \/ b \in new)  BY <1>4
      <3>5. CASE a \in handed /\ b \in new  BY <3>2, <3>5
      <3>6. CASE a \in new /\ b \in handed
        <4>1. b[1] # a[1] /\ b[2] # a[2]  BY <3>2, <3>6
        <4> QED  BY <4>1
      <3> QED  BY <3>1, <3>3, <3>4, <3>5, <3>6
    <2> QED  BY <2>1, <2>2, <2>3 DEF HandedStands
  <1>12. NumbersStand'
    <2> SUFFICES ASSUME NEW p \in 1..MaxPlayers, numbers'[p] # 0
                 PROVE  p \in roster' /\ <<numbers'[p], p>> \in handed'
      BY <1>1 DEF NumbersStand, Number!Player
    <2>1. CASE p \in todo  BY <1>4, <1>7, <2>1
    <2>2. CASE p \notin todo  BY <1>1, <1>4, <1>7, <2>2 DEF NumbersStand
    <2> QED  BY <2>1, <2>2
  <1>13. \A p \in 1..MaxPlayers : numbers[p] # 0 => numbers'[p] # 0
    BY <1>5, <1>7
  <1>14. ListsAreWhole'
    <2> SUFFICES ASSUME NEW s \in Reader PROVE Before(request[s].missing)'
      BY DEF ListsAreWhole
    <2>1. Before(request[s].missing)  BY DEF ListsAreWhole
    <2>2. CASE s = r  BY <1>6, <2>2, NumberIdleIs DEF Before
    <2>3. CASE s # r
      <3>1. \A p \in roster : p \in 1..MaxPlayers  BY <1>1
      <3> QED  BY <1>4, <1>6, <1>13, <2>1, <2>3, <3>1 DEF Before
    <2> QED  BY <2>2, <2>3
  <1>15. LockHeld'
    <2>1. \A s \in Reader : request'[s].stage # "issuing"  BY <1>5, <1>6, NumberIdleIs
    <2> QED  BY <2>1 DEF LockHeld
  <1>16. Number!NumbersFollowArrival'
    <2> SUFFICES ASSUME NEW p \in 1..MaxPlayers, NEW q \in 1..MaxPlayers, p < q, p \in roster',
                        numbers'[q] # 0
                 PROVE  numbers'[p] # 0 /\ numbers'[p] < numbers'[q]
      BY <1>1 DEF Number!NumbersFollowArrival, Number!Player
    <2>1. p \in roster  BY <1>4
    <2>2. \A x \in 1..MaxPlayers : numbers[x] \in Nat /\ numbers[x] <= counter
      <3> SUFFICES ASSUME NEW x \in 1..MaxPlayers, numbers[x] # 0 PROVE numbers[x] <= counter
        BY <1>1
      <3>1. <<numbers[x], x>> \in handed  BY <1>1 DEF NumbersStand
      <3> QED  BY <1>9, <3>1
    <2>3. CASE p \in todo /\ q \in todo
      <3>1. place[p] < place[q]  BY <1>2, <2>3
      <3>2. /\ place[p] \in Nat /\ place[q] \in Nat /\ counter \in Nat /\ 1 <= place[p]
            /\ numbers'[p] = counter + place[p] /\ numbers'[q] = counter + place[q]
        BY <1>1, <1>7, <2>3
      <3> QED  BY <3>1, <3>2
    <2>4. CASE p \notin todo /\ q \in todo
      <3>1. numbers[p] # 0  BY <1>5, <2>1, <2>4 DEF Before
      <3>2. /\ place[q] \in Nat /\ counter \in Nat /\ 1 <= place[q] /\ numbers[p] \in Nat
            /\ numbers'[p] = numbers[p] /\ numbers'[q] = counter + place[q] /\ numbers[p] <= counter
        BY <1>1, <1>7, <2>2, <2>4
      <3> QED  BY <3>1, <3>2
    <2>5. CASE q \notin todo
      <3>1. numbers[q] # 0  BY <1>7, <2>5
      <3>2. numbers[p] # 0 /\ numbers[p] < numbers[q]
        BY <1>1, <2>1, <3>1 DEF Number!NumbersFollowArrival
      <3> QED  BY <1>5, <1>7, <2>5, <3>2
    <2> QED  BY <2>3, <2>4, <2>5
  <1> QED  BY <1>8, <1>11, <1>12, <1>14, <1>15, <1>16

LEMMA NumberNext ==
  ASSUME MaxPlayers \in Nat, NumberInv, [Number!Next]_(Number!vars) PROVE NumberInv'
  <1> USE DEF NumberInv
  <1>1. CASE Number!Register
    <2>1. /\ registered' = registered + 1 /\ roster' = roster \cup {registered + 1}
          /\ registered' \in 1..MaxPlayers
          /\ UNCHANGED <<numbers, counter, request, handed>>
      BY <1>1 DEF Number!Register, NumberTypes
    <2>2. 1..registered \subseteq 1..registered' /\ registered \in Nat
          /\ registered + 1 \notin 1..registered
      BY <2>1 DEF NumberTypes
    <2>3. NumberTypes'
      <3>1. roster' \subseteq 1..registered'  BY <2>1, <2>2 DEF NumberTypes
      <3>2. request' \in [Reader -> [stage : {"idle", "listed", "issuing"}, tries : Nat,
                                     missing : SUBSET (1..registered')]]
        BY <2>1, <2>2 DEF NumberTypes
      <3> QED  BY <2>1, <3>1, <3>2 DEF NumberTypes, Number!Player
    <2>4. HandedStands'  BY <2>1, <2>2 DEF HandedStands
    <2>5. NumbersStand'  BY <2>1 DEF NumbersStand, Number!Player
    <2>6. ListsAreWhole'
      <3> SUFFICES ASSUME NEW s \in Reader PROVE Before(request[s].missing)'
        BY DEF ListsAreWhole
      <3>1. Before(request[s].missing) /\ request[s].missing \subseteq 1..registered
        BY DEF ListsAreWhole, NumberTypes
      <3>2. \A q \in request[s].missing : ~(registered + 1 < q)  BY <2>2, <3>1
      <3> QED  BY <2>1, <3>1, <3>2 DEF Before
    <2>7. LockHeld'  BY <2>1 DEF LockHeld
    <2>8. Number!NumbersFollowArrival'
      <3>1. \A q \in Number!Player : numbers[q] # 0 => ~(registered + 1 < q)
        <4> SUFFICES ASSUME NEW q \in Number!Player, numbers[q] # 0 PROVE ~(registered + 1 < q)
          OBVIOUS
        <4>1. q \in 1..registered  BY DEF NumbersStand, NumberTypes
        <4> QED  BY <2>2, <4>1
      <3> QED  BY <2>1, <3>1 DEF Number!NumbersFollowArrival, Number!Player
    <2> QED  BY <2>3, <2>4, <2>5, <2>6, <2>7, <2>8
  <1>2. ASSUME NEW p \in Number!Player, Number!Delete(p) PROVE NumberInv'
    <2>1. /\ roster' = roster \ {p} /\ numbers' = [numbers EXCEPT ![p] = 0]
          /\ UNCHANGED <<registered, counter, request, handed>>
      BY <1>2 DEF Number!Delete
    <2>2. /\ numbers'[p] = 0 /\ \A q \in Number!Player : q # p => numbers'[q] = numbers[q]
      BY <2>1 DEF NumberTypes
    <2>3. NumberTypes'  BY <2>1 DEF NumberTypes, Number!Player
    <2>4. HandedStands'
      <3>1. \A h \in handed : h[2] \in roster' => h[2] # p /\ h[2] \in Number!Player /\ h[2] \in roster
        <4> SUFFICES ASSUME NEW h \in handed, h[2] \in roster \ {p}
                     PROVE  h[2] # p /\ h[2] \in Number!Player /\ h[2] \in roster
          BY <2>1
        <4>1. /\ h[2] \in roster /\ roster \subseteq 1..registered
              /\ registered <= MaxPlayers /\ registered \in Nat
          BY DEF NumberTypes
        <4>2. 1..registered \subseteq Number!Player  BY <4>1 DEF Number!Player
        <4>3. h[2] # p /\ h[2] \in 1..registered  BY <4>1
        <4> QED  BY <4>1, <4>2, <4>3
      <3> QED  BY <2>1, <2>2, <3>1 DEF HandedStands
    <2>5. NumbersStand'  BY <2>1, <2>2 DEF NumbersStand, Number!Player
    <2>6. ListsAreWhole'
      <3>1. \A q \in roster' : q \in roster /\ numbers'[q] = numbers[q]
        BY <2>1, <2>2 DEF NumberTypes, Number!Player
      <3> QED  BY <2>1, <3>1 DEF ListsAreWhole, Before
    <2>7. LockHeld'
      <3>1. \A r \in Reader : request[r].missing \subseteq Number!Player
        BY DEF NumberTypes, Number!Player
      <3> QED  BY <2>1, <2>2, <3>1 DEF LockHeld
    <2>8. Number!NumbersFollowArrival'
      BY <2>1, <2>2 DEF Number!NumbersFollowArrival, Number!Player
    <2> QED  BY <2>3, <2>4, <2>5, <2>6, <2>7, <2>8
  <1>3. ASSUME NEW r \in Reader, Number!Show(r) PROVE NumberInv'
    <2>1. CASE Number!List(r)  BY <2>1, ListKeeps
    <2>2. CASE Number!Take(r)  BY <2>2, TakeKeeps
    <2>3. CASE Number!Commit(r)
      <3>1. CASE Number!Issue(r) /\ request' = [request EXCEPT ![r] = Number!Idle]
        BY <2>3, <3>1, IssueKeeps
      <3>2. CASE /\ Number!Conflict(r)
                 /\ request' = [request EXCEPT ![r] =
                      IF request[r].tries + 1 = Attempts THEN Number!Idle
                      ELSE [Number!Idle EXCEPT !.tries = request[r].tries + 1]]
        BY <2>3, <3>2, ConflictKeeps
      <3> QED  BY <2>3, <3>1, <3>2 DEF Number!Commit
    <2> QED  BY <1>3, <2>1, <2>2, <2>3 DEF Number!Show
  <1>4. CASE UNCHANGED Number!vars
    <2>1. UNCHANGED <<roster, registered, numbers, counter, request, handed>>
      BY <1>4 DEF Number!vars
    <2>2. NumberTypes' /\ HandedStands' /\ NumbersStand' /\ LockHeld'
      BY <2>1 DEF NumberTypes, HandedStands, NumbersStand, LockHeld, Number!Player
    <2>3. ListsAreWhole' /\ Number!NumbersFollowArrival'
      BY <2>1 DEF ListsAreWhole, Before, Number!NumbersFollowArrival, Number!Player
    <2> QED  BY <2>2, <2>3
  <1> QED  BY <1>1, <1>2, <1>3, <1>4 DEF Number!Next

LEMMA NumberInvariant ==
  ASSUME MaxPlayers \in Nat PROVE Number!Spec => []NumberInv
  <1>1. Number!Init => NumberInv  BY NumberInit
  <1>2. NumberInv /\ [Number!Next]_(Number!vars) => NumberInv'  BY NumberNext
  <1> QED  BY <1>1, <1>2, PTL DEF Number!Spec

(* ensure_player_numbers: a number is one player's for ever, also when the *)
(* player is gone, whichever requests raced for it - for any number of     *)
(* players and of requests.                                                *)
THEOREM NumbersAreOnes ==
  ASSUME MaxPlayers \in Nat PROVE Number!Spec => []Number!NumbersArePermanent
  <1>1. NumberInv => Number!NumbersArePermanent
    BY DEF NumberInv, HandedStands, NumbersStand, Number!NumbersArePermanent
  <1> QED  BY <1>1, NumberInvariant, PTL

(* And whoever came before has the lower number, although a request gives  *)
(* the numbers of a list it has read before it had the lock.               *)
THEOREM NumbersInOrder ==
  ASSUME MaxPlayers \in Nat PROVE Number!Spec => []Number!NumbersFollowArrival
  <1>1. NumberInv => Number!NumbersFollowArrival  BY DEF NumberInv
  <1> QED  BY <1>1, NumberInvariant, PTL

-----------------------------------------------------------------------------
(***************************************************************************)
(* The map in the running world.  The turns of the journal's rows do not   *)
(* fall, so the last row of a province is the one that tells its owner;    *)
(* and what a boot has read of the provinces stands unless another         *)
(* instance has come up since.                                             *)
(***************************************************************************)
Province == UNION {DOMAIN r.nodes : r \in Release}
Owners   == Nation \cup {Map!Free}
Row      == [province : Province, owner : Owners, turn : Nat]
Surface  == {"LAND", "SEA"}
Standing ==
  [pc : {"down", "read", "inserted", "listed", "checked", "up"}, map : Release \cup {Map!None},
   rows : UNION {[D -> Surface] : D \in SUBSET Province}, late : BOOLEAN,
   history : SUBSET Province, gone : SUBSET Province]

MapTypes ==
  /\ DOMAIN prov \subseteq Province /\ IsFiniteSet(DOMAIN prov)
  /\ \A q \in DOMAIN prov : prov[q] \in [kind : Surface, owner : Owners]
  /\ turn \in Nat /\ 1 <= turn /\ journal \in Seq(Row)
  /\ inst \in [Instance -> Standing]

(* The last row of a province tells its owner; a province without a row is *)
(* free.                                                                   *)
Last(log, q, k) ==
  /\ k \in 1..Len(log) /\ log[k].province = q
  /\ \A j \in 1..Len(log) : log[j].province = q => j <= k
Unwritten(log, q) == \A j \in 1..Len(log) : log[j].province # q

OwnersAreLast ==
  \A q \in DOMAIN prov :
    \/ Unwritten(journal, q) /\ prov[q].owner = Map!Free
    \/ \E k \in 1..Len(journal) : Last(journal, q, k) /\ journal[k].owner = prov[q].owner
RowsHaveProvinces == \A k \in 1..Len(journal) : journal[k].province \in DOMAIN prov
TurnsRise ==
  /\ \A j, k \in 1..Len(journal) : j <= k => journal[j].turn <= journal[k].turn
  /\ \A k \in 1..Len(journal) : journal[k].turn <= turn
ChangeStands ==
  change = Map!None \/
  /\ change \in Row /\ change.province \in DOMAIN prov /\ change.turn <= turn
  /\ \A k \in 1..Len(journal) : journal[k].turn <= change.turn

Reading(s) == s.pc \in {"read", "inserted", "listed", "checked"}
BootStands(s) ==
  /\ s.pc # "down" => s.map \in Release
  /\ Reading(s) /\ ~s.late => s.rows = Map!Kinds
  /\ s.pc = "checked" /\ ~s.late => s.gone = Map!Retired(s.map) \cap DOMAIN prov
  /\ s.pc = "checked" => s.gone \subseteq Map!Retired(s.map)
  /\ s.pc = "up" /\ ~s.late => s.map.nodes = Map!Kinds
BootsStand == \A i \in Instance : BootStands(inst[i])

ClientStands ==
  client = Map!None \/
  \E r \in Release : client = [tag |-> Map!Tag(r), body |-> Map!Body(r)]

MapInv ==
  /\ MapTypes /\ OwnersAreLast /\ RowsHaveProvinces /\ TurnsRise /\ ChangeStands
  /\ BootsStand /\ ClientStands

LEMMA DownIs ==
  /\ Map!Down \in Standing /\ Map!Down.pc = "down" /\ Map!Down.late = FALSE
  /\ BootStands(Map!Down)
  <1>1. <<>> \in [{} -> Surface]  OBVIOUS
  <1>2. <<>> \in UNION {[D -> Surface] : D \in SUBSET Province}
    <2>1. {} \in SUBSET Province  OBVIOUS
    <2> QED  BY <1>1, <2>1
  <1> QED  BY <1>2 DEF Map!Down, Standing, BootStands, Reading

LEMMA MapInit == Map!Init => MapInv
  <1> SUFFICES ASSUME Map!Init PROVE MapInv  OBVIOUS
  <1>1. /\ DOMAIN prov = {} /\ journal = <<>> /\ Len(journal) = 0 /\ turn = 1
        /\ change = Map!None /\ client = Map!None /\ inst = [i \in Instance |-> Map!Down]
    BY DEF Map!Init
  <1>2. IsFiniteSet({}) /\ 1..0 = {}  BY FS_EmptySet
  <1>3. MapTypes
    <2>1. journal \in Seq(Row)  BY <1>1
    <2> QED  BY <1>1, <1>2, <2>1, DownIs DEF MapTypes
  <1>4. OwnersAreLast /\ RowsHaveProvinces /\ TurnsRise
    BY <1>1, <1>2 DEF OwnersAreLast, RowsHaveProvinces, TurnsRise
  <1>5. BootsStand  BY <1>1, DownIs DEF BootsStand
  <1> QED  BY <1>1, <1>3, <1>4, <1>5 DEF MapInv, ChangeStands, ClientStands

(* A boot moves on, and nothing else happens.                              *)
LEMMA BootMoves ==
  ASSUME MapInv, NEW i \in Instance, NEW s \in Standing, BootStands(s),
         inst' = [inst EXCEPT ![i] = s], UNCHANGED <<prov, journal, turn, change, client>>
  PROVE  MapInv'
  <1> USE DEF MapInv
  <1>1. inst'[i] = s /\ \A j \in Instance : j # i => inst'[j] = inst[j]  BY DEF MapTypes
  <1>2. MapTypes'  BY DEF MapTypes
  <1>3. OwnersAreLast' /\ RowsHaveProvinces' /\ TurnsRise' /\ ChangeStands' /\ ClientStands'
    BY DEF OwnersAreLast, RowsHaveProvinces, TurnsRise, ChangeStands, ClientStands, Last, Unwritten
  <1>4. BootsStand'
    <2> SUFFICES ASSUME NEW j \in Instance PROVE BootStands(inst[j])'  BY DEF BootsStand
    <2>1. BootStands(inst'[j])  BY <1>1 DEF BootsStand
    <2>2. Map!Kinds' = Map!Kinds  BY DEF Map!Kinds
    <2> QED  BY <2>1, <2>2 DEF BootStands
  <1> QED  BY <1>2, <1>3, <1>4

LEMMA ReadRowsKeeps ==
  ASSUME MapInv, NEW i \in Instance, NEW r \in Release, Map!ReadRows(i, r) PROVE MapInv'
  <1> DEFINE s == [Map!Down EXCEPT !.pc = "read", !.map = r, !.rows = Map!Kinds]
  <1>1. Map!Kinds \in UNION {[D -> Surface] : D \in SUBSET Province}
    <2>1. Map!Kinds \in [DOMAIN prov -> Surface]  BY DEF Map!Kinds, MapInv, MapTypes
    <2>2. DOMAIN prov \in SUBSET Province  BY DEF MapInv, MapTypes
    <2> QED  BY <2>1, <2>2
  <1>2. s \in Standing /\ s.pc = "read" /\ s.map = r /\ s.rows = Map!Kinds
    BY <1>1 DEF Map!Down, Standing
  <1>3. BootStands(s)  BY <1>2 DEF BootStands
  <1>4. inst' = [inst EXCEPT ![i] = s] /\ UNCHANGED <<prov, journal, turn, change, client>>
    BY DEF Map!ReadRows, Map!Stay
  <1> HIDE DEF s
  <1> QED  BY <1>2, <1>3, <1>4, BootMoves

LEMMA DownKeeps ==
  ASSUME MapInv, NEW i \in Instance, inst' = [inst EXCEPT ![i] = Map!Down],
         UNCHANGED <<prov, journal, turn, change, client>>
  PROVE  MapInv'
  BY DownIs, BootMoves

LEMMA InsertKeepsMap ==
  ASSUME MapInv, NEW i \in Instance, Map!InsertMissing(i) PROVE MapInv'
  <1> DEFINE s == [inst[i] EXCEPT !.pc = "inserted"]
  <1>1. inst[i] \in Standing /\ inst[i].pc = "read" /\ BootStands(inst[i])
    BY DEF Map!InsertMissing, Map!Booting, MapInv, MapTypes, BootsStand
  <1>2. /\ s \in Standing /\ s.pc = "inserted" /\ s.map = inst[i].map
        /\ s.rows = inst[i].rows /\ s.late = inst[i].late
    BY <1>1 DEF Standing
  <1>3. BootStands(s)  BY <1>1, <1>2 DEF BootStands, Reading
  <1>4. /\ inst' = [inst EXCEPT ![i] = IF Map!Added(i) \cap DOMAIN prov # {} THEN Map!Down ELSE s]
        /\ UNCHANGED <<prov, journal, turn, change, client>>
    BY DEF Map!InsertMissing, Map!Stay
  <1> HIDE DEF s
  <1>5. CASE Map!Added(i) \cap DOMAIN prov # {}  BY <1>4, <1>5, DownKeeps
  <1>6. CASE Map!Added(i) \cap DOMAIN prov = {}  BY <1>2, <1>3, <1>4, <1>6, BootMoves
  <1> QED  BY <1>5, <1>6

LEMMA HistoryKeeps ==
  ASSUME MapInv, NEW i \in Instance, Map!ReadHistory(i) PROVE MapInv'
  <1> DEFINE told == Map!Journalled(Map!Retired(inst[i].map))
             s == [inst[i] EXCEPT !.pc = "listed", !.history = told]
  <1>1. inst[i] \in Standing /\ inst[i].pc = "inserted" /\ BootStands(inst[i])
    BY DEF Map!ReadHistory, Map!Booting, MapInv, MapTypes, BootsStand
  <1>2. told \in SUBSET Province
    BY DEF Map!Journalled, MapInv, MapTypes, RowsHaveProvinces
  <1>3. /\ s \in Standing /\ s.pc = "listed" /\ s.map = inst[i].map
        /\ s.rows = inst[i].rows /\ s.late = inst[i].late
    BY <1>1, <1>2 DEF Standing
  <1>4. BootStands(s)  BY <1>1, <1>3 DEF BootStands, Reading
  <1>5. inst' = [inst EXCEPT ![i] = s] /\ UNCHANGED <<prov, journal, turn, change, client>>
    BY DEF Map!ReadHistory, Map!Stay
  <1> HIDE DEF s
  <1> QED  BY <1>3, <1>4, <1>5, BootMoves

LEMMA OwnersKeeps ==
  ASSUME MapInv, NEW i \in Instance, Map!ReadOwners(i) PROVE MapInv'
  <1> DEFINE present == Map!Retired(inst[i].map) \cap DOMAIN prov
             s == [inst[i] EXCEPT !.pc = "checked", !.gone = present]
  <1>1. inst[i] \in Standing /\ inst[i].pc = "listed" /\ BootStands(inst[i])
    BY DEF Map!ReadOwners, Map!Booting, MapInv, MapTypes, BootsStand
  <1>2. present \in SUBSET Province  BY DEF MapInv, MapTypes
  <1>3. /\ s \in Standing /\ s.pc = "checked" /\ s.map = inst[i].map
        /\ s.rows = inst[i].rows /\ s.late = inst[i].late /\ s.gone = present
    BY <1>1, <1>2 DEF Standing
  <1>4. BootStands(s)  BY <1>1, <1>3 DEF BootStands, Reading
  <1>5. /\ inst' = [inst EXCEPT ![i] = Map!Down] \/ inst' = [inst EXCEPT ![i] = s]
        /\ UNCHANGED <<prov, journal, turn, change, client>>
    BY DEF Map!ReadOwners, Map!Stay
  <1> HIDE DEF s
  <1> QED  BY <1>3, <1>4, <1>5, BootMoves, DownKeeps

(* The deletion of what is retired: it is nobody's, it has no row, and no  *)
(* change is about it; what is added is as its map has it.                 *)
LEMMA DeletionIs ==
  ASSUME MapInv, NEW i \in Instance, Map!DeleteRetired(i), inst'[i].pc = "up"
  PROVE  /\ inst[i] \in Standing /\ inst[i].pc = "checked" /\ BootStands(inst[i])
         /\ prov' = Map!Remaining(i)
         /\ Map!Unknown(i) = {} /\ Map!Mismatched(inst[i].map, inst[i].rows) = {}
         /\ \A q \in inst[i].gone : Unwritten(journal, q)
         /\ change = Map!None \/ change.province \notin inst[i].gone
         /\ \A j \in Instance : inst'[j] =
              IF j = i THEN [Map!Down EXCEPT !.pc = "up", !.map = inst[i].map, !.late = inst[i].late]
              ELSE IF inst[j].pc # "down" THEN [inst[j] EXCEPT !.late = TRUE] ELSE inst[j]
         /\ UNCHANGED <<journal, turn, change, client>>
  <1>1. inst[i] \in Standing /\ inst[i].pc = "checked" /\ BootStands(inst[i])
    BY DEF Map!DeleteRetired, Map!Booting, MapInv, MapTypes, BootsStand
  <1>2. ~Map!Stay(i, Map!Down)
    BY DownIs DEF Map!Stay, MapInv, MapTypes
  <1>3. /\ Map!ForeignKeyHolds(inst[i].gone) /\ Map!Unknown(i) = {}
        /\ Map!Mismatched(inst[i].map, inst[i].rows) = {} /\ prov' = Map!Remaining(i)
        /\ inst' = [j \in Instance |->
              IF j = i THEN [Map!Down EXCEPT !.pc = "up", !.map = inst[i].map, !.late = inst[i].late]
              ELSE IF inst[j].pc # "down" THEN [inst[j] EXCEPT !.late = TRUE] ELSE inst[j]]
        /\ ~Map!Locked(inst[i].gone) /\ UNCHANGED <<journal, turn, change, client>>
    BY <1>2 DEF Map!DeleteRetired
  <1>4. \A q \in inst[i].gone : Unwritten(journal, q)
    BY <1>3 DEF Map!ForeignKeyHolds, Map!Journalled, Unwritten
  <1>5. change = Map!None \/ change.province \notin inst[i].gone  BY <1>3 DEF Map!Locked
  <1> QED  BY <1>1, <1>3, <1>4, <1>5

LEMMA RemainingIs ==
  ASSUME MapsAreFinite, MapInv, NEW i \in Instance, Map!DeleteRetired(i), inst'[i].pc = "up"
  PROVE  /\ DOMAIN prov' = (DOMAIN prov \ inst[i].gone) \cup Map!Added(i)
         /\ \A q \in DOMAIN prov' : q \in DOMAIN prov => prov'[q] = prov[q]
         /\ \A q \in DOMAIN prov' : q \notin DOMAIN prov =>
              /\ q \in DOMAIN inst[i].map.nodes /\ q \in Province
              /\ prov'[q] = [kind |-> inst[i].map.nodes[q], owner |-> Map!Free]
              /\ inst[i].map.nodes[q] \in Surface
              /\ Unwritten(journal, q)
         /\ IsFiniteSet(DOMAIN prov') /\ inst[i].map \in Release
  <1>1. prov' = Map!Remaining(i) /\ inst[i].map \in Release
    BY DeletionIs DEF BootStands
  <1>2. /\ DOMAIN prov' = (DOMAIN prov \ inst[i].gone) \cup Map!Added(i)
        /\ \A q \in DOMAIN prov' : prov'[q] =
             IF q \in DOMAIN prov THEN prov[q]
             ELSE [kind |-> inst[i].map.nodes[q], owner |-> Map!Free]
    BY <1>1 DEF Map!Remaining
  <1>3. Map!Added(i) \subseteq DOMAIN inst[i].map.nodes  BY DEF Map!Added
  <1>4. ASSUME NEW q \in DOMAIN inst[i].map.nodes
        PROVE  q \in Province /\ inst[i].map.nodes[q] \in Surface
    BY <1>1 DEF MapsAreFinite, Surface, Province
  <1>5. \A q : q \notin DOMAIN prov => Unwritten(journal, q)
    BY DEF MapInv, RowsHaveProvinces, Unwritten
  <1>6. IsFiniteSet(DOMAIN prov')
    <2>1. IsFiniteSet(DOMAIN prov) /\ IsFiniteSet(DOMAIN inst[i].map.nodes)
      BY <1>1 DEF MapInv, MapTypes, MapsAreFinite, Surface
    <2>2. IsFiniteSet(DOMAIN prov \cup DOMAIN inst[i].map.nodes)  BY <2>1, FS_Union
    <2>3. DOMAIN prov' \subseteq DOMAIN prov \cup DOMAIN inst[i].map.nodes  BY <1>2, <1>3
    <2> QED  BY <2>2, <2>3, FS_Subset
  <1> QED  BY <1>1, <1>2, <1>3, <1>4, <1>5, <1>6

(* Who comes up without having been overtaken has the provinces of its map *)
LEMMA ComesUpTrue ==
  ASSUME MapsAreFinite, MapInv, NEW i \in Instance, Map!DeleteRetired(i), inst'[i].pc = "up",
         ~inst[i].late
  PROVE  inst[i].map.nodes = Map!Kinds'
  <1> DEFINE nodes == inst[i].map.nodes
             gone  == inst[i].gone
  <1>1. /\ inst[i].rows = Map!Kinds /\ gone = Map!Retired(inst[i].map) \cap DOMAIN prov
        /\ Map!Unknown(i) = {} /\ Map!Mismatched(inst[i].map, inst[i].rows) = {}
    BY DeletionIs DEF BootStands, Reading
  <1>2. DOMAIN inst[i].rows = DOMAIN prov /\ \A q \in DOMAIN prov : inst[i].rows[q] = prov[q].kind
    BY <1>1 DEF Map!Kinds
  <1>3. gone \cap DOMAIN nodes = {} /\ DOMAIN prov \ DOMAIN nodes \subseteq gone
    BY <1>1, <1>2 DEF Map!Retired, Map!Unknown
  <1>4. \A q \in DOMAIN prov \cap DOMAIN nodes : prov[q].kind = nodes[q]
    BY <1>1, <1>2 DEF Map!Mismatched
  <1>5. DOMAIN prov' = DOMAIN nodes
    BY <1>2, <1>3, RemainingIs DEF Map!Added
  <1>6. ASSUME NEW q \in DOMAIN prov' PROVE prov'[q].kind = nodes[q]
    <2>1. CASE q \in DOMAIN prov
      <3>1. prov'[q] = prov[q]  BY <2>1, RemainingIs
      <3> QED  BY <1>4, <1>5, <2>1, <3>1
    <2>2. CASE q \notin DOMAIN prov
      <3>1. prov'[q] = [kind |-> nodes[q], owner |-> Map!Free]  BY <2>2, RemainingIs
      <3> QED  BY <3>1
    <2> QED  BY <2>1, <2>2
  <1>7. nodes \in [DOMAIN nodes -> Surface]  BY RemainingIs DEF MapsAreFinite, Surface
  <1>8. Map!Kinds' = [q \in DOMAIN prov' |-> prov'[q].kind]  BY DEF Map!Kinds
  <1> QED  BY <1>5, <1>6, <1>7, <1>8

LEMMA DeletionKeeps ==
  ASSUME MapsAreFinite, MapInv, NEW i \in Instance, Map!DeleteRetired(i) PROVE MapInv'
  <1> USE DEF MapInv
  <1>1. CASE inst'[i].pc # "up"
    <2>1. [Map!Down EXCEPT !.pc = "up", !.map = inst[i].map, !.late = inst[i].late].pc = "up"
      BY DEF Map!Down
    <2>2. /\ inst' = [inst EXCEPT ![i] = Map!Down]
          /\ UNCHANGED <<prov, journal, turn, change, client>>
      BY <1>1, <2>1 DEF Map!DeleteRetired, Map!Stay
    <2> QED  BY <2>2, DownKeeps
  <1>2. CASE inst'[i].pc = "up"
    <2>1. /\ inst[i] \in Standing /\ inst[i].pc = "checked" /\ BootStands(inst[i])
          /\ \A q \in inst[i].gone : Unwritten(journal, q)
          /\ change = Map!None \/ change.province \notin inst[i].gone
          /\ \A j \in Instance : inst'[j] =
              IF j = i THEN [Map!Down EXCEPT !.pc = "up", !.map = inst[i].map, !.late = inst[i].late]
              ELSE IF inst[j].pc # "down" THEN [inst[j] EXCEPT !.late = TRUE] ELSE inst[j]
          /\ UNCHANGED <<journal, turn, change, client>>
      BY <1>2, DeletionIs
    <2>2. /\ DOMAIN prov' = (DOMAIN prov \ inst[i].gone) \cup Map!Added(i)
          /\ \A q \in DOMAIN prov' : q \in DOMAIN prov => prov'[q] = prov[q]
          /\ \A q \in DOMAIN prov' : q \notin DOMAIN prov =>
               /\ q \in Province /\ inst[i].map.nodes[q] \in Surface /\ Unwritten(journal, q)
               /\ prov'[q] = [kind |-> inst[i].map.nodes[q], owner |-> Map!Free]
          /\ IsFiniteSet(DOMAIN prov') /\ inst[i].map \in Release
      BY <1>2, RemainingIs
    <2>3. inst' \in [Instance -> Standing]
      <3>1. \A j \in Instance : inst'[j] \in Standing
        <4> SUFFICES ASSUME NEW j \in Instance PROVE inst'[j] \in Standing  OBVIOUS
        <4>1. inst[j] \in Standing  BY DEF MapTypes
        <4>2. CASE j = i
          <5>1. inst'[i] = [Map!Down EXCEPT !.pc = "up", !.map = inst[i].map, !.late = inst[i].late]
            BY <2>1
          <5>2. Map!Down \in Standing /\ inst[i].late \in BOOLEAN  BY <2>1, DownIs DEF Standing
          <5> QED  BY <2>2, <4>2, <5>1, <5>2 DEF Standing
        <4>3. CASE j # i  BY <2>1, <4>1, <4>3 DEF Standing
        <4> QED  BY <4>2, <4>3
      <3>2. DOMAIN inst' = Instance /\ inst' = [j \in Instance |-> inst'[j]]
        BY <1>2, DownIs DEF Map!DeleteRetired, Map!Stay, MapTypes
      <3> QED  BY <3>1, <3>2
    <2>4. MapTypes'
      <3>1. ASSUME NEW q \in DOMAIN prov'
            PROVE  q \in Province /\ prov'[q] \in [kind : Surface, owner : Owners]
        <4>1. CASE q \in DOMAIN prov  BY <2>2, <4>1 DEF MapTypes
        <4>2. CASE q \notin DOMAIN prov
          <5>1. prov'[q] = [kind |-> inst[i].map.nodes[q], owner |-> Map!Free]
                /\ q \in Province /\ inst[i].map.nodes[q] \in Surface
            BY <2>2, <4>2
          <5> QED  BY <5>1 DEF Owners
        <4> QED  BY <4>1, <4>2
      <3> QED  BY <2>1, <2>2, <2>3, <3>1 DEF MapTypes
    <2>5. OwnersAreLast'
      <3> SUFFICES ASSUME NEW q \in DOMAIN prov'
                   PROVE  \/ Unwritten(journal, q) /\ prov'[q].owner = Map!Free
                          \/ \E k \in 1..Len(journal) : Last(journal, q, k) /\ journal[k].owner = prov'[q].owner
        BY <2>1 DEF OwnersAreLast, Unwritten, Last
      <3>1. CASE q \in DOMAIN prov  BY <2>2, <3>1 DEF OwnersAreLast
      <3>2. CASE q \notin DOMAIN prov
        <4>1. prov'[q] = [kind |-> inst[i].map.nodes[q], owner |-> Map!Free] /\ Unwritten(journal, q)
          BY <2>2, <3>2
        <4> QED  BY <4>1
      <3> QED  BY <3>1, <3>2
    <2>6. RowsHaveProvinces'
      <3> SUFFICES ASSUME NEW k \in 1..Len(journal) PROVE journal[k].province \in DOMAIN prov'
        BY <2>1 DEF RowsHaveProvinces
      <3>1. journal[k].province \in DOMAIN prov  BY DEF RowsHaveProvinces
      <3>2. journal[k].province \notin inst[i].gone  BY <2>1 DEF Unwritten
      <3> QED  BY <2>2, <3>1, <3>2
    <2>7. TurnsRise' /\ ClientStands'  BY <2>1 DEF TurnsRise, ClientStands
    <2>8. ChangeStands'  BY <2>1, <2>2 DEF ChangeStands
    <2>9. BootsStand'
      <3> SUFFICES ASSUME NEW j \in Instance PROVE BootStands(inst[j])'  BY DEF BootsStand
      <3>1. CASE j = i
        <4>1. /\ inst'[i].pc = "up" /\ inst'[i].map = inst[i].map /\ inst'[i].late = inst[i].late
          BY <2>1 DEF Map!Down
        <4>2. ~inst[i].late => inst[i].map.nodes = Map!Kinds'  BY <1>2, ComesUpTrue
        <4> QED  BY <2>2, <3>1, <4>1, <4>2 DEF BootStands, Reading
      <3>2. CASE j # i /\ inst[j].pc = "down"
        <4>1. inst'[j].pc = "down"  BY <2>1, <3>2
        <4> QED  BY <4>1 DEF BootStands, Reading
      <3>3. CASE j # i /\ inst[j].pc # "down"
        <4>1. inst[j] \in Standing /\ BootStands(inst[j])  BY DEF MapTypes, BootsStand
        <4>2. /\ inst'[j].pc = inst[j].pc /\ inst'[j].map = inst[j].map /\ inst'[j].late = TRUE
              /\ inst'[j].gone = inst[j].gone
          BY <2>1, <3>3, <4>1 DEF Standing
        <4> QED  BY <3>3, <4>1, <4>2 DEF BootStands, Reading, Map!Retired
      <3> QED  BY <3>1, <3>2, <3>3
    <2> QED  BY <2>4, <2>5, <2>6, <2>7, <2>8, <2>9
  <1> QED  BY <1>1, <1>2

(* Provinces change hands; no province comes or goes or changes its kind.  *)
LEMMA HandsChange ==
  ASSUME MapInv, UNCHANGED inst, DOMAIN prov' = DOMAIN prov,
         \A q \in DOMAIN prov : prov'[q].kind = prov[q].kind
  PROVE  BootsStand'
  <1>1. Map!Kinds' = Map!Kinds  BY DEF Map!Kinds
  <1>2. \A j \in Instance : BootStands(inst[j])  BY DEF MapInv, BootsStand
  <1> QED  BY <1>1, <1>2 DEF BootsStand, BootStands

LEMMA BeginKeeps ==
  ASSUME MapInv, NEW i \in Instance, NEW q \in DOMAIN prov, NEW n \in Owners, Map!Begin(i, q, n)
  PROVE  MapInv'
  <1> USE DEF MapInv
  <1>1. /\ change' = [province |-> q, owner |-> n, turn |-> turn]
        /\ UNCHANGED <<prov, journal, turn, inst, client, boots>>
    BY DEF Map!Begin, Map!TurnRead
  <1>2. ChangeStands'
    <2>1. change' \in Row  BY <1>1 DEF MapTypes, Row
    <2> QED  BY <1>1, <2>1 DEF ChangeStands, TurnsRise, MapTypes
  <1>3. BootsStand'  BY <1>1, HandsChange
  <1>4. MapTypes' /\ OwnersAreLast' /\ RowsHaveProvinces' /\ TurnsRise' /\ ClientStands'
    BY <1>1 DEF MapTypes, OwnersAreLast, RowsHaveProvinces, TurnsRise, ClientStands, Last, Unwritten
  <1> QED  BY <1>2, <1>3, <1>4

LEMMA MapCommitKeeps == ASSUME MapInv, Map!Commit PROVE MapInv'
  <1> USE DEF MapInv
  <1> DEFINE p == change.province
             o == change.owner
             len == Len(journal)
  <1>1. /\ change \in Row /\ p \in DOMAIN prov /\ change.turn <= turn /\ o \in Owners
        /\ \A k \in 1..len : journal[k].turn <= change.turn
        /\ change.turn \in Nat
    BY DEF Map!Commit, ChangeStands, Row
  <1>2. /\ prov' = [prov EXCEPT ![p].owner = o] /\ journal' = Append(journal, change)
        /\ change' = Map!None /\ UNCHANGED <<turn, inst, client, boots>>
    BY DEF Map!Commit
  <1>3. /\ journal' \in Seq(Row) /\ len \in Nat /\ Len(journal') = len + 1
        /\ \A k \in 1..len : journal'[k] = journal[k]
        /\ journal'[len + 1] = change
    BY <1>1, <1>2, AppendProperties DEF MapTypes
  <1>4. /\ DOMAIN prov' = DOMAIN prov
        /\ \A q \in DOMAIN prov : q # p => prov'[q] = prov[q]
        /\ prov'[p] \in [kind : Surface, owner : Owners]
        /\ prov'[p].owner = o /\ prov'[p].kind = prov[p].kind
    BY <1>1, <1>2 DEF MapTypes
  <1>5. MapTypes'  BY <1>2, <1>3, <1>4 DEF MapTypes
  <1> HIDE DEF p, o, len
  <1>6. 1..Len(journal') = (1..len) \cup {len + 1} /\ len + 1 \notin 1..len  BY <1>3
  <1>7. OwnersAreLast'
    <2> SUFFICES ASSUME NEW q \in DOMAIN prov
                 PROVE  \/ Unwritten(journal', q) /\ prov'[q].owner = Map!Free
                        \/ \E k \in 1..Len(journal') :
                             Last(journal', q, k) /\ journal'[k].owner = prov'[q].owner
      BY <1>4 DEF OwnersAreLast
    <2>1. CASE q = p
      <3>1. Last(journal', q, len + 1)
        <4>1. \A j \in 1..Len(journal') : j <= len + 1  BY <1>3
        <4> QED  BY <1>3, <1>6, <2>1, <4>1 DEF Last, p
      <3>2. journal'[len + 1].owner = prov'[q].owner  BY <1>3, <1>4, <2>1 DEF o
      <3> QED  BY <1>6, <3>1, <3>2
    <2>2. CASE q # p
      <3>1. \A k \in 1..len : Last(journal, q, k) => Last(journal', q, k)
        BY <1>3, <1>6, <2>2 DEF Last, p, len
      <3>2. Unwritten(journal, q) => Unwritten(journal', q)
        BY <1>3, <1>6, <2>2 DEF Unwritten, p, len
      <3>3. \/ Unwritten(journal, q) /\ prov[q].owner = Map!Free
            \/ \E k \in 1..len : Last(journal, q, k) /\ journal[k].owner = prov[q].owner
        BY DEF OwnersAreLast, len
      <3> QED  BY <1>3, <1>4, <1>6, <2>2, <3>1, <3>2, <3>3
    <2> QED  BY <2>1, <2>2
  <1>8. RowsHaveProvinces'
    BY <1>1, <1>3, <1>4, <1>6 DEF RowsHaveProvinces, p, len
  <1>9. TurnsRise'
    <2>1. \A k \in 1..Len(journal') : journal'[k].turn \in Nat /\ journal'[k].turn <= change.turn
      <3> SUFFICES ASSUME NEW k \in 1..Len(journal')
                   PROVE  journal'[k].turn \in Nat /\ journal'[k].turn <= change.turn
        OBVIOUS
      <3>1. CASE k = len + 1  BY <1>1, <1>3, <3>1
      <3>2. CASE k \in 1..len
        <4>1. journal[k] \in Row  BY <3>2 DEF MapTypes, len
        <4> QED  BY <1>1, <1>3, <3>2, <4>1 DEF Row
      <3> QED  BY <1>6, <3>1, <3>2
    <2>2. \A k \in 1..Len(journal') : journal'[k].turn <= turn'
      BY <1>1, <1>2, <2>1 DEF MapTypes
    <2>3. ASSUME NEW j \in 1..Len(journal'), NEW k \in 1..Len(journal'), j <= k
          PROVE  journal'[j].turn <= journal'[k].turn
      <3>1. CASE k = len + 1  BY <1>3, <2>1, <3>1
      <3>2. CASE k \in 1..len
        <4>1. j \in 1..len  BY <1>3, <2>3, <3>2
        <4> QED  BY <1>3, <2>3, <3>2, <4>1 DEF TurnsRise, len
      <3> QED  BY <1>6, <3>1, <3>2
    <2> QED  BY <2>2, <2>3 DEF TurnsRise
  <1>10. ChangeStands' /\ ClientStands'  BY <1>2 DEF ChangeStands, ClientStands
  <1>11. BootsStand'  BY <1>2, <1>4, HandsChange
  <1> QED  BY <1>5, <1>7, <1>8, <1>9, <1>10, <1>11

(* A nation is founded: each of its provinces gets one row, at the end.    *)
RowsOf(list, m, Q, n) ==
  /\ Map!Ascends(list) /\ Q = {list[k] : k \in 1..m}
  /\ journal' \in Seq(Row) /\ Len(journal') = Len(journal) + m
  /\ \A k \in 1..Len(journal) : journal'[k] = journal[k]
  /\ \A k \in 1..m :
       /\ journal'[Len(journal) + k].province = list[k] /\ list[k] \in Q
       /\ journal'[Len(journal) + k].owner = n /\ journal'[Len(journal) + k].turn = turn

LEMMA FoundRows ==
  ASSUME MapsAreFinite, MapInv, NEW i \in Instance, NEW Q \in SUBSET DOMAIN prov, NEW n \in Nation,
         Map!FoundOn(i, Q, n)
  PROVE  \E m \in Nat : \E list \in [1..m -> Q] : RowsOf(list, m, Q, n)
  <1> USE DEF MapInv
  <1> DEFINE m == Cardinality(Q)
             len == Len(journal)
  <1>0. m \in Nat /\ len \in Nat /\ Map!Cardinality(Q) = m
    <2>1. IsFiniteSet(Q)  BY FS_Subset DEF MapTypes
    <2>2. Map!Cardinality(Q) = Cardinality(Q)  BY DEF Map!Cardinality, Cardinality
    <2> QED  BY <2>1, <2>2, FS_CardinalityType DEF MapTypes
  <1>1. PICK list \in [1..m -> Q] :
          /\ Map!Ascends(list) /\ Q = {list[k] : k \in DOMAIN list}
          /\ journal' = journal \o [k \in DOMAIN list |->
               [province |-> list[k], owner |-> n, turn |-> turn]]
    BY <1>0 DEF Map!FoundOn, Map!TurnRead
  <1> DEFINE new == [k \in 1..m |-> [province |-> list[k], owner |-> n, turn |-> turn]]
  <1>3. new \in Seq(Row) /\ Len(new) = m /\ journal' = journal \o new
    <2>0. Q \subseteq Province /\ n \in Owners /\ turn \in Nat  BY DEF MapTypes, Owners
    <2>1. ASSUME NEW k \in 1..m PROVE [province |-> list[k], owner |-> n, turn |-> turn] \in Row
      <3>1. list[k] \in Province  BY <2>0
      <3> QED  BY <2>0, <3>1 DEF Row
    <2>2. new \in [1..m -> Row]  BY <2>1
    <2>3. DOMAIN list = 1..m  OBVIOUS
    <2>4. new \in Seq(Row) /\ Len(new) = m  BY <1>0, <2>2
    <2>5. journal' = journal \o new  BY <1>1, <2>3
    <2> QED  BY <2>4, <2>5
  <1>4. /\ journal' \in Seq(Row) /\ Len(journal') = len + m
        /\ \A k \in 1..len : journal'[k] = journal[k]
        /\ \A k \in 1..m : /\ journal'[len + k].province = list[k] /\ list[k] \in Q
                           /\ journal'[len + k].owner = n /\ journal'[len + k].turn = turn
    <2>1. /\ journal' \in Seq(Row) /\ Len(journal') = len + m
          /\ \A k \in 1..(len + m) : journal'[k] = IF k <= len THEN journal[k] ELSE new[k - len]
      <3>1. journal \in Seq(Row)  BY DEF MapTypes
      <3> HIDE DEF new
      <3> QED  BY <1>3, <3>1, ConcatProperties
    <2>2. ASSUME NEW k \in 1..len PROVE journal'[k] = journal[k]
      <3>1. k \in 1..(len + m) /\ k <= len  BY <1>0
      <3> QED  BY <2>1, <3>1
    <2>3. ASSUME NEW k \in 1..m PROVE journal'[len + k] = new[k]
      <3>1. len + k \in 1..(len + m) /\ ~(len + k <= len) /\ (len + k) - len = k  BY <1>0
      <3> QED  BY <2>1, <3>1
    <2>4. ASSUME NEW k \in 1..m
          PROVE  /\ journal'[len + k].province = list[k] /\ list[k] \in Q
                 /\ journal'[len + k].owner = n /\ journal'[len + k].turn = turn
      <3>1. new[k] = [province |-> list[k], owner |-> n, turn |-> turn] /\ list[k] \in Q  OBVIOUS
      <3>2. journal'[len + k] = new[k]  BY <2>3
      <3> QED  BY <3>1, <3>2
    <2> QED  BY <2>1, <2>2, <2>4
  <1>5. Q = {list[k] : k \in 1..m}  BY <1>1
  <1>6. RowsOf(list, m, Q, n)  BY <1>1, <1>4, <1>5 DEF RowsOf
  <1> HIDE DEF m
  <1> QED  BY <1>0, <1>6

LEMMA FoundKeeps ==
  ASSUME MapsAreFinite, MapInv, NEW i \in Instance, NEW Q \in SUBSET DOMAIN prov, NEW n \in Nation,
         Map!FoundOn(i, Q, n)
  PROVE  MapInv'
  <1>0. PICK m \in Nat : \E list \in [1..m -> Q] : RowsOf(list, m, Q, n)  BY FoundRows
  <1>1. PICK list \in [1..m -> Q] : RowsOf(list, m, Q, n)  BY <1>0
  <1> USE DEF MapInv
  <1> DEFINE len == Len(journal)
  <1>2. /\ prov' = [q \in DOMAIN prov |-> IF q \in Q THEN [prov[q] EXCEPT !.owner = n] ELSE prov[q]]
        /\ change = Map!None /\ UNCHANGED <<turn, change, inst, client, boots>>
    BY DEF Map!FoundOn
  <1>3. /\ Map!Ascends(list) /\ Q = {list[k] : k \in 1..m}
        /\ journal' \in Seq(Row) /\ Len(journal') = len + m
        /\ \A k \in 1..len : journal'[k] = journal[k]
        /\ \A k \in 1..m : /\ journal'[len + k].province = list[k] /\ list[k] \in Q
                           /\ journal'[len + k].owner = n /\ journal'[len + k].turn = turn
    BY <1>1 DEF RowsOf
  <1>4. len \in Nat /\ m \in Nat  BY DEF MapTypes
  <1>5. /\ DOMAIN prov' = DOMAIN prov
        /\ \A q \in DOMAIN prov : q \notin Q => prov'[q] = prov[q]
        /\ \A q \in Q : prov'[q] \in [kind : Surface, owner : Owners]
                        /\ prov'[q].owner = n /\ prov'[q].kind = prov[q].kind
    BY <1>2 DEF MapTypes, Owners
  <1>6. MapTypes'  BY <1>2, <1>3, <1>5 DEF MapTypes
  <1>7. \A q \in Q : q \in Nat
    <2>1. \A r \in Release : DOMAIN r.nodes \in SUBSET Nat  BY DEF MapsAreFinite, Surface
    <2>2. Province \subseteq Nat  BY <2>1 DEF Province
    <2> QED  BY <2>2 DEF MapTypes
  <1> HIDE DEF len
  <1>8. \A k \in 1..Len(journal') : k \in 1..len \/ \E j \in 1..m : k = len + j
    <2> SUFFICES ASSUME NEW k \in 1..Len(journal'), k \notin 1..len
                 PROVE  \E j \in 1..m : k = len + j
      OBVIOUS
    <2>1. k - len \in 1..m /\ k = len + (k - len)  BY <1>4, <1>3
    <2> QED  BY <2>1
  <1>9. /\ 1..len \subseteq 1..Len(journal')
        /\ \A j \in 1..m : len + j \in 1..Len(journal') /\ len + j \in Nat /\ ~(len + j <= len)
    <2>1. Len(journal') = len + m  BY <1>3
    <2>2. 1..len \subseteq 1..(len + m)  BY <1>4
    <2>3. \A j \in 1..m : len + j \in 1..(len + m) /\ len + j \in Nat /\ ~(len + j <= len)
      BY <1>4
    <2> QED  BY <2>1, <2>2, <2>3
  <1>10. OwnersAreLast'
    <2> SUFFICES ASSUME NEW q \in DOMAIN prov
                 PROVE  \/ Unwritten(journal', q) /\ prov'[q].owner = Map!Free
                        \/ \E k \in 1..Len(journal') :
                             Last(journal', q, k) /\ journal'[k].owner = prov'[q].owner
      BY <1>5 DEF OwnersAreLast
    <2>1. CASE q \in Q
      <3>1. PICK p \in 1..m : q = list[p]  BY <1>3, <2>1
      <3>2. ASSUME NEW k \in 1..Len(journal'), journal'[k].province = q PROVE k <= len + p
        <4>0. p \in Nat  OBVIOUS
        <4>1. CASE k \in 1..len  BY <1>4, <4>0, <4>1
        <4>2. ASSUME NEW j \in 1..m, k = len + j PROVE k <= len + p
          <5>1. list[j] = list[p]
            <6>1. journal'[len + j].province = list[j]  BY <1>3
            <6> QED  BY <3>1, <3>2, <4>2, <6>1
          <5>2. ~(p < j)
            <6>1. list[p] \in Nat  BY <1>7
            <6>2. p < j => list[p] < list[j]  BY <1>3 DEF Map!Ascends
            <6> QED  BY <5>1, <6>1, <6>2
          <5> QED  BY <1>4, <4>2, <5>2
        <4> QED  BY <1>8, <4>1, <4>2
      <3>3. /\ journal'[len + p].province = q /\ journal'[len + p].owner = n
            /\ len + p \in 1..Len(journal')
        BY <1>3, <1>9, <3>1
      <3>4. Last(journal', q, len + p)  BY <3>2, <3>3 DEF Last
      <3>5. journal'[len + p].owner = prov'[q].owner  BY <1>5, <2>1, <3>3
      <3> QED  BY <3>3, <3>4, <3>5
    <2>2. CASE q \notin Q
      <3>1. \A k \in 1..Len(journal') : journal'[k].province = q =>
              k \in 1..len /\ journal[k].province = q
        <4> SUFFICES ASSUME NEW k \in 1..Len(journal'), journal'[k].province = q
                     PROVE  k \in 1..len /\ journal[k].province = q
          OBVIOUS
        <4>1. ASSUME NEW j \in 1..m, k = len + j PROVE FALSE
          <5>1. journal'[k].province = list[j] /\ list[j] \in Q  BY <1>3, <4>1
          <5> QED  BY <2>2, <5>1
        <4>2. k \in 1..len  BY <1>8, <4>1
        <4> QED  BY <1>3, <4>2
      <3>2. \A k \in 1..len : Last(journal, q, k) => Last(journal', q, k)
        BY <1>3, <1>9, <3>1 DEF Last, len
      <3>3. Unwritten(journal, q) => Unwritten(journal', q)
        BY <3>1 DEF Unwritten, len
      <3>4. \/ Unwritten(journal, q) /\ prov[q].owner = Map!Free
            \/ \E k \in 1..len : Last(journal, q, k) /\ journal[k].owner = prov[q].owner
        BY DEF OwnersAreLast, len
      <3> QED  BY <1>3, <1>5, <1>9, <2>2, <3>2, <3>3, <3>4
    <2> QED  BY <2>1, <2>2
  <1>11. RowsHaveProvinces'
    <2> SUFFICES ASSUME NEW k \in 1..Len(journal') PROVE journal'[k].province \in DOMAIN prov
      BY <1>5 DEF RowsHaveProvinces
    <2>1. CASE k \in 1..len  BY <1>3, <2>1 DEF RowsHaveProvinces, len
    <2>2. ASSUME NEW j \in 1..m, k = len + j PROVE journal'[k].province \in DOMAIN prov
      <3>1. journal'[k].province = list[j] /\ list[j] \in Q  BY <1>3, <2>2
      <3> QED  BY <3>1
    <2> QED  BY <1>8, <2>1, <2>2
  <1>12. TurnsRise'
    <2>1. \A k \in 1..len : journal'[k].turn \in Nat /\ journal'[k].turn <= turn
      <3> SUFFICES ASSUME NEW k \in 1..len PROVE journal'[k].turn \in Nat /\ journal'[k].turn <= turn
        OBVIOUS
      <3>1. journal[k] \in Row  BY DEF MapTypes, len
      <3> QED  BY <1>3, <3>1 DEF TurnsRise, Row, len
    <2>2. \A j \in 1..m : journal'[len + j].turn = turn  BY <1>3
    <2>3. turn \in Nat /\ turn' = turn  BY <1>2 DEF MapTypes
    <2>4. \A k \in 1..Len(journal') : journal'[k].turn \in Nat /\ journal'[k].turn <= turn
      BY <1>8, <2>1, <2>2, <2>3
    <2>5. ASSUME NEW j \in 1..Len(journal'), NEW k \in 1..Len(journal'), j <= k
          PROVE  journal'[j].turn <= journal'[k].turn
      <3>1. CASE k \in 1..len
        <4>1. j \in 1..len  BY <1>4, <2>5, <3>1
        <4> QED  BY <1>3, <2>5, <3>1, <4>1 DEF TurnsRise, len
      <3>2. CASE k \notin 1..len
        <4>1. journal'[k].turn = turn  BY <1>8, <2>2, <3>2
        <4> QED  BY <2>4, <4>1
      <3> QED  BY <3>1, <3>2
    <2> QED  BY <2>3, <2>4, <2>5 DEF TurnsRise
  <1>13. ChangeStands' /\ ClientStands'  BY <1>2 DEF ChangeStands, ClientStands
  <1>14. BootsStand'  BY <1>2, <1>5, HandsChange
  <1> QED  BY <1>6, <1>10, <1>11, <1>12, <1>13, <1>14

LEMMA MapResetKeeps == ASSUME MapInv, Map!Reset PROVE MapInv'
  <1> USE DEF MapInv
  <1>1. /\ prov' = [q \in DOMAIN prov |-> [prov[q] EXCEPT !.owner = Map!Free]]
        /\ journal' = <<>> /\ turn' = 1 /\ change = Map!None /\ UNCHANGED <<change, inst, client, boots>>
    BY DEF Map!Reset
  <1>2. Len(journal') = 0 /\ journal' \in Seq(Row) /\ 1..0 = {}  BY <1>1, EmptySeq
  <1>3. /\ DOMAIN prov' = DOMAIN prov
        /\ \A q \in DOMAIN prov : /\ prov'[q] \in [kind : Surface, owner : Owners]
                                  /\ prov'[q].owner = Map!Free /\ prov'[q].kind = prov[q].kind
    BY <1>1 DEF MapTypes, Owners
  <1>4. MapTypes'  BY <1>1, <1>2, <1>3 DEF MapTypes
  <1>5. OwnersAreLast'  BY <1>2, <1>3 DEF OwnersAreLast, Unwritten
  <1>6. RowsHaveProvinces' /\ TurnsRise'  BY <1>2 DEF RowsHaveProvinces, TurnsRise
  <1>7. ChangeStands' /\ ClientStands'  BY <1>1 DEF ChangeStands, ClientStands
  <1>8. BootsStand'  BY <1>1, <1>3, HandsChange
  <1> QED  BY <1>4, <1>5, <1>6, <1>7, <1>8

LEMMA RollbackKeeps == ASSUME MapInv, Map!Rollback PROVE MapInv'
  <1> USE DEF MapInv
  <1>1. change' = Map!None /\ UNCHANGED <<prov, journal, turn, inst, client, boots>>
    BY DEF Map!Rollback
  <1>2. BootsStand'  BY <1>1, HandsChange
  <1>3. MapTypes' /\ OwnersAreLast' /\ RowsHaveProvinces' /\ TurnsRise' /\ ClientStands'
    BY <1>1 DEF MapTypes, OwnersAreLast, RowsHaveProvinces, TurnsRise, ClientStands, Last, Unwritten
  <1> QED  BY <1>1, <1>2, <1>3 DEF ChangeStands

LEMMA TickKeeps == ASSUME MapInv, Map!Tick PROVE MapInv'
  <1> USE DEF MapInv
  <1>1. turn' = turn + 1 /\ UNCHANGED <<prov, journal, change, inst, client, boots>>
    BY DEF Map!Tick
  <1>2. turn \in Nat /\ 1 <= turn /\ turn' \in Nat /\ 1 <= turn'  BY <1>1 DEF MapTypes
  <1>3. ASSUME NEW k \in 1..Len(journal) PROVE journal[k].turn \in Nat
    <2>1. journal[k] \in Row  BY DEF MapTypes
    <2> QED  BY <2>1 DEF Row
  <1>4. MapTypes'  BY <1>1, <1>2 DEF MapTypes
  <1>5. TurnsRise'  BY <1>1, <1>2, <1>3 DEF TurnsRise
  <1>6. ChangeStands'
    <2>1. change # Map!None => change.turn \in Nat  BY DEF ChangeStands, Row
    <2> QED  BY <1>1, <1>2, <2>1 DEF ChangeStands
  <1>7. BootsStand'  BY <1>1, HandsChange
  <1>8. OwnersAreLast' /\ RowsHaveProvinces' /\ ClientStands'
    BY <1>1 DEF OwnersAreLast, RowsHaveProvinces, ClientStands, Last, Unwritten
  <1> QED  BY <1>4, <1>5, <1>6, <1>7, <1>8

LEMMA ManifestKeeps ==
  ASSUME MapInv, NEW i \in Instance, Map!GetManifest(i) PROVE MapInv'
  <1> USE DEF MapInv
  <1>1. /\ \/ client' = client
           \/ client' = [tag |-> Map!Tag(inst[i].map), body |-> Map!Body(inst[i].map)]
        /\ inst[i].pc = "up" /\ UNCHANGED <<prov, journal, turn, change, inst, boots>>
    BY DEF Map!GetManifest, Map!Up
  <1>2. inst[i].map \in Release  BY <1>1 DEF BootsStand, BootStands
  <1>3. ClientStands'
    <2>1. CASE client' = client  BY <2>1 DEF ClientStands
    <2>2. CASE client' = [tag |-> Map!Tag(inst[i].map), body |-> Map!Body(inst[i].map)]
      BY <1>2, <2>2 DEF ClientStands
    <2> QED  BY <1>1, <2>1, <2>2
  <1>4. BootsStand'  BY <1>1, HandsChange
  <1>5. MapTypes' /\ OwnersAreLast' /\ RowsHaveProvinces' /\ TurnsRise' /\ ChangeStands'
    BY <1>1 DEF MapTypes, OwnersAreLast, RowsHaveProvinces, TurnsRise, ChangeStands, Last, Unwritten
  <1> QED  BY <1>3, <1>4, <1>5

LEMMA BootKeeps ==
  ASSUME MapsAreFinite, MapInv, NEW i \in Instance, Map!Boot(i) PROVE MapInv'
  <1>1. ASSUME NEW r \in Release, Map!ReadRows(i, r) PROVE MapInv'  BY <1>1, ReadRowsKeeps
  <1>2. CASE Map!InsertMissing(i)  BY <1>2, InsertKeepsMap
  <1>3. CASE Map!ReadHistory(i)    BY <1>3, HistoryKeeps
  <1>4. CASE Map!ReadOwners(i)     BY <1>4, OwnersKeeps
  <1>5. CASE Map!DeleteRetired(i)  BY <1>5, DeletionKeeps
  <1>6. CASE Map!Stop(i)           BY <1>6, DownKeeps DEF Map!Stop, Map!Stay
  <1> QED  BY <1>1, <1>2, <1>3, <1>4, <1>5, <1>6 DEF Map!Boot

LEMMA MapNext == ASSUME MapsAreFinite, MapInv, [Map!Next]_(Map!vars) PROVE MapInv'
  <1>1. ASSUME NEW i \in Instance, Map!Boot(i) PROVE MapInv'  BY <1>1, BootKeeps
  <1>2. ASSUME NEW i \in Instance, Map!Write(i) PROVE MapInv'
    <2>1. ASSUME NEW q \in DOMAIN prov, NEW n \in Nation \cup {Map!Free}, Map!Begin(i, q, n)
          PROVE  MapInv'
      BY <2>1, BeginKeeps DEF Owners
    <2>2. ASSUME NEW Q \in SUBSET DOMAIN prov, NEW n \in Nation, Map!FoundOn(i, Q, n)
          PROVE  MapInv'
      BY <2>2, FoundKeeps
    <2> QED  BY <1>2, <2>1, <2>2 DEF Map!Write
  <1>3. ASSUME NEW i \in Instance, Map!GetManifest(i) PROVE MapInv'  BY <1>3, ManifestKeeps
  <1>4. CASE Map!Commit    BY <1>4, MapCommitKeeps
  <1>5. CASE Map!Rollback  BY <1>5, RollbackKeeps
  <1>6. CASE Map!Tick      BY <1>6, TickKeeps
  <1>7. CASE Map!Reset     BY <1>7, MapResetKeeps
  <1>8. CASE UNCHANGED Map!vars
    <2>1. UNCHANGED <<prov, journal, turn, change, inst, client>>  BY <1>8 DEF Map!vars
    <2>2. BootsStand'  BY <2>1, HandsChange
    <2>3. /\ MapTypes' /\ OwnersAreLast' /\ RowsHaveProvinces' /\ TurnsRise' /\ ChangeStands'
          /\ ClientStands'
      BY <2>1 DEF MapInv, MapTypes, OwnersAreLast, RowsHaveProvinces, TurnsRise, ChangeStands,
                  ClientStands, Last, Unwritten
    <2> QED  BY <2>2, <2>3 DEF MapInv
  <1> QED  BY <1>1, <1>2, <1>3, <1>4, <1>5, <1>6, <1>7, <1>8 DEF Map!Next

LEMMA MapInvariant == ASSUME MapsAreFinite PROVE Map!Spec => []MapInv
  <1>1. MapInv /\ [Map!Next]_(Map!vars) => MapInv'  BY MapNext
  <1> QED  BY <1>1, MapInit, PTL DEF Map!Spec

(* The last row by turn and by id is the last one there is.                *)
LEMMA LastRowIs ==
  ASSUME MapInv, NEW q, NEW k, Last(journal, q, k) PROVE Map!LastRow(q, turn) = k
  <1> DEFINE rows0 == {j \in 1..Len(journal) : journal[j].province = q /\ journal[j].turn <= turn}
             Top(j) == \A l \in rows0 :
                         \/ journal[l].turn < journal[j].turn
                         \/ journal[l].turn = journal[j].turn /\ l <= j
  <1>1. ASSUME NEW j \in 1..Len(journal) PROVE journal[j].turn \in Nat /\ journal[j].turn <= turn
    <2>1. journal[j] \in Row  BY DEF MapInv, MapTypes
    <2> QED  BY <2>1 DEF Row, MapInv, TurnsRise
  <1>2. k \in rows0 /\ \A j \in rows0 : j <= k /\ journal[j].turn <= journal[k].turn
    BY <1>1 DEF Last, MapInv, TurnsRise
  <1>3. Top(k)  BY <1>1, <1>2
  <1>4. ASSUME NEW j \in rows0, Top(j) PROVE j = k
    <2>1. j <= k /\ journal[j].turn <= journal[k].turn  BY <1>2
    <2>2. journal[k].turn < journal[j].turn \/ k <= j  BY <1>2, <1>4
    <2> QED  BY <1>1, <1>2, <2>1, <2>2
  <1>5. Map!LastRow(q, turn) = CHOOSE j \in rows0 : Top(j)
    BY <1>2 DEF Map!LastRow
  <1> QED  BY <1>2, <1>3, <1>4, <1>5

LEMMA OwnerIsTold ==
  ASSUME MapInv, NEW q
  PROVE  Map!OwnerAt(q, turn) = IF q \in DOMAIN prov THEN prov[q].owner ELSE Map!Free
  <1>1. Unwritten(journal, q) => Map!OwnerAt(q, turn) = Map!Free
    BY DEF Unwritten, Map!OwnerAt, Map!LastRow
  <1>2. CASE q \in DOMAIN prov
    <2>1. ASSUME NEW k \in 1..Len(journal), Last(journal, q, k), journal[k].owner = prov[q].owner
          PROVE  Map!OwnerAt(q, turn) = prov[q].owner
      <3>1. Map!LastRow(q, turn) = k /\ k # 0  BY <2>1, LastRowIs
      <3> QED  BY <2>1, <3>1 DEF Map!OwnerAt
    <2> QED  BY <1>1, <1>2, <2>1 DEF MapInv, OwnersAreLast
  <1>3. CASE q \notin DOMAIN prov
    BY <1>1, <1>3 DEF MapInv, RowsHaveProvinces, Unwritten
  <1> QED  BY <1>2, <1>3

(* The journal and the live table agree on the present turn, however       *)
(* changes, ticks, foundings, boots and resets fall between each other.    *)
THEOREM JournalTellsTheOwner ==
  ASSUME MapsAreFinite PROVE Map!Spec => []Map!JournalIsTheOwner
  <1>1. MapInv => Map!JournalIsTheOwner
    <2> SUFFICES ASSUME MapInv PROVE Map!JournalIsTheOwner  OBVIOUS
    <2>1. \A q \in DOMAIN prov : Map!OwnerAt(q, turn) = prov[q].owner  BY OwnerIsTold
    <2>2. Map!Journalled({journal[k].province : k \in 1..Len(journal)}) \subseteq DOMAIN prov
      BY DEF MapInv, RowsHaveProvinces, Map!Journalled
    <2> QED  BY <2>1, <2>2 DEF Map!JournalIsTheOwner
  <1> QED  BY <1>1, MapInvariant, PTL

(* INV-M5: an instance that is up has the provinces of its map, unless     *)
(* another has come up since it looked.                                    *)
THEOREM ProvincesFollowTheMap ==
  ASSUME MapsAreFinite PROVE Map!Spec => []Map!ProvincesAreTheMap
  <1>1. MapInv => Map!ProvincesAreTheMap
    BY DEF MapInv, BootsStand, BootStands, Map!ProvincesAreTheMap, Map!Up
  <1> QED  BY <1>1, MapInvariant, PTL

(* A client that is told that its manifest stands has the nodes and the    *)
(* rules of the instance that tells it, whichever one it asked before.     *)
THEOREM TagsAreTrue == ASSUME MapsAreFinite PROVE Map!Spec => []Map!UnchangedIsTrue
  <1>1. MapInv => Map!UnchangedIsTrue
    <2> SUFFICES ASSUME MapInv, NEW i \in Map!Up, client # Map!None,
                        client.tag = Map!Tag(inst[i].map)
                 PROVE  /\ client.body.nodes = inst[i].map.nodes
                        /\ client.body.rules = inst[i].map.rules
      BY DEF Map!UnchangedIsTrue
    <2>1. PICK r \in Release : client = [tag |-> Map!Tag(r), body |-> Map!Body(r)]
      BY DEF MapInv, ClientStands
    <2>2. Map!Tag(r) = Map!Tag(inst[i].map) /\ client.body = Map!Body(r)  BY <2>1
    <2>3. r.nodes = inst[i].map.nodes /\ r.rules = inst[i].map.rules  BY <2>2 DEF Map!Tag
    <2> QED  BY <2>2, <2>3 DEF Map!Body
  <1> QED  BY <1>1, MapInvariant, PTL

(* What a step can be, for the properties of steps: an instance comes up,  *)
(* or nothing of the world moves, or one of the four that move it.         *)
LEMMA MapStepIs ==
  ASSUME MapInv, [Map!Next]_(Map!vars)
  PROVE  \/ \E i \in Instance : Map!DeleteRetired(i) /\ inst'[i].pc = "up"
         \/ /\ UNCHANGED <<prov, journal, turn>>
            /\ \A j \in Instance : inst'[j].pc = "up" => inst[j].pc = "up"
         \/ /\ UNCHANGED inst
            /\ \/ Map!Commit \/ Map!Tick \/ Map!Reset
               \/ \E i \in Instance, Q \in SUBSET DOMAIN prov, n \in Nation : Map!FoundOn(i, Q, n)
  <1> DEFINE Idle == /\ UNCHANGED <<prov, journal, turn>>
                     /\ \A j \in Instance : inst'[j].pc = "up" => inst[j].pc = "up"
  <1>1. ASSUME NEW i \in Instance, NEW s, inst' = [inst EXCEPT ![i] = s], s.pc # "up",
               UNCHANGED <<prov, journal, turn>>
        PROVE  Idle
    BY <1>1 DEF MapInv, MapTypes
  <1>2. ASSUME NEW i \in Instance, Map!Boot(i)
        PROVE  Idle \/ (Map!DeleteRetired(i) /\ inst'[i].pc = "up")
    <2>1. ASSUME NEW r \in Release, Map!ReadRows(i, r) PROVE Idle
      <3>1. [Map!Down EXCEPT !.pc = "read", !.map = r, !.rows = Map!Kinds].pc = "read"
        BY DEF Map!Down
      <3> QED  BY <1>1, <2>1, <3>1 DEF Map!ReadRows, Map!Stay
    <2>2. inst[i] \in Standing  BY DEF MapInv, MapTypes
    <2>3. CASE Map!InsertMissing(i)
      <3>1. [inst[i] EXCEPT !.pc = "inserted"].pc = "inserted"  BY <2>2 DEF Standing
      <3> QED  BY <1>1, <2>3, <3>1, DownIs DEF Map!InsertMissing, Map!Stay
    <2>4. CASE Map!ReadHistory(i)
      <3> DEFINE s == [inst[i] EXCEPT !.pc = "listed",
                         !.history = Map!Journalled(Map!Retired(inst[i].map))]
      <3>1. s.pc = "listed"  BY <2>2 DEF Standing
      <3>2. inst' = [inst EXCEPT ![i] = s] /\ UNCHANGED <<prov, journal, turn>>
        BY <2>4 DEF Map!ReadHistory, Map!Stay
      <3> HIDE DEF s
      <3> QED  BY <1>1, <3>1, <3>2
    <2>5. CASE Map!ReadOwners(i)
      <3> DEFINE s == [inst[i] EXCEPT !.pc = "checked",
                         !.gone = Map!Retired(inst[i].map) \cap DOMAIN prov]
      <3>1. s.pc = "checked"  BY <2>2 DEF Standing
      <3>2. /\ inst' = [inst EXCEPT ![i] = s] \/ inst' = [inst EXCEPT ![i] = Map!Down]
            /\ UNCHANGED <<prov, journal, turn>>
        BY <2>5 DEF Map!ReadOwners, Map!Stay
      <3> HIDE DEF s
      <3> QED  BY <1>1, <3>1, <3>2, DownIs
    <2>6. CASE Map!DeleteRetired(i) /\ inst'[i].pc # "up"
      <3>1. [Map!Down EXCEPT !.pc = "up", !.map = inst[i].map, !.late = inst[i].late].pc = "up"
        BY DEF Map!Down
      <3>2. inst' = [inst EXCEPT ![i] = Map!Down] /\ UNCHANGED <<prov, journal, turn>>
        BY <2>6, <3>1 DEF Map!DeleteRetired, Map!Stay
      <3> QED  BY <1>1, <3>2, DownIs
    <2>7. CASE Map!Stop(i)  BY <1>1, <2>7, DownIs DEF Map!Stop, Map!Stay
    <2> QED  BY <1>2, <2>1, <2>3, <2>4, <2>5, <2>6, <2>7 DEF Map!Boot
  <1>3. ASSUME NEW i \in Instance, Map!Write(i)
        PROVE  \/ Idle
               \/ /\ UNCHANGED inst
                  /\ \E Q \in SUBSET DOMAIN prov, n \in Nation : Map!FoundOn(i, Q, n)
    BY <1>3 DEF Map!Write, Map!Begin, Map!FoundOn
  <1>4. ASSUME NEW i \in Instance, Map!GetManifest(i) PROVE Idle  BY <1>4 DEF Map!GetManifest
  <1>5. Map!Rollback \/ UNCHANGED Map!vars => Idle  BY DEF Map!Rollback, Map!vars
  <1>6. Map!Commit \/ Map!Tick \/ Map!Reset => UNCHANGED inst
    BY DEF Map!Commit, Map!Tick, Map!Reset
  <1> QED  BY <1>2, <1>3, <1>4, <1>5, <1>6 DEF Map!Next

(* No boot takes a province from its owner or a row from the journal,      *)
(* though it looks at both before it deletes.                              *)
THEOREM BootsTakeNothing == ASSUME MapsAreFinite PROVE Map!Spec => Map!NothingIsTaken
  <1> DEFINE Step == \A q \in DOMAIN prov \ DOMAIN prov' :
                       prov[q].owner = Map!Free /\ Map!Journalled({q}) = {}
  <1>1. MapInv /\ [Map!Next]_(Map!vars) => Step
    <2> SUFFICES ASSUME MapInv, [Map!Next]_(Map!vars), NEW q \in DOMAIN prov, q \notin DOMAIN prov'
                 PROVE  prov[q].owner = Map!Free /\ Map!Journalled({q}) = {}
      OBVIOUS
    <2>1. Map!Commit \/ Map!Tick \/ Map!Reset => DOMAIN prov' = DOMAIN prov
      BY DEF Map!Commit, Map!Tick, Map!Reset
    <2>2. ASSUME NEW i \in Instance, NEW Q \in SUBSET DOMAIN prov, NEW n \in Nation,
                 Map!FoundOn(i, Q, n)
          PROVE  DOMAIN prov' = DOMAIN prov
      BY <2>2 DEF Map!FoundOn
    <2>3. PICK i \in Instance : Map!DeleteRetired(i) /\ inst'[i].pc = "up"
      BY <2>1, <2>2, MapStepIs
    <2>4. q \in inst[i].gone  BY <2>3, RemainingIs
    <2>5. Unwritten(journal, q)  BY <2>3, <2>4, DeletionIs
    <2>6. prov[q].owner = Map!Free  BY <2>5 DEF MapInv, OwnersAreLast, Unwritten, Last
    <2>7. Map!Journalled({q}) = {}  BY <2>5 DEF Unwritten, Map!Journalled
    <2> QED  BY <2>6, <2>7
  <1>2. Map!NothingIsTaken <=> [][Step]_(Map!vars)  BY DEF Map!NothingIsTaken
  <1> HIDE DEF Step
  <1> QED  BY <1>1, <1>2, MapInvariant, PTL DEF Map!Spec

(* Who boots alone comes up only if the report on the database would have  *)
(* let it.                                                                 *)
THEOREM ReportsAreRight == ASSUME MapsAreFinite PROVE Map!Spec => Map!ReportForesees
  <1> DEFINE Step == \A i \in Instance :
                       /\ inst[i].pc = "checked" /\ ~inst[i].late /\ inst'[i].pc = "up"
                       => Map!ReportIsOk(inst[i].map)
  <1>1. MapInv /\ [Map!Next]_(Map!vars) => Step
    <2> SUFFICES ASSUME MapInv, [Map!Next]_(Map!vars), NEW i \in Instance,
                        inst[i].pc = "checked", ~inst[i].late, inst'[i].pc = "up"
                 PROVE  Map!ReportIsOk(inst[i].map)
      OBVIOUS
    <2>1. PICK j \in Instance : Map!DeleteRetired(j) /\ inst'[j].pc = "up"  BY MapStepIs
    <2>2. j = i
      <3> SUFFICES ASSUME j # i PROVE FALSE  OBVIOUS
      <3>1. inst'[i] = [inst[i] EXCEPT !.late = TRUE]  BY <2>1, DeletionIs
      <3>2. inst[i] \in Standing  BY DEF MapInv, MapTypes
      <3>3. inst'[i].pc = inst[i].pc  BY <3>1, <3>2 DEF Standing
      <3> QED  BY <3>3
    <2> DEFINE r == inst[i].map
               gone == inst[i].gone
    <2>3. /\ inst[i].rows = Map!Kinds /\ gone = Map!Retired(r) \cap DOMAIN prov
          /\ Map!Unknown(i) = {} /\ Map!Mismatched(r, inst[i].rows) = {}
          /\ \A q \in gone : Unwritten(journal, q)
      BY <2>1, <2>2, DeletionIs DEF BootStands, Reading
    <2>4. DOMAIN inst[i].rows = DOMAIN prov /\ \A q \in DOMAIN prov : inst[i].rows[q] = prov[q].kind
      BY <2>3 DEF Map!Kinds
    <2>5. \A q \in gone : prov[q].owner = Map!Free
      BY <2>3 DEF MapInv, OwnersAreLast, Unwritten, Last
    <2>6. Map!Journalled(gone) = {}  BY <2>3 DEF Unwritten, Map!Journalled
    <2>7. DOMAIN prov \subseteq DOMAIN r.nodes \cup Map!Retired(r)
      BY <2>3, <2>4 DEF Map!Unknown
    <2>8. \A q \in DOMAIN prov \cap DOMAIN r.nodes : prov[q].kind = r.nodes[q]
      BY <2>3, <2>4 DEF Map!Mismatched
    <2> HIDE DEF r, gone
    <2>9. Map!ReportIsOk(r)  BY <2>3, <2>5, <2>6, <2>7, <2>8 DEF Map!ReportIsOk
    <2> QED  BY <2>9 DEF r
  <1>2. Map!ReportForesees <=> [][Step]_(Map!vars)  BY DEF Map!ReportForesees
  <1> HIDE DEF Step
  <1> QED  BY <1>1, <1>2, MapInvariant, PTL DEF Map!Spec

(* Only a transaction that has read its turn before the tick adds to a     *)
(* turn that is over, and it adds the row it holds the lock for.           *)
THEOREM PastStandsStill == ASSUME MapsAreFinite PROVE Map!Spec => Map!PastStands
  <1> DEFINE Step ==
        turn' >= turn /\ journal' # <<>> =>
          \A k \in 1..Len(journal') : journal'[k].turn < turn /\ k > Len(journal) =>
            change # Map!None /\ journal'[k] = change
  <1>1. MapInv /\ [Map!Next]_(Map!vars) => Step
    <2> SUFFICES ASSUME MapInv, [Map!Next]_(Map!vars), journal' # <<>>,
                        NEW k \in 1..Len(journal'), journal'[k].turn < turn, k > Len(journal)
                 PROVE  change # Map!None /\ journal'[k] = change
      OBVIOUS
    <2>1. journal \in Seq(Row) /\ Len(journal) \in Nat /\ turn \in Nat  BY DEF MapInv, MapTypes
    <2>2. CASE journal' = journal  BY <2>1, <2>2
    <2>3. CASE Map!Commit
      <3>1. change # Map!None /\ change \in Row /\ journal' = Append(journal, change)
        BY <2>3 DEF Map!Commit, MapInv, ChangeStands
      <3>2. Len(journal') = Len(journal) + 1 /\ journal'[Len(journal) + 1] = change
        BY <2>1, <3>1
      <3>3. k = Len(journal) + 1  BY <2>1, <3>2
      <3> QED  BY <3>1, <3>2, <3>3
    <2>4. CASE Map!Reset  BY <2>4 DEF Map!Reset
    <2>5. ASSUME NEW i \in Instance, NEW Q \in SUBSET DOMAIN prov, NEW n \in Nation,
                 Map!FoundOn(i, Q, n)
          PROVE  FALSE
      <3>0. PICK m \in Nat : \E list \in [1..m -> Q] : RowsOf(list, m, Q, n)
        BY <2>5, FoundRows
      <3>1. /\ Len(journal') = Len(journal) + m
            /\ \A j \in 1..m : journal'[Len(journal) + j].turn = turn
        BY <3>0 DEF RowsOf
      <3>2. k - Len(journal) \in 1..m /\ k = Len(journal) + (k - Len(journal))  BY <2>1, <3>1
      <3>3. journal'[k].turn = turn  BY <3>1, <3>2
      <3> QED  BY <2>1, <3>3
    <2>6. ASSUME NEW i \in Instance, Map!DeleteRetired(i), inst'[i].pc = "up"
          PROVE  journal' = journal
      BY <2>6, DeletionIs
    <2>7. Map!Tick => journal' = journal  BY DEF Map!Tick
    <2> QED  BY <2>2, <2>3, <2>4, <2>5, <2>6, <2>7, MapStepIs
  <1>2. Map!PastStands <=> [][Step]_(Map!vars)  BY DEF Map!PastStands
  <1> HIDE DEF Step
  <1> QED  BY <1>1, <1>2, MapInvariant, PTL DEF Map!Spec

(* What an instance answers of a turn from the live table it goes on       *)
(* answering from the journal when the turn is over.                       *)
THEOREM AnswersStandStill == ASSUME MapsAreFinite PROVE Map!Spec => Map!AnswersStand
  <1> DEFINE Step == turn' > turn =>
                       \A i \in Map!Up : \A t \in {turn} : Map!State(i, t)' = Map!State(i, t)
  <1>1. MapInv /\ [Map!Next]_(Map!vars) => Step
    <2> SUFFICES ASSUME MapInv, [Map!Next]_(Map!vars), turn' > turn,
                        NEW i \in Map!Up, NEW t \in {turn}
                 PROVE  Map!State(i, t)' = Map!State(i, t)
      OBVIOUS
    <2>1. turn \in Nat /\ 1 <= turn  BY DEF MapInv, MapTypes
    <2>2. ~Map!Commit /\ ~Map!Reset  BY <2>1 DEF Map!Commit, Map!Reset
    <2>3. \A j \in Instance, Q \in SUBSET DOMAIN prov, n \in Nation : ~Map!FoundOn(j, Q, n)
      BY <2>1 DEF Map!FoundOn
    <2>4. ASSUME NEW j \in Instance, Map!DeleteRetired(j), inst'[j].pc = "up" PROVE FALSE
      <3>1. turn' = turn  BY <2>4, DeletionIs
      <3> QED  BY <2>1, <3>1
    <2>5. Map!Tick  BY <2>1, <2>2, <2>3, <2>4, MapStepIs
    <2>6. turn' # t /\ t = turn /\ UNCHANGED <<prov, journal, inst>>  BY <2>1, <2>5 DEF Map!Tick
    <2>7. \A q : Map!OwnerAt(q, t)' = Map!OwnerAt(q, t)
      BY <2>6 DEF Map!OwnerAt, Map!LastRow
    <2>8. Map!State(i, t)' = [q \in DOMAIN inst[i].map.nodes |-> Map!OwnerAt(q, t)]
      BY <2>6, <2>7 DEF Map!State
    <2>9. Map!State(i, t) = [q \in DOMAIN inst[i].map.nodes |->
                               IF q \in DOMAIN prov THEN prov[q].owner ELSE Map!Free]
      BY <2>6 DEF Map!State
    <2> QED  BY <2>6, <2>8, <2>9, OwnerIsTold
  <1>2. Map!AnswersStand <=> [][Step]_(Map!vars)  BY DEF Map!AnswersStand
  <1> HIDE DEF Step
  <1> QED  BY <1>1, <1>2, MapInvariant, PTL DEF Map!Spec

-----------------------------------------------------------------------------
(***************************************************************************)
(* The files of the map.                                                   *)
(***************************************************************************)
BuildKey == Name \cup Spare \cup Sea
Entry  == [from : Name, to : Spare \cup Name]
Inputs == [include : SUBSET Name, exclude : SUBSET Name, renames : Seq(Entry),
           fresh : SUBSET Spare, seas : SUBSET Sea]
OneEach(rs) == \A i, j \in 1..Len(rs) : rs[i].from = rs[j].from => i = j

IsLock(l) ==
  /\ DOMAIN l.ids \subseteq BuildKey /\ \A k \in DOMAIN l.ids : l.ids[k] \in Nat
  /\ DOMAIN l.prev \subseteq BuildKey

(* What holds of 0, and of a number's successor if of the number.          *)
LEMMA StepByStep ==
  ASSUME NEW n \in Nat, NEW G, 0 \in G, \A i \in 0..(n - 1) : i \in G => i + 1 \in G
  PROVE  n \in G
  <1> DEFINE Out == {i \in 0..n : i \notin G}
  <1> SUFFICES ASSUME n \notin G PROVE FALSE  OBVIOUS
  <1>1. Out \in SUBSET Nat /\ n \in Out /\ Out # {}  OBVIOUS
  <1>2. \E x \in Out : \A y \in Out : x <= y
    <2> HIDE DEF Out
    <2> QED  BY <1>1, LeastNumber
  <1>3. PICK x \in Out : \A y \in Out : x <= y  BY <1>2
  <1>4. x \in 0..n /\ x # 0  OBVIOUS
  <1>5. x - 1 \in 0..(n - 1) /\ ~(x <= x - 1) /\ x - 1 \in 0..n /\ (x - 1) + 1 = x  BY <1>4
  <1>6. x - 1 \in G  BY <1>3, <1>5
  <1>7. x \in G  BY <1>5, <1>6
  <1> QED  BY <1>7

(* The renames of a run, one after the other.                              *)
Began(l) == [ok |-> TRUE, ids |-> l.ids, prev |-> l.prev]

LEMMA MovesAre ==
  ASSUME NEW l, NEW rs, Len(rs) \in Nat
  PROVE  /\ Build!Moves(l, rs)[0] = Began(l)
         /\ \A i \in 1..Len(rs) :
              Build!Moves(l, rs)[i] = Build!Move(Build!Moves(l, rs)[i - 1], rs[i])
  <1> DEFINE n == Len(rs)
             Upto(g, k) == g = [i \in 0..k |-> IF i = 0 THEN Began(l) ELSE Build!Move(g[i - 1], rs[i])]
             G == {k \in Nat : \E g : Upto(g, k)}
  <1>1. 0 \in G
    <2>1. Upto([i \in 0..0 |-> Began(l)], 0)  OBVIOUS
    <2> QED  BY <2>1
  <1>2. ASSUME NEW k \in 0..(n - 1), k \in G PROVE k + 1 \in G
    <2>1. PICK g : Upto(g, k)  BY <1>2
    <2> DEFINE h == [i \in 0..(k + 1) |-> IF i = k + 1 THEN Build!Move(g[k], rs[k + 1]) ELSE g[i]]
    <2>2. \A i \in 0..k : h[i] = g[i]  OBVIOUS
    <2>3. \A i \in 0..k : g[i] = IF i = 0 THEN Began(l) ELSE Build!Move(g[i - 1], rs[i])
      BY <2>1
    <2>4. \A i \in 0..(k + 1) : h[i] = IF i = 0 THEN Began(l) ELSE Build!Move(h[i - 1], rs[i])
      <3> SUFFICES ASSUME NEW i \in 0..(k + 1)
                   PROVE  h[i] = IF i = 0 THEN Began(l) ELSE Build!Move(h[i - 1], rs[i])
        OBVIOUS
      <3>1. CASE i = k + 1
        <4>1. i # 0 /\ i - 1 = k /\ k \in 0..k  BY <3>1
        <4>2. h[i] = Build!Move(g[k], rs[i])  BY <3>1
        <4> HIDE DEF h
        <4> QED  BY <2>2, <4>1, <4>2
      <3>2. CASE i # k + 1
        <4>1. i \in 0..k /\ (i # 0 => i - 1 \in 0..k)  BY <3>2
        <4> HIDE DEF h
        <4> QED  BY <2>2, <2>3, <4>1
      <3> QED  BY <3>1, <3>2
    <2>5. DOMAIN h = 0..(k + 1) /\ h = [i \in 0..(k + 1) |-> h[i]]  OBVIOUS
    <2> HIDE DEF h
    <2>6. Upto(h, k + 1)  BY <2>4, <2>5
    <2> QED  BY <2>6
  <1>3. n \in Nat  OBVIOUS
  <1>4. n \in G
    <2> HIDE DEF G, n
    <2> QED  BY <1>1, <1>2, <1>3, StepByStep
  <1>5. \E g : Upto(g, n)  BY <1>4
  <1>6. Build!Moves(l, rs) = CHOOSE g : Upto(g, n)  BY DEF Build!Moves, Began
  <1> DEFINE m == Build!Moves(l, rs)
  <1>7. Upto(m, n)
    <2> HIDE DEF Upto
    <2> QED  BY <1>5, <1>6
  <1>8. \A i \in 0..n : m[i] = IF i = 0 THEN Began(l) ELSE Build!Move(m[i - 1], rs[i])
    <2> HIDE DEF m
    <2> QED  BY <1>7
  <1> QED  BY <1>3, <1>8

LEMMA MinIsLeast ==
  ASSUME NEW T \in SUBSET Nat, T # {}
  PROVE  Build!Min(T) \in T /\ \A x \in T : Build!Min(T) <= x
  <1>1. \E x \in T : \A y \in T : x <= y  BY LeastNumber
  <1> QED  BY <1>1 DEF Build!Min

(* What one rename does: a key is noted in a chain, or an id goes from its *)
(* holder to the new key.                                                  *)
Notes(m, n, r) ==
  /\ Build!Holders(m, r) = {}
  /\ n.ids = m.ids /\ DOMAIN n.prev = DOMAIN m.prev \cup {r.to}
  /\ \A x : Build!Past(n, x) = IF x = r.to THEN Build!Past(m, x) \cup {r.from} ELSE Build!Past(m, x)
Hands(m, n, r, h) ==
  /\ h \in Build!Holders(m, r) /\ h \in DOMAIN m.ids /\ r.to \notin DOMAIN m.ids
  /\ DOMAIN n.ids = (DOMAIN m.ids \ {h}) \cup {r.to}
  /\ \A x \in DOMAIN n.ids : n.ids[x] = IF x = r.to THEN m.ids[h] ELSE m.ids[x]
  /\ DOMAIN n.prev = (DOMAIN m.prev \ {h}) \cup {r.to}
  /\ \A x : Build!Past(n, x) = IF x = r.to THEN Build!Past(m, x) \cup Build!Past(m, h) \cup {h}
                               ELSE IF x = h THEN {} ELSE Build!Past(m, x)

LEMMA MoveIs ==
  ASSUME KeysAreNumbers, NEW m, IsLock(m), NEW r \in Entry, Build!Move(m, r).ok
  PROVE  /\ m.ok
         /\ Notes(m, Build!Move(m, r), r) \/ \E h : Hands(m, Build!Move(m, r), r, h)
         /\ IsLock(Build!Move(m, r))
  <1> DEFINE n == Build!Move(m, r)
             H == Build!Holders(m, r)
             h == Build!Min(H)
  <1>1. m.ok  BY DEF Build!Move
  <1>2. r.to \in BuildKey /\ r.from \in BuildKey  BY DEF Entry, BuildKey
  <1>3. CASE H = {}
    <2> DEFINE v == Build!Past(m, r.to) \cup {r.from}
               p == Build!With(m.prev, r.to, v)
    <2>1. n = [ok |-> TRUE, ids |-> m.ids, prev |-> p]  BY <1>1, <1>3 DEF Build!Move
    <2>2. /\ DOMAIN p = DOMAIN m.prev \cup {r.to}
          /\ \A x \in DOMAIN p : p[x] = IF x = r.to THEN v ELSE m.prev[x]
      BY DEF Build!With
    <2>3. n.ids = m.ids /\ n.prev = p  BY <2>1
    <2> HIDE DEF n, p
    <2>4. \A x : Build!Past(n, x) = IF x = r.to THEN v ELSE Build!Past(m, x)
      BY <2>2, <2>3 DEF Build!Past
    <2>5. Notes(m, n, r)  BY <1>3, <2>2, <2>3, <2>4 DEF Notes
    <2>6. IsLock(n)  BY <1>2, <2>2, <2>3 DEF IsLock
    <2> QED  BY <1>1, <2>5, <2>6 DEF n
  <1>4. CASE H # {}
    <2>1. H \subseteq DOMAIN m.ids  BY DEF Build!Holders
    <2>2. h \in H
      <3>1. H \in SUBSET Nat  BY <2>1 DEF IsLock, BuildKey, KeysAreNumbers
      <3> HIDE DEF H
      <3> QED  BY <1>4, <3>1, MinIsLeast
    <2> DEFINE v == Build!Past(m, r.to) \cup Build!ChainOf(m, h)
               i == Build!With(Build!Without(m.ids, h), r.to, m.ids[h])
               p == Build!With(Build!Without(m.prev, h), r.to, v)
    <2>3. n = [ok |-> r.to \notin DOMAIN m.ids, ids |-> i, prev |-> p]
      BY <1>1, <1>4 DEF Build!Move
    <2>4. /\ DOMAIN p = (DOMAIN m.prev \ {h}) \cup {r.to}
          /\ \A x \in DOMAIN p : p[x] = IF x = r.to THEN v ELSE m.prev[x]
      BY DEF Build!With, Build!Without
    <2>5. /\ DOMAIN i = (DOMAIN m.ids \ {h}) \cup {r.to}
          /\ \A x \in DOMAIN i : i[x] = IF x = r.to THEN m.ids[h] ELSE m.ids[x]
      BY DEF Build!With, Build!Without
    <2>6. n.ids = i /\ n.prev = p /\ (n.ok => r.to \notin DOMAIN m.ids)
      <3> HIDE DEF n, p, i, v, h, H
      <3>1. n.ids = i /\ n.prev = p /\ n.ok = (r.to \notin DOMAIN m.ids)  BY <2>3
      <3> QED  BY <3>1, Zenon
    <2>7. v = Build!Past(m, r.to) \cup Build!Past(m, h) \cup {h}  BY DEF Build!ChainOf
    <2>8. h \in DOMAIN m.ids  BY <2>1, <2>2
    <2> HIDE DEF n, p, i, v, h, H
    <2>9. r.to \notin DOMAIN m.ids
      <3>1. n.ok  BY DEF n
      <3> QED  BY <2>6, <3>1
    <2>10. r.to # h  BY <2>8, <2>9
    <2>11. \A x : Build!Past(n, x) = IF x = r.to THEN v ELSE IF x = h THEN {} ELSE Build!Past(m, x)
      BY <2>4, <2>6, <2>10 DEF Build!Past
    <2>12. Hands(m, n, r, h)
      BY <2>2, <2>4, <2>5, <2>6, <2>7, <2>8, <2>9, <2>11 DEF Hands, H
    <2>13. IsLock(n)
      <3>1. DOMAIN n.ids \subseteq BuildKey /\ DOMAIN n.prev \subseteq BuildKey
        BY <1>2, <2>4, <2>5, <2>6 DEF IsLock
      <3>2. \A k \in DOMAIN n.ids : n.ids[k] \in Nat  BY <2>5, <2>6, <2>8 DEF IsLock
      <3> QED  BY <3>1, <3>2 DEF IsLock
    <2> QED  BY <1>1, <2>12, <2>13 DEF n
  <1> QED  BY <1>3, <1>4

(* An id stays with its key, or with one that has the key in its chain.    *)
Keeps(l, m) ==
  \A k \in DOMAIN l.ids : \E j \in DOMAIN m.ids :
    /\ m.ids[j] = l.ids[k] /\ (j = k \/ k \in Build!Past(m, j))
    /\ Build!Past(l, k) \subseteq Build!Past(m, j)

LEMMA MovedKeeps ==
  ASSUME NEW l, NEW m, NEW n, NEW r \in Entry, Keeps(l, m),
         Notes(m, n, r) \/ \E h : Hands(m, n, r, h)
  PROVE  Keeps(l, n)
  <1> SUFFICES ASSUME NEW k \in DOMAIN l.ids
               PROVE  \E j \in DOMAIN n.ids :
                        /\ n.ids[j] = l.ids[k] /\ (j = k \/ k \in Build!Past(n, j))
                        /\ Build!Past(l, k) \subseteq Build!Past(n, j)
    BY DEF Keeps
  <1>1. PICK j \in DOMAIN m.ids :
          /\ m.ids[j] = l.ids[k] /\ (j = k \/ k \in Build!Past(m, j))
          /\ Build!Past(l, k) \subseteq Build!Past(m, j)
    BY DEF Keeps
  <1>2. CASE Notes(m, n, r)
    <2>1. j \in DOMAIN n.ids /\ n.ids[j] = m.ids[j]  BY <1>2 DEF Notes
    <2>2. Build!Past(m, j) \subseteq Build!Past(n, j)  BY <1>2 DEF Notes
    <2> QED  BY <1>1, <2>1, <2>2
  <1>3. ASSUME NEW h, Hands(m, n, r, h)
        PROVE  \E i \in DOMAIN n.ids :
                 /\ n.ids[i] = l.ids[k] /\ (i = k \/ k \in Build!Past(n, i))
                 /\ Build!Past(l, k) \subseteq Build!Past(n, i)
    <2>1. CASE j = h
      <3>1. r.to \in DOMAIN n.ids /\ n.ids[r.to] = m.ids[h]  BY <1>3 DEF Hands
      <3>2. Build!Past(m, h) \cup {h} \subseteq Build!Past(n, r.to)  BY <1>3 DEF Hands
      <3> QED  BY <1>1, <2>1, <3>1, <3>2
    <2>2. CASE j # h
      <3>1. j # r.to  BY <1>3 DEF Hands
      <3>2. j \in DOMAIN n.ids /\ n.ids[j] = m.ids[j]  BY <1>3, <2>2, <3>1 DEF Hands
      <3>3. Build!Past(n, j) = Build!Past(m, j)  BY <1>3, <2>2, <3>1 DEF Hands
      <3> QED  BY <1>1, <3>2, <3>3
    <2> QED  BY <2>1, <2>2
  <1> QED  BY <1>2, <1>3

(* The keys ever given out, T: who each of them stands for, and which of   *)
(* two is older.                                                           *)
Line(T, who, age) ==
  /\ who \in [T -> BuildKey] /\ age \in [T -> Nat]
  /\ \A j, k \in T : age[j] = age[k] => j = k

(* A list of renames gives a province a younger key.                       *)
Renews(T, who, age, rs) ==
  /\ OneEach(rs)
  /\ \A i \in 1..Len(rs) :
       /\ rs[i].from \in T /\ who[rs[i].from] = rs[i].from
       /\ rs[i].to \in T /\ who[rs[i].to] = rs[i].from /\ age[rs[i].from] < age[rs[i].to]

(* In a lock nobody has two ids and no id has two keys, and the chain of a *)
(* key leads back to the province's own.                                   *)
Descends(T, who, age, l) ==
  /\ DOMAIN l.ids \subseteq T /\ DOMAIN l.prev \subseteq T
  /\ \A j, k \in DOMAIN l.ids : who[j] = who[k] \/ l.ids[j] = l.ids[k] => j = k
  /\ \A k \in DOMAIN l.prev : Build!Past(l, k) # {}
  /\ \A k \in DOMAIN l.prev : \A j \in Build!Past(l, k) :
       j \in T /\ who[j] = who[k] /\ age[j] < age[k]
  /\ \A k \in DOMAIN l.ids : who[k] = k \/ who[k] \in Build!Past(l, k)

(* Who is in the lock by another key is still renamed, to one not older.   *)
Fits(who, age, l, rs) ==
  /\ \A k \in DOMAIN l.ids : who[k] = k \/ \E i \in 1..Len(rs) : who[k] = rs[i].from
  /\ \A i \in 1..Len(rs) : \A k \in DOMAIN l.ids :
       who[k] = rs[i].from => age[k] <= age[rs[i].to]

(* What the first n renames have done.                                     *)
Renamed(who, l, rs, n) ==
  /\ \A i \in 1..n :
       /\ \A k \in DOMAIN l.ids : who[k] = rs[i].from => k = rs[i].to
       /\ rs[i].from \in Build!Past(l, rs[i].to)
  /\ \A k \in DOMAIN l.prev : k \in DOMAIN l.ids \/ \E i \in 1..n : k = rs[i].to

LEMMA PastIsInDomain == ASSUME NEW l, NEW k, NEW x \in Build!Past(l, k) PROVE k \in DOMAIN l.prev
  BY DEF Build!Past

LEMMA NotesDescends ==
  ASSUME NEW T, NEW who, NEW age, Line(T, who, age), NEW rs \in Seq(Entry), Renews(T, who, age, rs),
         NEW i \in 1..Len(rs), NEW m, NEW n, Descends(T, who, age, m), Fits(who, age, m, rs),
         Renamed(who, m, rs, i - 1), Notes(m, n, rs[i])
  PROVE  Descends(T, who, age, n) /\ Fits(who, age, n, rs) /\ Renamed(who, n, rs, i)
  <1> DEFINE f == rs[i].from
             t == rs[i].to
  <1>1. f \in T /\ who[f] = f /\ t \in T /\ who[t] = f /\ age[f] < age[t]  BY DEF Renews
  <1>2. /\ n.ids = m.ids /\ DOMAIN n.prev = DOMAIN m.prev \cup {t}
        /\ \A x : Build!Past(n, x) = IF x = t THEN Build!Past(m, x) \cup {f} ELSE Build!Past(m, x)
    BY DEF Notes
  <1>3. \A x : Build!Past(m, x) \subseteq Build!Past(n, x)  BY <1>2
  <1>4. \A k \in DOMAIN m.ids : who[k] = f => k = t
    <2> SUFFICES ASSUME NEW k \in DOMAIN m.ids, who[k] = f, k # t PROVE FALSE  OBVIOUS
    <2>1. f \notin DOMAIN m.ids  BY DEF Notes, Build!Holders
    <2>2. k # f /\ f \in Build!Past(m, k)  BY <2>1 DEF Descends
    <2>3. k \in Build!Holders(m, rs[i]) \/ t \in DOMAIN m.ids  BY <2>1, <2>2 DEF Build!Holders
    <2>4. t \in DOMAIN m.ids => t = k  BY <1>1 DEF Descends
    <2> QED  BY <2>3, <2>4 DEF Notes
  <1>5. Descends(T, who, age, n)
    <2>1. \A k \in DOMAIN n.prev : \A j \in Build!Past(n, k) :
            j \in T /\ who[j] = who[k] /\ age[j] < age[k]
      <3> SUFFICES ASSUME NEW k \in DOMAIN n.prev, NEW j \in Build!Past(n, k)
                   PROVE  j \in T /\ who[j] = who[k] /\ age[j] < age[k]
        OBVIOUS
      <3>1. CASE k = t /\ j = f  BY <1>1, <3>1
      <3>2. CASE j \in Build!Past(m, k)
        <4>1. k \in DOMAIN m.prev  BY <3>2, PastIsInDomain
        <4> QED  BY <3>2, <4>1 DEF Descends
      <3> QED  BY <1>2, <3>1, <3>2
    <2>2. \A k \in DOMAIN n.prev : Build!Past(n, k) # {}  BY <1>2 DEF Descends
    <2>3. DOMAIN n.ids \subseteq T /\ DOMAIN n.prev \subseteq T  BY <1>1, <1>2 DEF Descends
    <2>4. \A k \in DOMAIN n.ids : who[k] = k \/ who[k] \in Build!Past(n, k)
      BY <1>2, <1>3 DEF Descends
    <2>5. \A j, k \in DOMAIN n.ids : who[j] = who[k] \/ n.ids[j] = n.ids[k] => j = k
      BY <1>2 DEF Descends
    <2> QED  BY <2>1, <2>2, <2>3, <2>4, <2>5 DEF Descends
  <1>6. Fits(who, age, n, rs)  BY <1>2 DEF Fits
  <1>7. Renamed(who, n, rs, i)
    <2>0. \A j \in 1..i : j = i \/ j \in 1..(i - 1)  OBVIOUS
    <2>1. ASSUME NEW j \in 1..i
          PROVE  /\ \A k \in DOMAIN n.ids : who[k] = rs[j].from => k = rs[j].to
                 /\ rs[j].from \in Build!Past(n, rs[j].to)
      <3>1. CASE j = i  BY <1>2, <1>4, <3>1
      <3>2. CASE j \in 1..(i - 1)  BY <1>2, <1>3, <3>2 DEF Renamed
      <3> QED  BY <2>0, <3>1, <3>2
    <2>2. ASSUME NEW k \in DOMAIN n.prev
          PROVE  k \in DOMAIN n.ids \/ \E j \in 1..i : k = rs[j].to
      <3>1. CASE k = t  BY <3>1
      <3>2. CASE k \in DOMAIN m.prev
        <4>1. 1..(i - 1) \subseteq 1..i  OBVIOUS
        <4> QED  BY <1>2, <3>2, <4>1 DEF Renamed
      <3> QED  BY <1>2, <3>1, <3>2
    <2> QED  BY <2>1, <2>2 DEF Renamed
  <1> QED  BY <1>5, <1>6, <1>7

LEMMA HandsDescends ==
  ASSUME NEW T, NEW who, NEW age, Line(T, who, age), NEW rs \in Seq(Entry), Renews(T, who, age, rs),
         NEW i \in 1..Len(rs), NEW m, NEW n, Descends(T, who, age, m), Fits(who, age, m, rs),
         Renamed(who, m, rs, i - 1), NEW h, Hands(m, n, rs[i], h)
  PROVE  Descends(T, who, age, n) /\ Fits(who, age, n, rs) /\ Renamed(who, n, rs, i)
  <1> DEFINE f == rs[i].from
             t == rs[i].to
  <1>1. f \in T /\ who[f] = f /\ t \in T /\ who[t] = f /\ age[f] < age[t]  BY DEF Renews
  <1>2. /\ h \in Build!Holders(m, rs[i]) /\ h \in DOMAIN m.ids /\ t \notin DOMAIN m.ids
        /\ DOMAIN n.ids = (DOMAIN m.ids \ {h}) \cup {t}
        /\ \A x \in DOMAIN n.ids : n.ids[x] = IF x = t THEN m.ids[h] ELSE m.ids[x]
        /\ DOMAIN n.prev = (DOMAIN m.prev \ {h}) \cup {t}
        /\ \A x : Build!Past(n, x) = IF x = t THEN Build!Past(m, x) \cup Build!Past(m, h) \cup {h}
                                     ELSE IF x = h THEN {} ELSE Build!Past(m, x)
    BY DEF Hands
  <1>3. who[h] = f /\ h # t /\ h \in T /\ (h = f \/ f \in Build!Past(m, h))
    <2>1. h = f \/ f \in Build!Past(m, h)  BY <1>2 DEF Build!Holders
    <2>2. f \in Build!Past(m, h) => who[h] = f  BY <1>1, PastIsInDomain DEF Descends
    <2> QED  BY <1>1, <1>2, <2>1, <2>2 DEF Descends
  <1>4. age[h] < age[t]
    <2>1. age[h] <= age[t]  BY <1>2, <1>3 DEF Fits
    <2>2. age[h] # age[t] /\ age[h] \in Nat /\ age[t] \in Nat  BY <1>1, <1>3 DEF Line
    <2> QED  BY <2>1, <2>2
  <1>5. \A k \in DOMAIN m.ids : who[k] = f => k = h  BY <1>2, <1>3 DEF Descends
  <1>6. \A x \in T : age[x] \in Nat  BY DEF Line
  <1>7. Descends(T, who, age, n)
    <2>1. \A k \in DOMAIN n.prev : \A j \in Build!Past(n, k) :
            j \in T /\ who[j] = who[k] /\ age[j] < age[k]
      <3> SUFFICES ASSUME NEW k \in DOMAIN n.prev, NEW j \in Build!Past(n, k)
                   PROVE  j \in T /\ who[j] = who[k] /\ age[j] < age[k]
        OBVIOUS
      <3>1. CASE k = t /\ j = h  BY <1>1, <1>3, <1>4, <3>1
      <3>2. CASE k = t /\ j \in Build!Past(m, h)
        <4>1. h \in DOMAIN m.prev  BY <3>2, PastIsInDomain
        <4>2. j \in T /\ who[j] = who[h] /\ age[j] < age[h]  BY <3>2, <4>1 DEF Descends
        <4> QED  BY <1>1, <1>3, <1>4, <1>6, <3>2, <4>2
      <3>3. CASE j \in Build!Past(m, k)
        <4>1. k \in DOMAIN m.prev  BY <3>3, PastIsInDomain
        <4> QED  BY <3>3, <4>1 DEF Descends
      <3>4. \/ k = t /\ j = h
            \/ k = t /\ j \in Build!Past(m, h)
            \/ j \in Build!Past(m, k)
        <4>1. CASE k = t  BY <1>2, <4>1
        <4>2. CASE k # t  BY <1>2, <4>2
        <4> QED  BY <4>1, <4>2
      <3> QED  BY <3>1, <3>2, <3>3, <3>4
    <2>2. \A k \in DOMAIN n.prev : Build!Past(n, k) # {}
      <3> SUFFICES ASSUME NEW k \in DOMAIN n.prev PROVE Build!Past(n, k) # {}  OBVIOUS
      <3>1. CASE k = t  BY <1>2, <3>1
      <3>2. CASE k # t
        <4>1. k \in DOMAIN m.prev /\ k # h  BY <1>2, <3>2
        <4>2. Build!Past(n, k) = Build!Past(m, k)  BY <1>2, <3>2, <4>1
        <4> QED  BY <4>1, <4>2 DEF Descends
      <3> QED  BY <3>1, <3>2
    <2>3. DOMAIN n.ids \subseteq T /\ DOMAIN n.prev \subseteq T  BY <1>1, <1>2 DEF Descends
    <2>4. \A k \in DOMAIN n.ids : who[k] = k \/ who[k] \in Build!Past(n, k)
      <3> SUFFICES ASSUME NEW k \in DOMAIN n.ids PROVE who[k] = k \/ who[k] \in Build!Past(n, k)
        OBVIOUS
      <3>1. CASE k = t
        <4>1. Build!Past(m, h) \cup {h} \subseteq Build!Past(n, k)  BY <1>2, <3>1
        <4> QED  BY <1>1, <1>3, <3>1, <4>1
      <3>2. CASE k # t
        <4>1. k \in DOMAIN m.ids /\ k # h  BY <1>2, <3>2
        <4>2. Build!Past(n, k) = Build!Past(m, k)  BY <1>2, <3>2, <4>1
        <4> QED  BY <4>1, <4>2 DEF Descends
      <3> QED  BY <3>1, <3>2
    <2>5. \A j, k \in DOMAIN n.ids : who[j] = who[k] \/ n.ids[j] = n.ids[k] => j = k
      <3> SUFFICES ASSUME NEW j \in DOMAIN n.ids, NEW k \in DOMAIN n.ids,
                          who[j] = who[k] \/ n.ids[j] = n.ids[k]
                   PROVE  j = k
        OBVIOUS
      <3> DEFINE was(x) == IF x = t THEN h ELSE x
      <3>1. \A x \in DOMAIN n.ids : was(x) \in DOMAIN m.ids /\ n.ids[x] = m.ids[was(x)]
        BY <1>2
      <3>2. \A x \in DOMAIN n.ids : who[was(x)] = who[x]  BY <1>1, <1>3
      <3>3. was(j) = was(k)
        <4> HIDE DEF was
        <4> QED  BY <3>1, <3>2 DEF Descends
      <3>4. \A x \in DOMAIN n.ids : x # h  BY <1>2, <1>3
      <3> QED  BY <3>3, <3>4
    <2> QED  BY <2>1, <2>2, <2>3, <2>4, <2>5 DEF Descends
  <1>8. Fits(who, age, n, rs)
    <2>1. ASSUME NEW k \in DOMAIN n.ids
          PROVE  who[k] = k \/ \E j \in 1..Len(rs) : who[k] = rs[j].from
      <3>1. CASE k = t  BY <1>1, <3>1
      <3>2. CASE k \in DOMAIN m.ids  BY <3>2 DEF Fits
      <3> QED  BY <1>2, <3>1, <3>2
    <2>2. ASSUME NEW j \in 1..Len(rs), NEW k \in DOMAIN n.ids, who[k] = rs[j].from
          PROVE  age[k] <= age[rs[j].to]
      <3>1. CASE k = t
        <4>1. j = i  BY <1>1, <2>2, <3>1 DEF Renews, OneEach
        <4>2. age[t] \in Nat  BY <1>1, <1>6
        <4> QED  BY <3>1, <4>1, <4>2
      <3>2. CASE k \in DOMAIN m.ids  BY <2>2, <3>2 DEF Fits
      <3> QED  BY <1>2, <3>1, <3>2
    <2> QED  BY <2>1, <2>2 DEF Fits
  <1>9. Renamed(who, n, rs, i)
    <2>0. /\ \A j \in 1..i : j = i \/ j \in 1..(i - 1)
          /\ 1..(i - 1) \subseteq 1..i /\ \A j \in 1..(i - 1) : j # i /\ j \in 1..Len(rs)
      OBVIOUS
    <2>1. ASSUME NEW j \in 1..i
          PROVE  /\ \A k \in DOMAIN n.ids : who[k] = rs[j].from => k = rs[j].to
                 /\ rs[j].from \in Build!Past(n, rs[j].to)
      <3>1. CASE j = i
        <4>1. \A k \in DOMAIN n.ids : who[k] = f => k = t  BY <1>2, <1>5
        <4>2. Build!Past(m, h) \cup {h} \subseteq Build!Past(n, t)  BY <1>2
        <4> QED  BY <1>3, <3>1, <4>1, <4>2
      <3>2. CASE j \in 1..(i - 1)
        <4>1. rs[j].from # f  BY <2>0, <3>2 DEF Renews, OneEach
        <4>2. who[rs[j].to] = rs[j].from  BY <2>0, <3>2 DEF Renews
        <4>3. rs[j].to # h /\ rs[j].to # t  BY <1>1, <1>3, <4>1, <4>2
        <4>4. Build!Past(n, rs[j].to) = Build!Past(m, rs[j].to)  BY <1>2, <4>3
        <4>5. \A k \in DOMAIN n.ids : who[k] = rs[j].from => k \in DOMAIN m.ids
          BY <1>1, <1>2, <4>1
        <4> QED  BY <3>2, <4>4, <4>5 DEF Renamed
      <3> QED  BY <2>0, <3>1, <3>2
    <2>2. ASSUME NEW k \in DOMAIN n.prev
          PROVE  k \in DOMAIN n.ids \/ \E j \in 1..i : k = rs[j].to
      <3>1. CASE k = t  BY <1>2, <3>1
      <3>2. CASE k \in DOMAIN m.prev /\ k # h
        <4>1. k \in DOMAIN m.ids \/ \E j \in 1..(i - 1) : k = rs[j].to  BY <3>2 DEF Renamed
        <4> QED  BY <1>2, <2>0, <3>2, <4>1
      <3> QED  BY <1>2, <3>1, <3>2
    <2> QED  BY <2>1, <2>2 DEF Renamed
  <1> QED  BY <1>7, <1>8, <1>9

(* After all the renames: no id is lost, whatever the lists say.           *)
LEMMA MovesKeep ==
  ASSUME KeysAreNumbers, NEW l, IsLock(l), NEW rs \in Seq(Entry),
         Build!Moves(l, rs)[Len(rs)].ok
  PROVE  IsLock(Build!Moves(l, rs)[Len(rs)]) /\ Keeps(l, Build!Moves(l, rs)[Len(rs)])
  <1> DEFINE m == Build!Moves(l, rs)
             Good(x) == x.ok => IsLock(x) /\ Keeps(l, x)
             G == {i \in 0..Len(rs) : Good(m[i])}
  <1>0. Len(rs) \in Nat  OBVIOUS
  <1>1. m[0] = Began(l) /\ \A i \in 1..Len(rs) : m[i] = Build!Move(m[i - 1], rs[i])
    BY <1>0, MovesAre
  <1>2. Good(Began(l))
    <2> DEFINE b == Began(l)
    <2>1. b.ids = l.ids /\ b.prev = l.prev  BY DEF Began
    <2> HIDE DEF b
    <2>2. IsLock(b)  BY <2>1 DEF IsLock
    <2>3. Keeps(l, b)  BY <2>1 DEF Keeps, Build!Past
    <2> QED  BY <2>2, <2>3 DEF b
  <1>3. ASSUME NEW x, Good(x), NEW r \in Entry PROVE Good(Build!Move(x, r))
    <2> DEFINE y == Build!Move(x, r)
    <2> SUFFICES ASSUME y.ok PROVE IsLock(y) /\ Keeps(l, y)  OBVIOUS
    <2>1. x.ok  BY DEF Build!Move
    <2>2. IsLock(x) /\ Keeps(l, x)  BY <1>3, <2>1, Zenon
    <2>3. (Notes(x, y, r) \/ \E h : Hands(x, y, r, h)) /\ IsLock(y)  BY <2>2, MoveIs
    <2> QED  BY <2>2, <2>3, MovedKeeps
  <1> HIDE DEF m, Good
  <1>4. ASSUME NEW i \in 0..(Len(rs) - 1), i \in G PROVE i + 1 \in G
    <2>1. i + 1 \in 1..Len(rs) /\ (i + 1) - 1 = i /\ i + 1 \in 0..Len(rs)  BY <1>0
    <2>2. m[i + 1] = Build!Move(m[i], rs[i + 1])  BY <1>1, <2>1
    <2>3. Good(m[i])  BY <1>4
    <2>4. rs[i + 1] \in Entry  BY <2>1
    <2>5. Good(m[i + 1])  BY <1>3, <2>2, <2>3, <2>4
    <2> QED  BY <2>1, <2>5
  <1>5. 0 \in G  BY <1>0, <1>1, <1>2
  <1>6. Len(rs) \in G
    <2> DEFINE n == Len(rs)
    <2>1. n \in Nat /\ \A i \in 0..(n - 1) : i \in G => i + 1 \in G  BY <1>0, <1>4
    <2> HIDE DEF G, n
    <2>2. n \in G  BY <1>5, <2>1, StepByStep
    <2> QED  BY <2>2 DEF n
  <1>7. Good(m[Len(rs)])  BY <1>6
  <1> QED  BY <1>7, Zenon DEF Good, m

(* If nobody was careless, everyone in the lock is there once, by the key  *)
(* the list gives.                                                         *)
LEMMA MovesDescend ==
  ASSUME KeysAreNumbers, NEW T, NEW who, NEW age, Line(T, who, age),
         NEW l, IsLock(l), Descends(T, who, age, l), DOMAIN l.prev \subseteq DOMAIN l.ids,
         NEW rs \in Seq(Entry), Renews(T, who, age, rs), Fits(who, age, l, rs),
         Build!Moves(l, rs)[Len(rs)].ok
  PROVE  /\ Descends(T, who, age, Build!Moves(l, rs)[Len(rs)])
         /\ Fits(who, age, Build!Moves(l, rs)[Len(rs)], rs)
         /\ Renamed(who, Build!Moves(l, rs)[Len(rs)], rs, Len(rs))
  <1> DEFINE m == Build!Moves(l, rs)
             Stands(x, i) == Descends(T, who, age, x) /\ Fits(who, age, x, rs) /\ Renamed(who, x, rs, i)
             Good(x, i) == x.ok => IsLock(x) /\ Stands(x, i)
             G == {i \in 0..Len(rs) : Good(m[i], i)}
  <1>0. Len(rs) \in Nat  OBVIOUS
  <1>1. m[0] = Began(l) /\ \A i \in 1..Len(rs) : m[i] = Build!Move(m[i - 1], rs[i])
    BY <1>0, MovesAre
  <1>2. Good(Began(l), 0)
    <2> DEFINE b == Began(l)
    <2>1. b.ids = l.ids /\ b.prev = l.prev  BY DEF Began
    <2> HIDE DEF b
    <2>2. IsLock(b)  BY <2>1 DEF IsLock
    <2>3. \A k : Build!Past(b, k) = Build!Past(l, k)  BY <2>1 DEF Build!Past
    <2>4. Descends(T, who, age, b)  BY <2>1, <2>3 DEF Descends
    <2>5. Fits(who, age, b, rs)  BY <2>1 DEF Fits
    <2>6. Renamed(who, b, rs, 0)  BY <2>1 DEF Renamed
    <2> QED  BY <2>2, <2>4, <2>5, <2>6 DEF b
  <1>3. ASSUME NEW i \in 1..Len(rs), NEW x, Good(x, i - 1) PROVE Good(Build!Move(x, rs[i]), i)
    <2> DEFINE r == rs[i]
               y == Build!Move(x, r)
    <2> SUFFICES ASSUME y.ok PROVE IsLock(y) /\ Stands(y, i)  OBVIOUS
    <2>1. x.ok  BY DEF Build!Move
    <2>2. IsLock(x) /\ Stands(x, i - 1)
      <3> HIDE DEF Stands
      <3> QED  BY <1>3, <2>1, Zenon
    <2>3. r \in Entry  OBVIOUS
    <2>4. (Notes(x, y, r) \/ \E h : Hands(x, y, r, h)) /\ IsLock(y)
      <3> HIDE DEF r
      <3> QED  BY <2>2, <2>3, MoveIs
    <2> HIDE DEF y
    <2>5. CASE Notes(x, y, r)  BY <2>2, <2>4, <2>5, NotesDescends
    <2>6. ASSUME NEW h, Hands(x, y, r, h) PROVE Stands(y, i)  BY <2>2, <2>6, HandsDescends
    <2> QED  BY <2>4, <2>5, <2>6
  <1> HIDE DEF m, Good
  <1>4. ASSUME NEW i \in 0..(Len(rs) - 1), i \in G PROVE i + 1 \in G
    <2>1. i + 1 \in 1..Len(rs) /\ (i + 1) - 1 = i /\ i + 1 \in 0..Len(rs)  BY <1>0
    <2>2. m[i + 1] = Build!Move(m[i], rs[i + 1])  BY <1>1, <2>1
    <2>3. Good(m[i], (i + 1) - 1)  BY <1>4, <2>1
    <2>5. Good(m[i + 1], i + 1)  BY <1>3, <2>1, <2>2, <2>3
    <2> QED  BY <2>1, <2>5
  <1>5. 0 \in G  BY <1>0, <1>1, <1>2
  <1>6. Len(rs) \in G
    <2> DEFINE n == Len(rs)
    <2>1. n \in Nat /\ \A i \in 0..(n - 1) : i \in G => i + 1 \in G  BY <1>0, <1>4
    <2> HIDE DEF G, n
    <2>2. n \in G  BY <1>5, <2>1, StepByStep
    <2> QED  BY <2>2 DEF n
  <1>7. Good(m[Len(rs)], Len(rs))  BY <1>6
  <1>8. IsLock(m[Len(rs)]) /\ Stands(m[Len(rs)], Len(rs))
    <2> HIDE DEF Stands
    <2> QED  BY <1>7, Zenon DEF Good, m
  <1> QED  BY <1>8 DEF m

(* A finite set of numbers that is not empty has a greatest.               *)
LEMMA HasGreatest ==
  ASSUME NEW S \in SUBSET Nat, S # {}, IsFiniteSet(S)
  PROVE  \E x \in S : \A y \in S : y <= x
  <1> DEFINE Bad(A) == A # {} /\ ~ \E x \in A : \A y \in A : y <= x
             T == {n \in Nat : \E A \in SUBSET S : Bad(A) /\ Cardinality(A) = n}
  <1> SUFFICES ASSUME Bad(S) PROVE FALSE  OBVIOUS
  <1>1. Cardinality(S) \in T  BY FS_CardinalityType
  <1>2. T \in SUBSET Nat /\ T # {}  BY <1>1
  <1>3. PICK n \in T : \A k \in T : n <= k
    <2> HIDE DEF T
    <2> QED  BY <1>2, LeastNumber
  <1>4. PICK A \in SUBSET S : Bad(A) /\ Cardinality(A) = n  BY <1>3
  <1>5. IsFiniteSet(A)  BY FS_Subset
  <1>6. PICK a \in A : TRUE  BY <1>4
  <1> DEFINE B == A \ {a}
  <1>7. Cardinality(B) = n - 1 /\ Cardinality(B) \in Nat
    BY <1>4, <1>5, <1>6, FS_RemoveElement, FS_CardinalityType
  <1>8. ~Bad(B)
    <2>1. Cardinality(B) \notin T
      <3> DEFINE k == Cardinality(B)
      <3>1. k = n - 1 /\ k \in Nat /\ n \in Nat  BY <1>7
      <3> HIDE DEF k, T
      <3>2. k \in T => n <= k  BY <1>3
      <3>3. k \notin T  BY <3>1, <3>2
      <3> QED  BY <3>3 DEF k
    <2>2. B \in SUBSET S  OBVIOUS
    <2> HIDE DEF B, Bad
    <2> QED  BY <1>7, <2>1, <2>2
  <1>9. \A y \in A : y \in Nat  OBVIOUS
  <1>10. CASE B = {}
    <2>1. A = {a}  BY <1>6, <1>10
    <2>2. \A y \in A : y <= a  BY <1>9, <2>1
    <2> QED  BY <1>4, <1>6, <2>2
  <1>11. CASE B # {}
    <2>1. PICK x \in B : \A y \in B : y <= x  BY <1>8, <1>11
    <2>2. CASE a <= x
      <3>1. \A y \in A : y <= x  BY <2>1, <2>2
      <3> QED  BY <1>4, <3>1
    <2>3. CASE x < a
      <3>1. \A y \in A : y <= a  BY <1>9, <2>1, <2>3
      <3> QED  BY <1>4, <1>6, <3>1
    <2> QED  BY <1>9, <2>2, <2>3
  <1> QED  BY <1>10, <1>11

LEMMA HighestIs ==
  ASSUME NEW ids, IsFiniteSet(DOMAIN ids), \A k \in DOMAIN ids : ids[k] \in Nat
  PROVE  Build!Highest(ids) \in Nat /\ \A k \in DOMAIN ids : ids[k] <= Build!Highest(ids)
  <1> DEFINE D == DOMAIN ids
             I == {ids[k] : k \in D}
             S == {0} \cup I
             f == [k \in D |-> ids[k]]
  <1>1. IsFiniteSet(I)
    <2>1. f \in Surjection(D, I)  BY DEF Surjection
    <2> HIDE DEF f, I
    <2> QED  BY <2>1, FS_Surjection
  <1>2. IsFiniteSet(S)
    <2> HIDE DEF I
    <2>1. IsFiniteSet({0} \cup I) <=> IsFiniteSet(I \cup {0})
      <3>1. {0} \cup I = I \cup {0}  OBVIOUS
      <3> QED  BY <3>1
    <2> QED  BY <1>1, <2>1, FS_AddElement
  <1>3. S \in SUBSET Nat /\ S # {}  OBVIOUS
  <1>4. \A k \in D : ids[k] \in S  OBVIOUS
  <1>5. \E x \in S : \A y \in S : y <= x
    <2> HIDE DEF S
    <2> QED  BY <1>2, <1>3, HasGreatest
  <1>6. Build!Max(S) \in S /\ \A y \in S : Build!Max(S) >= y
    <2>1. \E x \in S : \A y \in S : x >= y
      <3>1. \A x, y \in S : y <= x => x >= y  BY <1>3
      <3> HIDE DEF S
      <3> QED  BY <1>5, <3>1
    <2> HIDE DEF S
    <2> QED  BY <2>1 DEF Build!Max
  <1>7. Build!Highest(ids) = Build!Max(S)  BY DEF Build!Highest
  <1> HIDE DEF S
  <1> QED  BY <1>3, <1>4, <1>6, <1>7

(* The new keys are told apart by their place.                             *)
LEMMA SameSize == ASSUME NEW S PROVE Build!Cardinality(S) = Cardinality(S)
  BY DEF Build!Cardinality, Cardinality

LEMMA BuildPlaces ==
  ASSUME NEW in, NEW new \in SUBSET Nat, IsFiniteSet(new)
  PROVE  /\ \A k \in new : Build!Place(in, new, k) \in Nat /\ Build!Place(in, new, k) > 0
         /\ \A j, k \in new : Build!Place(in, new, j) = Build!Place(in, new, k) => j = k
  <1> DEFINE Upto(k) == {j \in new : Build!Before(in, j, k)}
  <1>1. \A k \in new : Build!Place(in, new, k) = Cardinality(Upto(k))
    BY SameSize DEF Build!Place
  <1>2. \A j, k, x \in new :
          /\ Build!Before(in, k, k)
          /\ j = k \/ ~Build!Before(in, j, k) \/ ~Build!Before(in, k, j)
          /\ Build!Before(in, j, k) \/ Build!Before(in, k, j)
          /\ Build!Before(in, x, j) /\ Build!Before(in, j, k) => Build!Before(in, x, k)
    <2>1. \A j, k, x \in new : j \in Nat /\ k \in Nat /\ x \in Nat  OBVIOUS
    <2> DEFINE L == Build!LandKeys(in)
    <2>2. \A j, k \in new : Build!Before(in, j, k) <=>
            IF j \in L THEN k \in L => j <= k ELSE k \notin L /\ j <= k
      BY DEF Build!Before
    <2> HIDE DEF L
    <2> QED  BY <2>1, <2>2
  <1>3. \A k \in new : IsFiniteSet(Upto(k)) /\ Cardinality(Upto(k)) \in Nat /\ k \in Upto(k)
    BY <1>2, FS_Subset, FS_CardinalityType
  <1>4. ASSUME NEW k \in new PROVE Cardinality(Upto(k)) > 0
    <2> DEFINE S == Upto(k)
    <2>1. IsFiniteSet(S) /\ Cardinality(S) \in Nat /\ S # {}  BY <1>3
    <2> HIDE DEF S
    <2>2. Cardinality(S) # 0  BY <2>1, FS_EmptySet
    <2>3. Cardinality(S) > 0  BY <2>1, <2>2
    <2> QED  BY <2>3 DEF S
  <1>5. ASSUME NEW j \in new, NEW k \in new, Build!Before(in, j, k), j # k
        PROVE  Cardinality(Upto(j)) # Cardinality(Upto(k))
    <2> DEFINE S == Upto(j)
               U == Upto(k)
    <2>1. S \subseteq U  BY <1>2, <1>5
    <2>2. k \in U /\ k \notin S  BY <1>2, <1>5
    <2>3. IsFiniteSet(U)  BY <1>3
    <2> HIDE DEF S, U
    <2>4. Cardinality(U) = Cardinality(S) => U = S  BY <2>1, <2>3, FS_Subset
    <2>5. Cardinality(S) # Cardinality(U)  BY <2>2, <2>4
    <2> QED  BY <2>5 DEF S, U
  <1> HIDE DEF Upto
  <1>6. \A j, k \in new : Build!Place(in, new, j) = Build!Place(in, new, k) => j = k
    BY <1>1, <1>2, <1>5
  <1>7. \A k \in new : Build!Place(in, new, k) \in Nat /\ Build!Place(in, new, k) > 0
    BY <1>1, <1>3, <1>4
  <1> QED  BY <1>6, <1>7

(* What the list calls a province of the source.                           *)
LEMMA KeyOfIs ==
  ASSUME NEW in, in.renames \in Seq(Entry), NEW n
  PROVE  /\ \/ n \notin Build!From(in.renames) /\ Build!KeyOf(in, n) = n
            \/ \E i \in 1..Len(in.renames) :
                 in.renames[i].from = n /\ Build!KeyOf(in, n) = in.renames[i].to
         /\ OneEach(in.renames) =>
              \A i \in 1..Len(in.renames) :
                in.renames[i].from = n => Build!KeyOf(in, n) = in.renames[i].to
  <1> DEFINE rs == in.renames
             I == {j \in 1..Len(rs) : rs[j].from = n}
  <1>1. Build!KeyOf(in, n) = IF I = {} THEN n ELSE rs[Build!Min(I)].to  BY DEF Build!KeyOf
  <1>2. I \in SUBSET Nat  OBVIOUS
  <1>3. I = {} <=> n \notin Build!From(rs)  BY DEF Build!From
  <1>4. I # {} => Build!Min(I) \in I
    <2> HIDE DEF I
    <2> QED  BY <1>2, MinIsLeast
  <1>5. \A i \in I : i \in 1..Len(rs) /\ rs[i].from = n  OBVIOUS
  <1>6. ASSUME OneEach(rs), NEW i \in 1..Len(rs), rs[i].from = n PROVE Build!KeyOf(in, n) = rs[i].to
    <2>1. i \in I  BY <1>6
    <2>2. Build!Min(I) = i
      <3> HIDE DEF I
      <3> QED  BY <1>4, <1>5, <1>6, <2>1 DEF OneEach
    <2> QED  BY <1>1, <2>1, <2>2
  <1> HIDE DEF I
  <1> QED  BY <1>1, <1>3, <1>4, <1>5, <1>6

LEMMA KeysAreKeys ==
  ASSUME NEW in \in Inputs
  PROVE  Build!Keys(in) \subseteq BuildKey /\ in.renames \in Seq(Entry)
  <1>1. in.renames \in Seq(Entry) /\ in.include \subseteq Name /\ in.fresh \subseteq Spare
        /\ in.seas \subseteq Sea
    BY DEF Inputs
  <1>2. ASSUME NEW n \in in.include PROVE Build!KeyOf(in, n) \in BuildKey
    <2>1. n \in BuildKey  BY <1>1 DEF BuildKey
    <2>2. \A i \in 1..Len(in.renames) : in.renames[i].to \in BuildKey
      <3>1. \A i \in 1..Len(in.renames) : in.renames[i] \in Entry  BY <1>1
      <3> QED  BY <3>1 DEF Entry, BuildKey
    <2> QED  BY <1>1, <2>1, <2>2, KeyOfIs
  <1>3. Build!Keys(in) = {Build!KeyOf(in, n) : n \in in.include} \cup in.fresh \cup in.seas
    BY DEF Build!Keys, Build!LandKeys
  <1> QED  BY <1>1, <1>2, <1>3 DEF BuildKey

(* The lock a run writes: the keys that had an id keep it, the others get  *)
(* ids nobody has.                                                         *)
GivesIds(m, in, a) ==
  /\ DOMAIN a.ids = DOMAIN m.ids \cup Build!Keys(in)
  /\ \A k \in DOMAIN m.ids : a.ids[k] = m.ids[k]
  /\ \A k \in Build!Keys(in) \ DOMAIN m.ids :
       a.ids[k] \in Nat /\ \A j \in DOMAIN m.ids : m.ids[j] < a.ids[k]
  /\ \A j, k \in Build!Keys(in) \ DOMAIN m.ids : a.ids[j] = a.ids[k] => j = k
  /\ a.prev = m.prev /\ \A k : Build!Past(a, k) = Build!Past(m, k)

LEMMA AssignIs ==
  ASSUME KeysAreNumbers, NEW l, IsLock(l), NEW in \in Inputs, Build!Assigned(l, in).ok,
         NEW m, m = Build!Moves(l, in.renames)[Len(in.renames)],
         NEW a, a = Build!LockOf(Build!Assigned(l, in))
  PROVE  m.ok /\ IsLock(m) /\ GivesIds(m, in, a) /\ IsLock(a) /\ Keeps(l, a)
  <1> DEFINE new == Build!Keys(in) \ DOMAIN m.ids
             top == Build!Highest(m.ids)
             ids == [k \in DOMAIN m.ids \cup new |->
                       IF k \in new THEN top + Build!Place(in, new, k) ELSE m.ids[k]]
             all == Build!Assigned(l, in)
  <1>1. all = [ok |-> m.ok /\ DOMAIN m.ids \subseteq Build!Keys(in) \cup in.exclude,
               ids |-> ids, prev |-> m.prev]
    BY DEF Build!Assigned
  <1>2. m.ok
    <2>1. all.ok = (m.ok /\ DOMAIN m.ids \subseteq Build!Keys(in) \cup in.exclude)
      <3> HIDE DEF all, ids
      <3> QED  BY <1>1
    <2>2. all.ok  OBVIOUS
    <2> HIDE DEF all
    <2> QED  BY <2>1, <2>2, Zenon
  <1>3. Build!Keys(in) \subseteq BuildKey /\ in.renames \in Seq(Entry)  BY KeysAreKeys
  <1>4. IsLock(m) /\ Keeps(l, m)  BY <1>2, <1>3, MovesKeep
  <1>5. BuildKey \subseteq Nat /\ IsFiniteSet(BuildKey)  BY DEF KeysAreNumbers, BuildKey
  <1>6. IsFiniteSet(new) /\ new \in SUBSET Nat  BY <1>3, <1>5, FS_Subset
  <1>7. IsFiniteSet(DOMAIN m.ids)  BY <1>4, <1>5, FS_Subset DEF IsLock
  <1>8. \A k \in DOMAIN m.ids : m.ids[k] \in Nat  BY <1>4 DEF IsLock
  <1>9. top \in Nat /\ \A k \in DOMAIN m.ids : m.ids[k] <= top  BY <1>7, <1>8, HighestIs
  <1>10. /\ \A k \in new : Build!Place(in, new, k) \in Nat /\ Build!Place(in, new, k) > 0
         /\ \A j, k \in new : Build!Place(in, new, j) = Build!Place(in, new, k) => j = k
    <2> HIDE DEF new
    <2> QED  BY <1>6, BuildPlaces
  <1>11. a.ids = ids /\ a.prev = m.prev
    <2>1. all.ids = ids /\ all.prev = m.prev
      <3> HIDE DEF all, ids
      <3> QED  BY <1>1
    <2> HIDE DEF all, ids
    <2>2. a = [ids |-> all.ids, prev |-> all.prev]  BY DEF Build!LockOf, all
    <2> QED  BY <2>1, <2>2
  <1>12. /\ DOMAIN ids = DOMAIN m.ids \cup Build!Keys(in)
         /\ \A k \in DOMAIN m.ids : ids[k] = m.ids[k]
         /\ \A k \in new : ids[k] = top + Build!Place(in, new, k)
    OBVIOUS
  <1> HIDE DEF ids
  <1>13. \A k \in new : ids[k] \in Nat /\ \A j \in DOMAIN m.ids : m.ids[j] < ids[k]
    <2> HIDE DEF new, top
    <2> QED  BY <1>8, <1>9, <1>10, <1>12
  <1>14. \A j, k \in new : ids[j] = ids[k] => j = k
    <2> HIDE DEF new, top
    <2> QED  BY <1>9, <1>10, <1>12
  <1>15. \A k : Build!Past(a, k) = Build!Past(m, k)  BY <1>11 DEF Build!Past
  <1>16. IsLock(a)
    <2>1. DOMAIN a.ids \subseteq BuildKey /\ DOMAIN a.prev \subseteq BuildKey
      BY <1>3, <1>4, <1>11, <1>12 DEF IsLock
    <2>2. ASSUME NEW k \in DOMAIN a.ids PROVE a.ids[k] \in Nat
      <3>1. k \in DOMAIN m.ids \/ k \in new  BY <1>11, <1>12
      <3> HIDE DEF new
      <3> QED  BY <1>8, <1>11, <1>12, <1>13, <3>1
    <2> QED  BY <2>1, <2>2 DEF IsLock
  <1>17. Keeps(l, a)
    <2> SUFFICES ASSUME NEW k \in DOMAIN l.ids
                 PROVE  \E j \in DOMAIN a.ids :
                          /\ a.ids[j] = l.ids[k] /\ (j = k \/ k \in Build!Past(a, j))
                          /\ Build!Past(l, k) \subseteq Build!Past(a, j)
      BY DEF Keeps
    <2>1. PICK j \in DOMAIN m.ids :
            /\ m.ids[j] = l.ids[k] /\ (j = k \/ k \in Build!Past(m, j))
            /\ Build!Past(l, k) \subseteq Build!Past(m, j)
      BY <1>4 DEF Keeps
    <2>2. j \in DOMAIN a.ids /\ a.ids[j] = m.ids[j] /\ Build!Past(a, j) = Build!Past(m, j)
      BY <1>11, <1>12, <1>15
    <2> QED  BY <2>1, <2>2
  <1>18. GivesIds(m, in, a)  BY <1>11, <1>12, <1>13, <1>14, <1>15 DEF GivesIds
  <1> QED  BY <1>2, <1>4, <1>16, <1>17, <1>18

(* Inputs nobody was careless with.                                        *)
Sane(T, who, age, in) ==
  /\ \A k \in in.include \cup in.exclude \cup in.fresh \cup in.seas : k \in T /\ who[k] = k
  /\ \A i \in 1..Len(in.renames) : in.renames[i].from \in in.include
  /\ Renews(T, who, age, in.renames)

(* Whose key it is.                                                        *)
LEMMA SaneKeys ==
  ASSUME NEW T, NEW who, NEW age, NEW in \in Inputs, Sane(T, who, age, in)
  PROVE  /\ Build!Keys(in) \subseteq T
         /\ \A i \in 1..Len(in.renames) : in.renames[i].to \in Build!Keys(in)
         /\ \A n \in in.include : who[Build!KeyOf(in, n)] = n
         /\ \A k \in Build!Keys(in) :
              \/ k \in in.fresh \cup in.seas /\ who[k] = k
              \/ k \in in.include /\ who[k] = k /\ k \notin Build!From(in.renames)
              \/ \E i \in 1..Len(in.renames) : k = in.renames[i].to /\ who[k] = in.renames[i].from
  <1> DEFINE rs == in.renames
  <1>1. rs \in Seq(Entry)  BY KeysAreKeys
  <1>2. /\ OneEach(rs)
        /\ \A i \in 1..Len(rs) : /\ rs[i].from \in in.include
                                 /\ rs[i].to \in T /\ who[rs[i].to] = rs[i].from
    BY DEF Sane, Renews
  <1>3. \A n : /\ \/ n \notin Build!From(rs) /\ Build!KeyOf(in, n) = n
                  \/ \E i \in 1..Len(rs) : rs[i].from = n /\ Build!KeyOf(in, n) = rs[i].to
               /\ \A i \in 1..Len(rs) : rs[i].from = n => Build!KeyOf(in, n) = rs[i].to
    BY <1>1, <1>2, KeyOfIs
  <1>4. Build!Keys(in) = {Build!KeyOf(in, n) : n \in in.include} \cup in.fresh \cup in.seas
    BY DEF Build!Keys, Build!LandKeys
  <1>5. \A k \in in.include \cup in.exclude \cup in.fresh \cup in.seas : k \in T /\ who[k] = k
    BY DEF Sane
  <1> HIDE DEF rs
  <1>6. \A n \in in.include : Build!KeyOf(in, n) \in T /\ who[Build!KeyOf(in, n)] = n
    BY <1>2, <1>3, <1>5
  <1>7. Build!Keys(in) \subseteq T  BY <1>4, <1>5, <1>6
  <1>8. \A i \in 1..Len(rs) : rs[i].to \in Build!Keys(in)  BY <1>2, <1>3, <1>4
  <1>9. ASSUME NEW k \in Build!Keys(in)
        PROVE  \/ k \in in.fresh \cup in.seas /\ who[k] = k
               \/ k \in in.include /\ who[k] = k /\ k \notin Build!From(rs)
               \/ \E i \in 1..Len(rs) : k = rs[i].to /\ who[k] = rs[i].from
    <2>1. CASE k \in in.fresh \cup in.seas  BY <1>5, <2>1
    <2>2. ASSUME NEW n \in in.include, k = Build!KeyOf(in, n)
          PROVE  \/ k \in in.include /\ who[k] = k /\ k \notin Build!From(rs)
                 \/ \E i \in 1..Len(rs) : k = rs[i].to /\ who[k] = rs[i].from
      BY <1>2, <1>3, <1>5, <2>2
    <2> QED  BY <1>4, <2>1, <2>2
  <1> QED  BY <1>6, <1>7, <1>8, <1>9 DEF rs

(* What a run makes of a lock and inputs nobody was careless with is such  *)
(* a lock again.                                                           *)
LEMMA AssignDescends ==
  ASSUME KeysAreNumbers, NEW T, NEW who, NEW age, Line(T, who, age),
         NEW l, IsLock(l), Descends(T, who, age, l), DOMAIN l.prev \subseteq DOMAIN l.ids,
         NEW in \in Inputs, Sane(T, who, age, in), Fits(who, age, l, in.renames),
         Build!Assigned(l, in).ok,
         NEW a, a = Build!LockOf(Build!Assigned(l, in))
  PROVE  /\ Descends(T, who, age, a) /\ DOMAIN a.prev \subseteq DOMAIN a.ids
         /\ \A k \in DOMAIN a.ids : who[k] = k \/ who[k] \in Build!From(in.renames)
  <1>0. PICK m : m = Build!Moves(l, in.renames)[Len(in.renames)]  OBVIOUS
  <1> DEFINE rs == in.renames
             new == Build!Keys(in) \ DOMAIN m.ids
  <1>1. /\ m.ok /\ IsLock(m)
        /\ DOMAIN a.ids = DOMAIN m.ids \cup Build!Keys(in)
        /\ \A k \in DOMAIN m.ids : a.ids[k] = m.ids[k]
        /\ \A k \in new : a.ids[k] \in Nat /\ \A j \in DOMAIN m.ids : m.ids[j] < a.ids[k]
        /\ \A j, k \in new : a.ids[j] = a.ids[k] => j = k
        /\ a.prev = m.prev /\ \A k : Build!Past(a, k) = Build!Past(m, k)
    <2>1. m.ok /\ IsLock(m) /\ GivesIds(m, in, a)  BY <1>0, AssignIs
    <2> QED  BY <2>1 DEF GivesIds
  <1>2. rs \in Seq(Entry)  BY KeysAreKeys
  <1>3. Descends(T, who, age, m) /\ Fits(who, age, m, rs) /\ Renamed(who, m, rs, Len(rs))
    BY <1>0, <1>1, <1>2, MovesDescend DEF Sane
  <1>4. /\ Build!Keys(in) \subseteq T
        /\ \A i \in 1..Len(rs) : rs[i].to \in Build!Keys(in)
        /\ \A k \in Build!Keys(in) :
              \/ k \in in.fresh \cup in.seas /\ who[k] = k
              \/ k \in in.include /\ who[k] = k /\ k \notin Build!From(rs)
              \/ \E i \in 1..Len(rs) : k = rs[i].to /\ who[k] = rs[i].from
    BY SaneKeys
  <1>5. \A i \in 1..Len(rs) : rs[i].from \in Build!From(rs) /\ rs[i].from \in in.include
    BY DEF Build!From, Sane
  <1>6. /\ in.include \subseteq Name /\ in.fresh \subseteq Spare /\ in.seas \subseteq Sea
        /\ Name \cap Spare = {} /\ Name \cap Sea = {}
    BY DEF Inputs, KeysAreNumbers
  <1> HIDE DEF rs
  <1>7. \A k \in DOMAIN m.ids : who[k] = k \/ \E i \in 1..Len(rs) : who[k] = rs[i].from
    BY <1>3 DEF Fits
  <1>8. \A i \in 1..Len(rs) :
          /\ \A k \in DOMAIN m.ids : who[k] = rs[i].from => k = rs[i].to
          /\ rs[i].from \in Build!Past(m, rs[i].to)
    BY <1>3 DEF Renamed
  <1>9. \A j, k \in DOMAIN m.ids : who[j] = who[k] \/ m.ids[j] = m.ids[k] => j = k
    BY <1>3 DEF Descends
  <1>10. ASSUME NEW j \in new, NEW k \in DOMAIN m.ids PROVE who[j] # who[k]
    <2> SUFFICES ASSUME who[j] = who[k] PROVE FALSE  OBVIOUS
    <2>1. j # k /\ j \in Build!Keys(in)  OBVIOUS
    <2>2. CASE j \in in.fresh \cup in.seas /\ who[j] = j  BY <1>5, <1>6, <1>7, <2>1, <2>2
    <2>3. CASE j \in in.include /\ who[j] = j /\ j \notin Build!From(rs)
      BY <1>5, <1>7, <2>1, <2>3
    <2>4. CASE \E i \in 1..Len(rs) : j = rs[i].to /\ who[j] = rs[i].from  BY <1>8, <2>1, <2>4
    <2> QED  BY <1>4, <2>1, <2>2, <2>3, <2>4
  <1>11. ASSUME NEW j \in new, NEW k \in new, who[j] = who[k] PROVE j = k
    <2>1. ASSUME NEW x \in new
          PROVE  \/ who[x] = x /\ x \notin Build!From(rs) /\ x \in Name
                 \/ who[x] = x /\ x \in Spare \cup Sea
                 \/ \E i \in 1..Len(rs) : x = rs[i].to /\ who[x] = rs[i].from
      BY <1>4, <1>6
    <2>2. \A i, p \in 1..Len(rs) : rs[i].from = rs[p].from => i = p
      BY DEF Sane, Renews, OneEach, rs
    <2>3. \A i \in 1..Len(rs) : rs[i].from \in Name  BY <1>5, <1>6
    <2> HIDE DEF new
    <2> QED  BY <1>5, <1>6, <1>11, <2>1, <2>2, <2>3
  <1>12. Descends(T, who, age, a)
    <2>1. DOMAIN a.ids \subseteq T /\ DOMAIN a.prev \subseteq T  BY <1>1, <1>3, <1>4 DEF Descends
    <2>2. ASSUME NEW j \in DOMAIN a.ids, NEW k \in DOMAIN a.ids,
                 who[j] = who[k] \/ a.ids[j] = a.ids[k]
          PROVE  j = k
      <3>1. \A x \in DOMAIN a.ids : x \in DOMAIN m.ids \/ x \in new  BY <1>1
      <3>2. \A x \in DOMAIN m.ids : m.ids[x] \in Nat  BY <1>1 DEF IsLock
      <3>3. \A x \in new, y \in DOMAIN m.ids : a.ids[x] # a.ids[y]
        <4> HIDE DEF new
        <4>1. \A x \in new, y \in DOMAIN m.ids :
                a.ids[x] \in Nat /\ a.ids[y] \in Nat /\ a.ids[y] < a.ids[x]
          BY <1>1, <3>2
        <4>2. \A p, q \in Nat : p < q => p # q  OBVIOUS
        <4> QED  BY <4>1, <4>2
      <3> HIDE DEF new
      <3>4. CASE j \in DOMAIN m.ids /\ k \in DOMAIN m.ids  BY <1>1, <1>9, <2>2, <3>4
      <3>5. CASE j \in new /\ k \in new  BY <1>1, <1>11, <2>2, <3>5
      <3>6. CASE j \in new /\ k \in DOMAIN m.ids  BY <1>10, <2>2, <3>3, <3>6
      <3>7. CASE j \in DOMAIN m.ids /\ k \in new  BY <1>10, <2>2, <3>3, <3>7
      <3> QED  BY <3>1, <3>4, <3>5, <3>6, <3>7
    <2>3. \A k \in DOMAIN a.prev : Build!Past(a, k) # {}  BY <1>1, <1>3 DEF Descends
    <2>4. \A k \in DOMAIN a.prev : \A j \in Build!Past(a, k) :
            j \in T /\ who[j] = who[k] /\ age[j] < age[k]
      BY <1>1, <1>3 DEF Descends
    <2>5. ASSUME NEW k \in DOMAIN a.ids PROVE who[k] = k \/ who[k] \in Build!Past(a, k)
      <3>1. CASE k \in DOMAIN m.ids  BY <1>1, <1>3, <3>1 DEF Descends
      <3>2. CASE k \in Build!Keys(in)  BY <1>1, <1>4, <1>8, <3>2
      <3> QED  BY <1>1, <3>1, <3>2
    <2> QED  BY <2>1, <2>2, <2>3, <2>4, <2>5 DEF Descends
  <1>13. DOMAIN a.prev \subseteq DOMAIN a.ids
    <2>1. \A k \in DOMAIN m.prev : k \in DOMAIN m.ids \/ \E i \in 1..Len(rs) : k = rs[i].to
      BY <1>3 DEF Renamed
    <2> QED  BY <1>1, <1>4, <2>1
  <1>14. \A k \in DOMAIN a.ids : who[k] = k \/ who[k] \in Build!From(rs)
    BY <1>1, <1>4, <1>5, <1>7
  <1> QED  BY <1>12, <1>13, <1>14 DEF rs

(***************************************************************************)
(* The invariant of the files: as long as nobody was careless, every key   *)
(* ever used has someone it stands for.                                    *)
(***************************************************************************)
Preparing == {"prepared", "assigned", "hashed"}

BuildTypes ==
  /\ inputs \in Inputs /\ IsLock(lock) /\ taken \subseteq BuildKey /\ careless \in BOOLEAN
  /\ "pc" \in DOMAIN job
  /\ job.pc \in Preparing => job.in \in Inputs
  /\ job.pc \in {"assigned", "hashed"} => job.a = Build!Assigned(lock, job.in) /\ job.a.ok

(* The last key a list gives a province is its youngest.                   *)
Youngest(T, who, age, rs) ==
  \A i \in 1..Len(rs) : \A k \in T : who[k] = rs[i].from => age[k] <= age[rs[i].to]

LockTraced(who, age) ==
  /\ Descends(taken, who, age, lock) /\ DOMAIN lock.prev \subseteq DOMAIN lock.ids
  /\ \A k \in DOMAIN lock.ids : who[k] = k \/ who[k] \in Build!From(inputs.renames)
  /\ \A s \in known : \E k \in DOMAIN lock.ids : who[k] = s[1] /\ lock.ids[k] = s[2]
JobTraced(who, age) ==
  job.pc \in Preparing =>
    /\ Sane(taken, who, age, job.in) /\ Fits(who, age, lock, job.in.renames)
    /\ Build!From(job.in.renames) \subseteq Build!From(inputs.renames)
InputsTraced(who, age) ==
  /\ Sane(taken, who, age, inputs) /\ Youngest(taken, who, age, inputs.renames)
KeysTraced(who, age, top) ==
  /\ Line(taken, who, age) /\ top \in Nat /\ \A k \in taken : age[k] < top
  /\ \A z \in taken \cap Sea : who[z] = z

Traced(who, age, top) ==
  /\ KeysTraced(who, age, top) /\ InputsTraced(who, age)
  /\ LockTraced(who, age) /\ JobTraced(who, age)

BuildInv == BuildTypes /\ (~careless => \E who, age, top : Traced(who, age, top))

(* A further key, of the province n, is the youngest.                      *)
Longer(T, who, age, k, n, who2, age2) ==
  /\ Line(T \cup {k}, who2, age2) /\ who2[k] = n
  /\ \A j \in T : who2[j] = who[j] /\ age2[j] = age[j]
  /\ k \notin T => \A j \in T : age2[j] < age2[k]

LEMMA LineGrows ==
  ASSUME NEW T, NEW who, NEW age, Line(T, who, age), NEW top \in Nat, \A j \in T : age[j] < top,
         NEW k \in BuildKey, NEW n \in BuildKey, k \in T => who[k] = n
  PROVE  \E who2, age2, top2 : /\ Longer(T, who, age, k, n, who2, age2)
                               /\ top2 \in Nat /\ \A j \in T \cup {k} : age2[j] < top2
  <1>0. \A j \in T : age[j] \in Nat /\ who[j] \in BuildKey  BY DEF Line
  <1>1. CASE k \in T
    <2>1. T \cup {k} = T  BY <1>1
    <2>2. Longer(T, who, age, k, n, who, age)  BY <1>1, <2>1 DEF Longer
    <2> QED  BY <2>1, <2>2
  <1>2. CASE k \notin T
    <2> DEFINE w == [j \in T \cup {k} |-> IF j = k THEN n ELSE who[j]]
               a == [j \in T \cup {k} |-> IF j = k THEN top ELSE age[j]]
    <2>1. /\ w \in [T \cup {k} -> BuildKey] /\ a \in [T \cup {k} -> Nat]
          /\ w[k] = n /\ a[k] = top
          /\ \A j \in T : w[j] = who[j] /\ a[j] = age[j]
      BY <1>0, <1>2
    <2> HIDE DEF w, a
    <2>2. \A j \in T : a[j] < a[k] /\ a[j] \in Nat  BY <1>0, <2>1
    <2>3. \A i, j \in T \cup {k} : a[i] = a[j] => i = j
      <3> SUFFICES ASSUME NEW i \in T \cup {k}, NEW j \in T \cup {k}, a[i] = a[j] PROVE i = j
        OBVIOUS
      <3>1. \A x \in T : a[x] # a[k]
        <4>1. \A x, y \in Nat : x < y => x # y  OBVIOUS
        <4> QED  BY <2>1, <2>2, <4>1
      <3>2. \A x, y \in T : a[x] = a[y] => x = y  BY <2>1 DEF Line
      <3> QED  BY <3>1, <3>2
    <2>4. Longer(T, who, age, k, n, w, a)  BY <2>1, <2>2, <2>3 DEF Longer, Line
    <2>5. top + 1 \in Nat /\ \A j \in T \cup {k} : a[j] < top + 1
      <3>1. \A x \in Nat : x < top => x < top + 1  OBVIOUS
      <3> QED  BY <2>1, <2>2, <3>1
    <2> QED  BY <2>4, <2>5
  <1> QED  BY <1>1, <1>2

(* What was said of the keys stays true.                                   *)
LEMMA LongerDescends ==
  ASSUME NEW T, NEW who, NEW age, NEW k, NEW n, NEW who2, NEW age2,
         Longer(T, who, age, k, n, who2, age2), NEW l, Descends(T, who, age, l),
         DOMAIN l.prev \subseteq DOMAIN l.ids
  PROVE  Descends(T \cup {k}, who2, age2, l)
  <1>1. \A j \in T : who2[j] = who[j] /\ age2[j] = age[j]  BY DEF Longer
  <1>2. DOMAIN l.ids \subseteq T /\ DOMAIN l.prev \subseteq T  BY DEF Descends
  <1>3. \A x \in DOMAIN l.prev : \A j \in Build!Past(l, x) :
          j \in T /\ who[j] = who[x] /\ age[j] < age[x]
    BY DEF Descends
  <1>4. \A x \in DOMAIN l.prev : \A j \in Build!Past(l, x) :
          j \in T \cup {k} /\ who2[j] = who2[x] /\ age2[j] < age2[x]
    BY <1>1, <1>2, <1>3
  <1>5. \A x \in DOMAIN l.prev : Build!Past(l, x) # {}  BY DEF Descends
  <1>6. \A x \in DOMAIN l.ids : who[x] = x \/ who[x] \in Build!Past(l, x)  BY DEF Descends
  <1>7. \A x, y \in DOMAIN l.ids : who[x] = who[y] \/ l.ids[x] = l.ids[y] => x = y
    BY DEF Descends
  <1>8. \A x \in DOMAIN l.ids : who2[x] = x \/ who2[x] \in Build!Past(l, x)  BY <1>1, <1>2, <1>6
  <1>9. \A x, y \in DOMAIN l.ids : who2[x] = who2[y] \/ l.ids[x] = l.ids[y] => x = y
    BY <1>1, <1>2, <1>7
  <1>10. DOMAIN l.ids \subseteq T \cup {k} /\ DOMAIN l.prev \subseteq T \cup {k}  BY <1>2
  <1> QED  BY <1>4, <1>5, <1>8, <1>9, <1>10 DEF Descends

LEMMA LongerSane ==
  ASSUME NEW T, NEW who, NEW age, NEW k, NEW n, NEW who2, NEW age2,
         Longer(T, who, age, k, n, who2, age2), NEW in, Sane(T, who, age, in)
  PROVE  Sane(T \cup {k}, who2, age2, in)
  <1>1. \A j \in T : who2[j] = who[j] /\ age2[j] = age[j]  BY DEF Longer
  <1>2. \A x \in in.include \cup in.exclude \cup in.fresh \cup in.seas :
          x \in T \cup {k} /\ who2[x] = x
    BY <1>1 DEF Sane
  <1>3. Renews(T \cup {k}, who2, age2, in.renames)  BY <1>1 DEF Sane, Renews
  <1> QED  BY <1>2, <1>3 DEF Sane

(* People edit the inputs, and the lock and the run stand.                 *)
LEMMA EditTraces ==
  ASSUME KeysAreNumbers, NEW who, NEW age, NEW top, Traced(who, age, top),
         NEW in \in Inputs, inputs' = in, UNCHANGED <<lock, job, known>>,
         NEW k \in BuildKey, NEW n \in BuildKey, k \in taken => who[k] = n, k \in Sea => n = k,
         taken' = taken \cup {k}, Build!From(inputs.renames) \subseteq Build!From(in.renames),
         \A who2, age2 : Longer(taken, who, age, k, n, who2, age2) =>
           /\ Sane(taken \cup {k}, who2, age2, in)
           /\ Youngest(taken \cup {k}, who2, age2, in.renames)
  PROVE  \E who2, age2, top2 : Traced(who2, age2, top2)'
  <1>0. Line(taken, who, age) /\ top \in Nat /\ \A j \in taken : age[j] < top
    BY DEF Traced, KeysTraced
  <1>1. PICK who2, age2, top2 :
          /\ Longer(taken, who, age, k, n, who2, age2)
          /\ top2 \in Nat /\ \A j \in taken \cup {k} : age2[j] < top2
    BY <1>0, LineGrows
  <1>2. /\ Line(taken \cup {k}, who2, age2) /\ who2[k] = n
        /\ \A j \in taken : who2[j] = who[j] /\ age2[j] = age[j]
    BY <1>1 DEF Longer
  <1>3. KeysTraced(who2, age2, top2)'
    <2>1. \A z \in (taken \cup {k}) \cap Sea : who2[z] = z  BY <1>2 DEF Traced, KeysTraced
    <2> QED  BY <1>1, <1>2, <2>1 DEF KeysTraced
  <1>4. InputsTraced(who2, age2)'  BY <1>1 DEF InputsTraced
  <1>5. LockTraced(who2, age2)'
    <2>1. /\ Descends(taken, who, age, lock) /\ DOMAIN lock.prev \subseteq DOMAIN lock.ids
          /\ \A x \in DOMAIN lock.ids : who[x] = x \/ who[x] \in Build!From(inputs.renames)
          /\ \A s \in known : \E x \in DOMAIN lock.ids : who[x] = s[1] /\ lock.ids[x] = s[2]
      BY DEF Traced, LockTraced
    <2>2. Descends(taken \cup {k}, who2, age2, lock)  BY <1>1, <2>1, LongerDescends
    <2>3. \A x \in DOMAIN lock.ids : who2[x] = who[x]  BY <1>2, <2>1 DEF Descends
    <2>4. \A x \in DOMAIN lock.ids : who2[x] = x \/ who2[x] \in Build!From(in.renames)
      BY <2>1, <2>3
    <2>5. \A s \in known : \E x \in DOMAIN lock.ids : who2[x] = s[1] /\ lock.ids[x] = s[2]
      BY <2>1, <2>3
    <2> QED  BY <2>1, <2>2, <2>4, <2>5 DEF LockTraced
  <1>6. JobTraced(who2, age2)'
    <2> SUFFICES ASSUME job.pc \in Preparing
                 PROVE  /\ Sane(taken \cup {k}, who2, age2, job.in)
                        /\ Fits(who2, age2, lock, job.in.renames)
                        /\ Build!From(job.in.renames) \subseteq Build!From(in.renames)
      BY DEF JobTraced
    <2>1. /\ Sane(taken, who, age, job.in) /\ Fits(who, age, lock, job.in.renames)
          /\ Build!From(job.in.renames) \subseteq Build!From(inputs.renames)
      BY DEF Traced, JobTraced
    <2>2. Sane(taken \cup {k}, who2, age2, job.in)  BY <1>1, <2>1, LongerSane
    <2>3. \A x \in DOMAIN lock.ids : who2[x] = who[x] /\ age2[x] = age[x]
      BY <1>2 DEF Traced, LockTraced, Descends
    <2>4. \A i \in 1..Len(job.in.renames) : age2[job.in.renames[i].to] = age[job.in.renames[i].to]
      BY <1>2, <2>1 DEF Sane, Renews
    <2>5. Fits(who2, age2, lock, job.in.renames)  BY <2>1, <2>3, <2>4 DEF Fits
    <2> QED  BY <2>1, <2>2, <2>5
  <1> QED  BY <1>3, <1>4, <1>5, <1>6 DEF Traced

(* Edits that leave the renames: at most one key is new, its own.          *)
LEMMA SameRenames ==
  ASSUME KeysAreNumbers, BuildTypes, NEW who, NEW age, NEW top, Traced(who, age, top),
         NEW in \in Inputs, in.renames = inputs.renames, NEW k \in BuildKey,
         inputs' = in, taken' = taken \cup Build!Keys(in), UNCHANGED <<lock, job, known>>,
         in.include \cup in.exclude \cup in.fresh \cup in.seas
           \subseteq inputs.include \cup inputs.exclude \cup inputs.fresh \cup inputs.seas \cup {k},
         Build!From(in.renames) \subseteq in.include,
         k \in taken => who[k] = k,
         \/ k \in taken
         \/ k \in in.include \cup in.fresh \cup in.seas /\ k \notin Build!From(in.renames)
  PROVE  \E who2, age2, top2 : Traced(who2, age2, top2)'
  <1> DEFINE rs == inputs.renames
  <1>1. /\ Sane(taken, who, age, inputs) /\ Youngest(taken, who, age, rs)
        /\ Line(taken, who, age)
    BY DEF Traced, InputsTraced, KeysTraced
  <1>2. rs \in Seq(Entry) /\ Renews(taken, who, age, rs)  BY <1>1, KeysAreKeys DEF Sane, BuildTypes
  <1>3. \A i \in 1..Len(rs) : /\ rs[i].from \in Build!From(rs) /\ rs[i].to \in taken
                              /\ rs[i].from \in taken
    BY <1>2 DEF Build!From, Renews
  <1>4. \A x \in inputs.include \cup inputs.exclude \cup inputs.fresh \cup inputs.seas :
          x \in taken /\ who[x] = x
    BY <1>1 DEF Sane
  <1>5. \A n : \/ n \notin Build!From(rs) /\ Build!KeyOf(in, n) = n
               \/ \E i \in 1..Len(rs) : rs[i].from = n /\ Build!KeyOf(in, n) = rs[i].to
    BY <1>2, KeyOfIs
  <1>6. Build!Keys(in) = {Build!KeyOf(in, n) : n \in in.include} \cup in.fresh \cup in.seas
    BY DEF Build!Keys, Build!LandKeys
  <1> HIDE DEF rs
  <1>7. taken \cup Build!Keys(in) = taken \cup {k}
    <2>1. Build!Keys(in) \subseteq taken \cup {k}  BY <1>3, <1>4, <1>5, <1>6
    <2>2. k \in taken \cup Build!Keys(in)
      <3>1. CASE k \in in.include /\ k \notin Build!From(rs)
        <4>1. Build!KeyOf(in, k) = k  BY <1>3, <1>5, <3>1
        <4> QED  BY <1>6, <3>1, <4>1
      <3> QED  BY <1>6, <3>1 DEF rs
    <2> QED  BY <2>1, <2>2
  <1>8. ASSUME NEW who2, NEW age2, Longer(taken, who, age, k, k, who2, age2)
        PROVE  /\ Sane(taken \cup {k}, who2, age2, in)
               /\ Youngest(taken \cup {k}, who2, age2, in.renames)
    <2>1. /\ \A j \in taken : who2[j] = who[j] /\ age2[j] = age[j]
          /\ who2[k] = k
      BY <1>8 DEF Longer
    <2>2. Sane(taken \cup {k}, who2, age2, inputs)  BY <1>1, <1>8, LongerSane
    <2>3. Sane(taken \cup {k}, who2, age2, in)
      <3>1. \A x \in in.include \cup in.exclude \cup in.fresh \cup in.seas :
              x \in taken \cup {k} /\ who2[x] = x
        BY <1>4, <2>1
      <3>2. \A i \in 1..Len(in.renames) : in.renames[i].from \in in.include
        BY <1>3 DEF rs
      <3> QED  BY <2>2, <3>1, <3>2 DEF Sane
    <2>4. Youngest(taken \cup {k}, who2, age2, rs)
      <3> SUFFICES ASSUME NEW i \in 1..Len(rs), NEW x \in taken \cup {k}, who2[x] = rs[i].from
                   PROVE  age2[x] <= age2[rs[i].to]
        BY DEF Youngest
      <3>1. x \in taken
        <4>1. x = k => k \in Build!From(rs)  BY <1>3, <2>1
        <4> QED  BY <1>3, <2>1, <4>1 DEF rs
      <3> QED  BY <1>1, <1>3, <2>1, <3>1 DEF Youngest
    <2> QED  BY <2>3, <2>4 DEF rs
  <1>9. Build!From(inputs.renames) \subseteq Build!From(in.renames)  OBVIOUS
  <1>10. taken' = taken \cup {k}  BY <1>7
  <1> QED  BY <1>8, <1>9, <1>10, EditTraces

(* A list without the entry of one province.                               *)
LEMMA OthersAre ==
  ASSUME NEW rs \in Seq(Entry), NEW n
  PROVE  /\ Build!Others(rs, n) \in Seq(Entry)
         /\ OneEach(rs) =>
              /\ OneEach(Build!Others(rs, n))
              /\ \A i \in 1..Len(Build!Others(rs, n)) :
                   \E j \in 1..Len(rs) : Build!Others(rs, n)[i] = rs[j] /\ rs[j].from # n
              /\ \A j \in 1..Len(rs) : rs[j].from # n =>
                   \E i \in 1..Len(Build!Others(rs, n)) : Build!Others(rs, n)[i] = rs[j]
  <1> DEFINE I == {j \in 1..Len(rs) : rs[j].from = n}
             m == Build!Min(I)
             o == [j \in 1..(Len(rs) - 1) |-> IF j < m THEN rs[j] ELSE rs[j + 1]]
  <1>1. Build!Others(rs, n) = IF I = {} THEN rs ELSE o  BY DEF Build!Others
  <1>2. CASE I = {}
    <2>1. \A j \in 1..Len(rs) : rs[j].from # n  BY <1>2
    <2>2. Build!Others(rs, n) = rs  BY <1>1, <1>2
    <2> QED  BY <2>1, <2>2
  <1>3. CASE I # {}
    <2>1. m \in I
      <3>1. I \in SUBSET Nat  OBVIOUS
      <3> HIDE DEF I
      <3> QED  BY <1>3, <3>1, MinIsLeast
    <2>2. m \in 1..Len(rs) /\ rs[m].from = n  BY <2>1
    <2>3. Build!Others(rs, n) = o  BY <1>1, <1>3
    <2>4. Len(rs) \in Nat /\ Len(rs) # 0  BY <2>2
    <2> HIDE DEF I, m
    <2>5. /\ o \in Seq(Entry) /\ Len(o) = Len(rs) - 1
          /\ \A i \in 1..Len(o) : o[i] = IF i < m THEN rs[i] ELSE rs[i + 1]
      <3>1. \A j \in 1..(Len(rs) - 1) : (IF j < m THEN rs[j] ELSE rs[j + 1]) \in Entry
        <4>1. \A j \in 1..(Len(rs) - 1) : j \in 1..Len(rs) /\ j + 1 \in 1..Len(rs)  BY <2>4
        <4>2. \A j \in 1..Len(rs) : rs[j] \in Entry  OBVIOUS
        <4> QED  BY <4>1, <4>2
      <3>2. Len(rs) - 1 \in Nat  BY <2>4
      <3> QED  BY <3>1, <3>2
    <2> HIDE DEF o
    <2>6. ASSUME NEW i \in 1..Len(o)
          PROVE  \E j \in 1..Len(rs) : /\ o[i] = rs[j] /\ j # m
                                       /\ i < m => j = i
                                       /\ ~(i < m) => j = i + 1
      <3>1. i \in 1..Len(rs) /\ i + 1 \in 1..Len(rs) /\ i \in Nat  BY <2>4, <2>5
      <3>2. CASE i < m  BY <2>5, <3>1, <3>2, <2>2
      <3>3. CASE ~(i < m)
        <4>1. i + 1 # m  BY <2>2, <3>1, <3>3
        <4> QED  BY <2>5, <3>1, <3>3, <4>1
      <3> QED  BY <3>2, <3>3
    <2>7. ASSUME OneEach(rs)
          PROVE  /\ OneEach(o)
                 /\ \A i \in 1..Len(o) : \E j \in 1..Len(rs) : o[i] = rs[j] /\ rs[j].from # n
                 /\ \A j \in 1..Len(rs) : rs[j].from # n => \E i \in 1..Len(o) : o[i] = rs[j]
      <3>1. \A i, j \in 1..Len(rs) : rs[i].from = rs[j].from => i = j  BY <2>7 DEF OneEach
      <3>2. \A i \in 1..Len(o) : \E j \in 1..Len(rs) : o[i] = rs[j] /\ rs[j].from # n
        BY <2>2, <2>6, <3>1
      <3>3. ASSUME NEW i \in 1..Len(o), NEW k \in 1..Len(o), o[i].from = o[k].from PROVE i = k
        <4>1. PICK p \in 1..Len(rs) : /\ o[i] = rs[p] /\ p # m
                                      /\ i < m => p = i
                                      /\ ~(i < m) => p = i + 1
          BY <2>6
        <4>2. PICK q \in 1..Len(rs) : /\ o[k] = rs[q] /\ q # m
                                      /\ k < m => q = k
                                      /\ ~(k < m) => q = k + 1
          BY <2>6
        <4>3. p = q  BY <3>1, <3>3, <4>1, <4>2
        <4>4. i \in Nat /\ k \in Nat /\ m \in Nat  BY <2>2, <2>5
        <4> QED  BY <4>1, <4>2, <4>3, <4>4
      <3>4. ASSUME NEW j \in 1..Len(rs), rs[j].from # n PROVE \E i \in 1..Len(o) : o[i] = rs[j]
        <4>1. j # m  BY <2>2, <3>4
        <4>2. CASE j < m
          <5>1. j \in 1..Len(o)  BY <2>2, <2>4, <2>5, <4>2
          <5> QED  BY <2>5, <4>2, <5>1
        <4>3. CASE ~(j < m)
          <5>1. j - 1 \in 1..Len(o) /\ ~(j - 1 < m) /\ (j - 1) + 1 = j
            BY <2>2, <2>4, <2>5, <4>1, <4>3
          <5> QED  BY <2>5, <5>1
        <4> QED  BY <4>2, <4>3
      <3> QED  BY <3>2, <3>3, <3>4 DEF OneEach
    <2> QED  BY <2>3, <2>5, <2>7
  <1> QED  BY <1>2, <1>3

(* What an edit does to the types, and what it asks.                       *)
LEMMA EditIs ==
  ASSUME KeysAreNumbers, BuildTypes, NEW in \in Inputs, NEW c \in BOOLEAN, Build!Edit(in, c)
  PROVE  /\ BuildTypes' /\ inputs' = in /\ taken' = taken \cup Build!Keys(in)
         /\ UNCHANGED <<lock, job, known>> /\ (~careless' => ~careless /\ ~c)
  <1>1. /\ inputs' = in /\ taken' = taken \cup Build!Keys(in)
        /\ lock' = lock /\ job' = job /\ known' = known
        /\ careless' = (careless \/ c)
    BY DEF Build!Edit, Build!files
  <1>2. careless' \in BOOLEAN /\ (~careless' => ~careless /\ ~c)
    <2>1. careless \in BOOLEAN  BY DEF BuildTypes
    <2> QED  BY <1>1, <2>1, Zenon
  <1>3. taken' \subseteq BuildKey  BY <1>1, KeysAreKeys DEF BuildTypes
  <1>4. BuildTypes'
    <2>1. /\ IsLock(lock) /\ "pc" \in DOMAIN job
          /\ job.pc \in Preparing => job.in \in Inputs
          /\ job.pc \in {"assigned", "hashed"} => job.a = Build!Assigned(lock, job.in) /\ job.a.ok
      BY DEF BuildTypes
    <2>2. inputs' \in Inputs  BY <1>1
    <2>3. /\ IsLock(lock') /\ "pc" \in DOMAIN job'
          /\ job'.pc \in Preparing => job'.in \in Inputs
          /\ job'.pc \in {"assigned", "hashed"} =>
               job'.a = Build!Assigned(lock', job'.in) /\ job'.a.ok
      BY <1>1, <2>1
    <2> QED  BY <1>2, <1>3, <2>2, <2>3 DEF BuildTypes
  <1> QED  BY <1>1, <1>2, <1>4

(* What a list of renames calls them.                                      *)
Calls(in, rs) ==
  \A x : /\ \/ x \notin Build!From(rs) /\ Build!KeyOf(in, x) = x
            \/ \E i \in 1..Len(rs) : rs[i].from = x /\ Build!KeyOf(in, x) = rs[i].to
         /\ \A i \in 1..Len(rs) : rs[i].from = x => Build!KeyOf(in, x) = rs[i].to

LEMMA NamesAre ==
  ASSUME NEW in, in.renames \in Seq(Entry), OneEach(in.renames)
  PROVE  Calls(in, in.renames)
  BY KeyOfIs DEF Calls

(* A province gets a key that nobody has had.                              *)
LEMMA RenameTraces ==
  ASSUME KeysAreNumbers, BuildTypes, NEW who, NEW age, NEW top, Traced(who, age, top),
         NEW n \in Name, NEW k \in Spare \cup Name, n \in inputs.include, k \notin taken,
         NEW in \in Inputs,
         in.renames = Append(Build!Others(inputs.renames, n), [from |-> n, to |-> k]),
         in.include = inputs.include, in.exclude = inputs.exclude,
         in.fresh = inputs.fresh, in.seas = inputs.seas,
         inputs' = in, taken' = taken \cup Build!Keys(in), UNCHANGED <<lock, job, known>>
  PROVE  \E who2, age2, top2 : Traced(who2, age2, top2)'
  <1>0. PICK o : o = Build!Others(inputs.renames, n)  OBVIOUS
  <1> DEFINE e  == [from |-> n, to |-> k]
             rs == Append(o, e)
             was == inputs.renames
  <1>1. was \in Seq(Entry)  BY KeysAreKeys DEF BuildTypes
  <1>2. /\ in.renames = rs /\ in.include = inputs.include /\ in.exclude = inputs.exclude
        /\ in.fresh = inputs.fresh /\ in.seas = inputs.seas
    BY <1>0
  <1>3. /\ Sane(taken, who, age, inputs) /\ Youngest(taken, who, age, was)
        /\ Line(taken, who, age)
    BY DEF Traced, InputsTraced, KeysTraced
  <1>4. /\ OneEach(was)
        /\ \A i \in 1..Len(was) :
             /\ was[i].from \in taken /\ who[was[i].from] = was[i].from
             /\ was[i].to \in taken /\ who[was[i].to] = was[i].from
             /\ age[was[i].from] < age[was[i].to] /\ was[i].from \in inputs.include
    BY <1>3 DEF Sane, Renews
  <1>5. \A x \in inputs.include \cup inputs.exclude \cup inputs.fresh \cup inputs.seas :
          x \in taken /\ who[x] = x
    BY <1>3 DEF Sane
  <1> HIDE DEF was
  <1>6. /\ o \in Seq(Entry) /\ OneEach(o)
        /\ \A i \in 1..Len(o) : \E j \in 1..Len(was) : o[i] = was[j] /\ was[j].from # n
        /\ \A j \in 1..Len(was) : was[j].from # n => \E i \in 1..Len(o) : o[i] = was[j]
    <2>1. o = Build!Others(was, n)  BY <1>0 DEF was
    <2> QED  BY <1>1, <1>4, <2>1, OthersAre
  <1>7. e \in Entry /\ e.from = n /\ e.to = k  BY DEF Entry
  <1> HIDE DEF e
  <1>8. /\ rs \in Seq(Entry) /\ Len(rs) = Len(o) + 1 /\ rs[Len(rs)] = e /\ Len(rs) \in Nat
        /\ \A i \in 1..Len(o) : rs[i] = o[i]
    BY <1>6, <1>7
  <1> HIDE DEF rs
  <1>9. /\ \A i \in 1..Len(rs) : i \in 1..Len(o) \/ i = Len(rs)
        /\ Len(rs) \in 1..Len(rs) /\ \A i \in 1..Len(o) : i \in 1..Len(rs)
    <2>1. Len(o) \in Nat  BY <1>6
    <2> QED  BY <1>8, <2>1
  <1>10. \A i \in 1..Len(rs) :
           \/ \E j \in 1..Len(was) : rs[i] = was[j] /\ was[j].from # n
           \/ i = Len(rs) /\ rs[i] = e
    BY <1>6, <1>8, <1>9
  <1>11. OneEach(rs)
    <2> SUFFICES ASSUME NEW i \in 1..Len(rs), NEW j \in 1..Len(rs), rs[i].from = rs[j].from
                 PROVE  i = j
      BY DEF OneEach
    <2>1. ASSUME NEW p \in 1..Len(o) PROVE rs[p].from # n
      <3>1. PICK x \in 1..Len(was) : o[p] = was[x] /\ was[x].from # n  BY <1>6
      <3>2. rs[p] = o[p]  BY <1>8
      <3> QED  BY <3>1, <3>2
    <2>2. \A p, q \in 1..Len(o) : rs[p].from = rs[q].from => p = q  BY <1>6, <1>8 DEF OneEach
    <2> QED  BY <1>7, <1>8, <1>9, <2>1, <2>2
  <1>12. Build!From(was) \subseteq Build!From(rs)
    <2>1. ASSUME NEW j \in 1..Len(was) PROVE \E i \in 1..Len(rs) : rs[i].from = was[j].from
      <3>1. CASE was[j].from = n
        <4> QED  BY <1>7, <1>8, <1>9, <3>1
      <3>2. CASE was[j].from # n
        <4>1. PICK i \in 1..Len(o) : o[i] = was[j]  BY <1>6, <3>2
        <4>2. i \in 1..Len(rs)  BY <1>9
        <4> QED  BY <1>8, <4>1, <4>2
      <3> QED  BY <3>1, <3>2
    <2> QED  BY <2>1 DEF Build!From
  <1>13. taken \cup Build!Keys(in) = taken \cup {k}
    <2>1. Build!Keys(in) = {Build!KeyOf(in, x) : x \in in.include} \cup in.fresh \cup in.seas
      BY DEF Build!Keys, Build!LandKeys
    <2>2. rs \in Seq(Entry) /\ OneEach(rs) /\ rs = in.renames  BY <1>2, <1>8, <1>11
    <2>3. \A x : /\ \/ x \notin Build!From(rs) /\ Build!KeyOf(in, x) = x
                    \/ \E i \in 1..Len(rs) : rs[i].from = x /\ Build!KeyOf(in, x) = rs[i].to
                 /\ \A i \in 1..Len(rs) : rs[i].from = x => Build!KeyOf(in, x) = rs[i].to
      <3>1. in.renames \in Seq(Entry) /\ OneEach(in.renames)  BY <2>2
      <3>2. Calls(in, in.renames)  BY <3>1, NamesAre
      <3> QED  BY <2>2, <3>2 DEF Calls
    <2>4. Build!KeyOf(in, n) = k
      <3>1. Len(rs) \in 1..Len(rs)  BY <1>9
      <3>2. rs[Len(rs)].from = n /\ rs[Len(rs)].to = k  BY <1>7, <1>8
      <3>3. Build!KeyOf(in, n) = rs[Len(rs)].to  BY <2>3, <3>1, <3>2
      <3> QED  BY <3>2, <3>3
    <2>5. \A i \in 1..Len(rs) : rs[i].to \in taken \cup {k}  BY <1>4, <1>7, <1>10
    <2>6. Build!Keys(in) \subseteq taken \cup {k}
      <3>1. ASSUME NEW x \in in.include PROVE Build!KeyOf(in, x) \in taken \cup {k}
        <4>1. CASE Build!KeyOf(in, x) = x  BY <1>2, <1>5, <4>1
        <4>2. CASE \E i \in 1..Len(rs) : Build!KeyOf(in, x) = rs[i].to  BY <2>5, <4>2
        <4> QED  BY <2>3, <4>1, <4>2
      <3>2. in.fresh \cup in.seas \subseteq taken  BY <1>2, <1>5
      <3> QED  BY <2>1, <3>1, <3>2
    <2>7. k \in Build!Keys(in)  BY <1>2, <2>1, <2>4
    <2> QED  BY <2>6, <2>7
  <1>14. ASSUME NEW who2, NEW age2, Longer(taken, who, age, k, n, who2, age2)
         PROVE  /\ Sane(taken \cup {k}, who2, age2, in)
                /\ Youngest(taken \cup {k}, who2, age2, in.renames)
    <2>1. /\ who2[k] = n /\ \A j \in taken : who2[j] = who[j] /\ age2[j] = age[j]
          /\ \A j \in taken : age2[j] < age2[k]
          /\ age2 \in [taken \cup {k} -> Nat]
      BY <1>14 DEF Longer, Line
    <2>2. n \in taken /\ who[n] = n  BY <1>5
    <2>3. \A i \in 1..Len(rs) :
            /\ rs[i].from \in taken /\ who2[rs[i].from] = rs[i].from
            /\ rs[i].to \in taken \cup {k} /\ who2[rs[i].to] = rs[i].from
            /\ age2[rs[i].from] < age2[rs[i].to]
            /\ rs[i].from \in inputs.include
      <3>1. \A j \in 1..Len(was) :
              /\ was[j].from \in taken /\ who2[was[j].from] = was[j].from
              /\ was[j].to \in taken /\ who2[was[j].to] = was[j].from
              /\ age2[was[j].from] < age2[was[j].to] /\ was[j].from \in inputs.include
        BY <1>4, <2>1
      <3> QED  BY <1>7, <1>10, <2>1, <2>2, <3>1
    <2>4. Sane(taken \cup {k}, who2, age2, in)
      <3>1. \A x \in in.include \cup in.exclude \cup in.fresh \cup in.seas :
              x \in taken \cup {k} /\ who2[x] = x
        BY <1>2, <1>5, <2>1
      <3>2. Renews(taken \cup {k}, who2, age2, rs)  BY <1>11, <2>3 DEF Renews
      <3> QED  BY <1>2, <2>3, <3>1, <3>2 DEF Sane
    <2>5. Youngest(taken \cup {k}, who2, age2, rs)
      <3> SUFFICES ASSUME NEW i \in 1..Len(rs), NEW x \in taken \cup {k}, who2[x] = rs[i].from
                   PROVE  age2[x] <= age2[rs[i].to]
        BY DEF Youngest
      <3>0. age2[x] \in Nat /\ age2[k] \in Nat  BY <2>1
      <3>1. CASE rs[i] = e
        <4>1. age2[x] < age2[k] \/ x = k  BY <2>1
        <4>2. age2[x] <= age2[k]  BY <3>0, <4>1
        <4> QED  BY <1>7, <3>1, <4>2
      <3>2. ASSUME NEW j \in 1..Len(was), rs[i] = was[j], was[j].from # n
            PROVE  age2[x] <= age2[rs[i].to]
        <4>1. x \in taken  BY <2>1, <3>2
        <4>2. age[x] <= age[was[j].to]  BY <1>3, <2>1, <3>2, <4>1 DEF Youngest
        <4> QED  BY <1>4, <2>1, <3>2, <4>1, <4>2
      <3> QED  BY <1>10, <3>1, <3>2
    <2> QED  BY <1>2, <2>4, <2>5
  <1>15. taken' = taken \cup {k}  BY <1>13
  <1>16. Build!From(inputs.renames) \subseteq Build!From(in.renames)  BY <1>2, <1>12 DEF was
  <1>17. k \in BuildKey /\ n \in BuildKey /\ (k \in Sea => n = k)
    BY DEF BuildKey, KeysAreNumbers
  <1> QED  BY <1>14, <1>15, <1>16, <1>17, EditTraces

LEMMA EditKeeps ==
  ASSUME KeysAreNumbers, BuildInv, NEW in \in Inputs, NEW c \in BOOLEAN, Build!Edit(in, c),
         ASSUME ~careless, ~c, NEW who, NEW age, NEW top, Traced(who, age, top)
         PROVE  \E who2, age2, top2 : Traced(who2, age2, top2)'
  PROVE  BuildInv'
  <1>1. BuildTypes  BY DEF BuildInv
  <1>2. BuildTypes' /\ (~careless' => ~careless /\ ~c)  BY <1>1, EditIs
  <1>3. ASSUME ~careless' PROVE \E who2, age2, top2 : Traced(who2, age2, top2)'
    <2>1. ~careless /\ ~c  BY <1>2, <1>3
    <2>2. PICK who, age, top : Traced(who, age, top)  BY <2>1 DEF BuildInv
    <2> QED  BY <2>1, <2>2
  <1> QED  BY <1>2, <1>3 DEF BuildInv

LEMMA IncludeKeeps ==
  ASSUME KeysAreNumbers, BuildInv, NEW n \in Name, Build!Include(n)
  PROVE  BuildInv'
  <1>0. BuildTypes  BY DEF BuildInv
  <1>1. PICK in : in = [inputs EXCEPT !.include = @ \cup {n}, !.exclude = @ \ {n}]  OBVIOUS
  <1>2. PICK c \in BOOLEAN : c <=> n \in taken \ inputs.exclude  BY Zenon
  <1>3. /\ in \in Inputs /\ in.include = inputs.include \cup {n} /\ in.exclude = inputs.exclude \ {n}
        /\ in.renames = inputs.renames /\ in.fresh = inputs.fresh /\ in.seas = inputs.seas
    BY <1>0, <1>1 DEF BuildTypes, Inputs
  <1>4. Build!Edit(in, c)
    <2>1. Build!Edit(in, n \in taken \ inputs.exclude)  BY <1>1 DEF Build!Include
    <2> QED  BY <1>2, <2>1 DEF Build!Edit
  <1>5. inputs' = in /\ taken' = taken \cup Build!Keys(in) /\ UNCHANGED <<lock, job, known>>
    BY <1>0, <1>3, <1>4, EditIs
  <1>6. ASSUME ~careless, ~c, NEW who, NEW age, NEW top, Traced(who, age, top)
        PROVE  \E who2, age2, top2 : Traced(who2, age2, top2)'
    <2>1. Sane(taken, who, age, inputs)  BY <1>6 DEF Traced, InputsTraced
    <2>2. Build!From(inputs.renames) \subseteq inputs.include /\ inputs.include \subseteq taken
      BY <2>1 DEF Sane, Build!From
    <2>3. n \in taken => who[n] = n  BY <1>2, <1>6, <2>1 DEF Sane
    <2>4. n \in BuildKey  BY DEF BuildKey
    <2> QED  BY <1>0, <1>3, <1>5, <1>6, <2>2, <2>3, <2>4, SameRenames
  <1> QED  BY <1>3, <1>4, <1>6, EditKeeps
LEMMA RetireKeeps ==
  ASSUME KeysAreNumbers, BuildInv, NEW n \in Name, Build!Retire(n)
  PROVE  BuildInv'
  <1>0. BuildTypes  BY DEF BuildInv
  <1>1. PICK in : in = [inputs EXCEPT !.include = @ \ {n}, !.exclude = @ \cup {n}]  OBVIOUS
  <1>2. PICK c \in BOOLEAN : c <=> n \in Build!From(inputs.renames)  BY Zenon
  <1>3. /\ in \in Inputs /\ in.include = inputs.include \ {n} /\ in.exclude = inputs.exclude \cup {n}
        /\ in.renames = inputs.renames /\ in.fresh = inputs.fresh /\ in.seas = inputs.seas
    BY <1>0, <1>1 DEF BuildTypes, Inputs
  <1>4. Build!Edit(in, c)
    <2>1. Build!Edit(in, n \in Build!From(inputs.renames))  BY <1>1 DEF Build!Retire
    <2> QED  BY <1>2, <2>1 DEF Build!Edit
  <1>5. inputs' = in /\ taken' = taken \cup Build!Keys(in) /\ UNCHANGED <<lock, job, known>>
    BY <1>0, <1>3, <1>4, EditIs
  <1>6. ASSUME ~careless, ~c, NEW who, NEW age, NEW top, Traced(who, age, top)
        PROVE  \E who2, age2, top2 : Traced(who2, age2, top2)'
    <2>1. Sane(taken, who, age, inputs) /\ n \in inputs.include
      BY <1>6 DEF Traced, InputsTraced, Build!Retire
    <2>2. Build!From(inputs.renames) \subseteq inputs.include \ {n}
      BY <1>2, <1>6, <2>1 DEF Sane, Build!From
    <2>3. n \in taken /\ who[n] = n  BY <2>1 DEF Sane
    <2>4. n \in BuildKey  BY DEF BuildKey
    <2> QED  BY <1>0, <1>3, <1>5, <1>6, <2>1, <2>2, <2>3, <2>4, SameRenames
  <1> QED  BY <1>3, <1>4, <1>6, EditKeeps

LEMMA ForgetKeeps ==
  ASSUME KeysAreNumbers, BuildInv, NEW n \in Name, Build!Forget(n)
  PROVE  BuildInv'
  <1>0. BuildTypes  BY DEF BuildInv
  <1>1. PICK in : in = [inputs EXCEPT !.exclude = @ \ {n}]  OBVIOUS
  <1>2. PICK c \in BOOLEAN : c = TRUE  OBVIOUS
  <1>3. in \in Inputs
    BY <1>0, <1>1 DEF BuildTypes, Inputs
  <1>4. Build!Edit(in, c)
    <2>1. Build!Edit(in, TRUE)  BY <1>1 DEF Build!Forget
    <2> QED  BY <1>2, <2>1 DEF Build!Edit
  <1> QED  BY <1>2, <1>3, <1>4, EditKeeps

LEMMA UnrenameKeeps ==
  ASSUME KeysAreNumbers, BuildInv, NEW n \in Name, Build!Unrename(n)
  PROVE  BuildInv'
  <1>0. BuildTypes  BY DEF BuildInv
  <1>1. PICK in : in = [inputs EXCEPT !.renames = Build!Others(@, n)]  OBVIOUS
  <1>2. PICK c \in BOOLEAN : c = TRUE  OBVIOUS
  <1>3. in \in Inputs
    <2>1. inputs \in Inputs /\ inputs.renames \in Seq(Entry)  BY <1>0, KeysAreKeys DEF BuildTypes
    <2>2. PICK o : o = Build!Others(inputs.renames, n)  OBVIOUS
    <2>3. o \in Seq(Entry)  BY <2>1, <2>2, OthersAre
    <2>4. in = [inputs EXCEPT !.renames = o]  BY <1>1, <2>2
    <2> QED  BY <2>1, <2>3, <2>4 DEF Inputs
  <1>4. Build!Edit(in, c)
    <2>1. Build!Edit(in, TRUE)  BY <1>1 DEF Build!Unrename
    <2> QED  BY <1>2, <2>1 DEF Build!Edit
  <1> QED  BY <1>2, <1>3, <1>4, EditKeeps

LEMMA RenameKeeps ==
  ASSUME KeysAreNumbers, BuildInv, NEW n \in Name, NEW k \in Spare \cup Name, Build!Rename(n, k)
  PROVE  BuildInv'
  <1>0. BuildTypes  BY DEF BuildInv
  <1>1. PICK in : in = [inputs EXCEPT !.renames = Append(Build!Others(@, n), [from |-> n, to |-> k])]  OBVIOUS
  <1>2. PICK c \in BOOLEAN : c <=> k \in taken  BY Zenon
  <1>3. /\ in \in Inputs /\ in.include = inputs.include /\ in.exclude = inputs.exclude
        /\ in.renames = Append(Build!Others(inputs.renames, n), [from |-> n, to |-> k])
        /\ in.fresh = inputs.fresh /\ in.seas = inputs.seas
    <2>1. inputs \in Inputs /\ inputs.renames \in Seq(Entry)  BY <1>0, KeysAreKeys DEF BuildTypes
    <2>2. PICK o : o = Append(Build!Others(inputs.renames, n), [from |-> n, to |-> k])  OBVIOUS
    <2>3. o \in Seq(Entry)
      <3>1. Build!Others(inputs.renames, n) \in Seq(Entry)  BY <2>1, OthersAre
      <3>2. [from |-> n, to |-> k] \in Entry  BY DEF Entry
      <3> QED  BY <2>2, <3>1, <3>2
    <2>4. in = [inputs EXCEPT !.renames = o]  BY <1>1, <2>2
    <2>5. /\ in \in Inputs /\ in.include = inputs.include /\ in.exclude = inputs.exclude
          /\ in.renames = o /\ in.fresh = inputs.fresh /\ in.seas = inputs.seas
      BY <2>1, <2>3, <2>4 DEF Inputs
    <2> QED  BY <2>2, <2>5
  <1>4. Build!Edit(in, c)
    <2>1. Build!Edit(in, k \in taken)  BY <1>1 DEF Build!Rename
    <2> QED  BY <1>2, <2>1 DEF Build!Edit
  <1>5. inputs' = in /\ taken' = taken \cup Build!Keys(in) /\ UNCHANGED <<lock, job, known>>
    BY <1>0, <1>3, <1>4, EditIs
  <1>6. ASSUME ~careless, ~c, NEW who, NEW age, NEW top, Traced(who, age, top)
        PROVE  \E who2, age2, top2 : Traced(who2, age2, top2)'
    <2>1. k \notin taken /\ n \in inputs.include  BY <1>2, <1>6 DEF Build!Rename
    <2> QED  BY <1>0, <1>3, <1>5, <1>6, <2>1, RenameTraces
  <1> QED  BY <1>3, <1>4, <1>6, EditKeeps

LEMMA DetachKeeps ==
  ASSUME KeysAreNumbers, BuildInv, NEW k \in Spare, Build!Detach(k)
  PROVE  BuildInv'
  <1>0. BuildTypes  BY DEF BuildInv
  <1>1. PICK in : in = [inputs EXCEPT !.fresh = @ \cup {k}]  OBVIOUS
  <1>2. PICK c \in BOOLEAN : c <=> k \in taken  BY Zenon
  <1>3. /\ in \in Inputs /\ in.include = inputs.include /\ in.exclude = inputs.exclude
        /\ in.renames = inputs.renames /\ in.fresh = inputs.fresh \cup {k} /\ in.seas = inputs.seas
    BY <1>0, <1>1 DEF BuildTypes, Inputs
  <1>4. Build!Edit(in, c)
    <2>1. Build!Edit(in, k \in taken)  BY <1>1 DEF Build!Detach
    <2> QED  BY <1>2, <2>1 DEF Build!Edit
  <1>5. inputs' = in /\ taken' = taken \cup Build!Keys(in) /\ UNCHANGED <<lock, job, known>>
    BY <1>0, <1>3, <1>4, EditIs
  <1>6. ASSUME ~careless, ~c, NEW who, NEW age, NEW top, Traced(who, age, top)
        PROVE  \E who2, age2, top2 : Traced(who2, age2, top2)'
    <2>1. Sane(taken, who, age, inputs)  BY <1>6 DEF Traced, InputsTraced
    <2>2. Build!From(inputs.renames) \subseteq inputs.include /\ inputs.include \subseteq taken
      BY <2>1 DEF Sane, Build!From
    <2>3. k \notin taken  BY <1>2, <1>6
    <2>4. k \in BuildKey  BY DEF BuildKey
    <2> QED  BY <1>0, <1>3, <1>5, <1>6, <2>2, <2>3, <2>4, SameRenames
  <1> QED  BY <1>3, <1>4, <1>6, EditKeeps

LEMMA UndetachKeeps ==
  ASSUME KeysAreNumbers, BuildInv, NEW k \in Spare, Build!Undetach(k)
  PROVE  BuildInv'
  <1>0. BuildTypes  BY DEF BuildInv
  <1>1. PICK in : in = [inputs EXCEPT !.fresh = @ \ {k}]  OBVIOUS
  <1>2. PICK c \in BOOLEAN : c = FALSE  OBVIOUS
  <1>3. /\ in \in Inputs /\ in.include = inputs.include /\ in.exclude = inputs.exclude
        /\ in.renames = inputs.renames /\ in.fresh = inputs.fresh \ {k} /\ in.seas = inputs.seas
    BY <1>0, <1>1 DEF BuildTypes, Inputs
  <1>4. Build!Edit(in, c)
    <2>1. Build!Edit(in, FALSE)  BY <1>1 DEF Build!Undetach
    <2> QED  BY <1>2, <2>1 DEF Build!Edit
  <1>5. inputs' = in /\ taken' = taken \cup Build!Keys(in) /\ UNCHANGED <<lock, job, known>>
    BY <1>0, <1>3, <1>4, EditIs
  <1>6. ASSUME ~careless, ~c, NEW who, NEW age, NEW top, Traced(who, age, top)
        PROVE  \E who2, age2, top2 : Traced(who2, age2, top2)'
    <2>1. Sane(taken, who, age, inputs) /\ k \in inputs.fresh
      BY <1>6 DEF Traced, InputsTraced, Build!Undetach
    <2>2. Build!From(inputs.renames) \subseteq inputs.include  BY <2>1 DEF Sane, Build!From
    <2>3. k \in taken /\ who[k] = k  BY <2>1 DEF Sane
    <2>4. k \in BuildKey  BY DEF BuildKey
    <2> QED  BY <1>0, <1>3, <1>5, <1>6, <2>2, <2>3, <2>4, SameRenames
  <1> QED  BY <1>3, <1>4, <1>6, EditKeeps

LEMMA ZonesKeep ==
  ASSUME KeysAreNumbers, BuildInv, NEW z \in Sea, Build!Zones(z)
  PROVE  BuildInv'
  <1>0. BuildTypes  BY DEF BuildInv
  <1>1. PICK in : in = [inputs EXCEPT !.seas = IF z \in @ THEN @ \ {z} ELSE @ \cup {z}]  OBVIOUS
  <1>2. PICK c \in BOOLEAN : c = FALSE  OBVIOUS
  <1>3. /\ in \in Inputs /\ in.include = inputs.include /\ in.exclude = inputs.exclude
        /\ in.renames = inputs.renames /\ in.fresh = inputs.fresh
        /\ in.seas \subseteq inputs.seas \cup {z} /\ (z \in in.seas \/ z \in inputs.seas)
    BY <1>0, <1>1 DEF BuildTypes, Inputs
  <1>4. Build!Edit(in, c)
    <2>1. Build!Edit(in, FALSE)  BY <1>1 DEF Build!Zones
    <2> QED  BY <1>2, <2>1 DEF Build!Edit
  <1>5. inputs' = in /\ taken' = taken \cup Build!Keys(in) /\ UNCHANGED <<lock, job, known>>
    BY <1>0, <1>3, <1>4, EditIs
  <1>6. ASSUME ~careless, ~c, NEW who, NEW age, NEW top, Traced(who, age, top)
        PROVE  \E who2, age2, top2 : Traced(who2, age2, top2)'
    <2>1. Sane(taken, who, age, inputs) /\ \A x \in taken \cap Sea : who[x] = x
      BY <1>6 DEF Traced, InputsTraced, KeysTraced
    <2>2. Build!From(inputs.renames) \subseteq inputs.include /\ inputs.include \subseteq taken
          /\ inputs.seas \subseteq taken
      BY <2>1 DEF Sane, Build!From
    <2>3. z \in taken => who[z] = z  BY <2>1
    <2>4. z \in BuildKey  BY DEF BuildKey
    <2> QED  BY <1>0, <1>3, <1>5, <1>6, <2>2, <2>3, <2>4, SameRenames
  <1> QED  BY <1>3, <1>4, <1>6, EditKeeps

LEMMA BuildBegins == ASSUME KeysAreNumbers, Build!Init PROVE BuildInv
  <1>1. PICK m : m = Build!Min(Name)  OBVIOUS
  <1>2. m \in Name /\ m \in BuildKey
    <2>1. Name \in SUBSET Nat /\ Name # {}  BY DEF KeysAreNumbers
    <2>2. m \in Name  BY <1>1, <2>1, MinIsLeast
    <2> QED  BY <2>2 DEF BuildKey
  <1>3. inputs = [include |-> {m}, exclude |-> {}, renames |-> <<>>, fresh |-> {}, seas |-> {}]
    BY <1>1 DEF Build!Init
  <1>4. /\ lock = [ids |-> <<>>, prev |-> <<>>] /\ job = [pc |-> "idle"] /\ known = {}
        /\ taken = {m} /\ careless = FALSE
    BY <1>1 DEF Build!Init, Build!NoLock, Build!Idle
  <1>5. inputs \in Inputs  BY <1>2, <1>3 DEF Inputs
  <1>6. /\ inputs.renames = <<>> /\ inputs.include = {m} /\ inputs.exclude = {}
        /\ inputs.fresh = {} /\ inputs.seas = {}
    BY <1>3
  <1>7. DOMAIN lock.ids = {} /\ DOMAIN lock.prev = {}  BY <1>4
  <1>8. BuildTypes
    <2>1. "pc" \in DOMAIN job /\ job.pc = "idle"  BY <1>4
    <2>2. IsLock(lock)  BY <1>7 DEF IsLock
    <2>3. taken \subseteq BuildKey /\ careless \in BOOLEAN  BY <1>2, <1>4
    <2> QED  BY <1>5, <2>1, <2>2, <2>3 DEF BuildTypes, Preparing
  <1> DEFINE who == [k \in {m} |-> k]
             age == [k \in {m} |-> 0]
  <1>9. /\ who \in [taken -> BuildKey] /\ age \in [taken -> Nat] /\ who[m] = m /\ age[m] = 0
        /\ taken = {m}
    BY <1>2, <1>4
  <1> HIDE DEF who, age
  <1>10. KeysTraced(who, age, 1)  BY <1>9 DEF KeysTraced, Line
  <1>11. Sane(taken, who, age, inputs) /\ Youngest(taken, who, age, inputs.renames)
    <2>1. Len(inputs.renames) = 0  BY <1>6
    <2>2. Renews(taken, who, age, inputs.renames)  BY <2>1 DEF Renews, OneEach
    <2> QED  BY <1>6, <1>9, <2>1, <2>2 DEF Sane, Youngest
  <1>12. LockTraced(who, age)
    <2>1. Descends(taken, who, age, lock)  BY <1>7 DEF Descends
    <2> QED  BY <1>4, <1>7, <2>1 DEF LockTraced
  <1>13. JobTraced(who, age)  BY <1>4 DEF JobTraced, Preparing
  <1>14. Traced(who, age, 1)  BY <1>10, <1>11, <1>12, <1>13 DEF Traced, InputsTraced
  <1> QED  BY <1>8, <1>14 DEF BuildInv

(* Nothing of the inputs, of the lock and of the keys moves.               *)
LEMMA JobMoves ==
  ASSUME BuildInv, UNCHANGED <<inputs, lock, known, taken, careless>>, "pc" \in DOMAIN job',
         job'.pc \in Preparing => job'.in \in Inputs,
         job'.pc \in {"assigned", "hashed"} => job'.a = Build!Assigned(lock, job'.in) /\ job'.a.ok,
         ASSUME NEW who, NEW age, NEW top, Traced(who, age, top) PROVE JobTraced(who, age)'
  PROVE  BuildInv'
  <1>1. BuildTypes'
    <2>1. /\ inputs \in Inputs /\ IsLock(lock) /\ taken \subseteq BuildKey /\ careless \in BOOLEAN
      BY DEF BuildInv, BuildTypes
    <2>2. /\ inputs' \in Inputs /\ IsLock(lock') /\ taken' \subseteq BuildKey
          /\ careless' \in BOOLEAN
      BY <2>1
    <2>3. job'.pc \in {"assigned", "hashed"} =>
            job'.a = Build!Assigned(lock', job'.in) /\ job'.a.ok
      OBVIOUS
    <2> QED  BY <2>2, <2>3 DEF BuildTypes
  <1>2. ASSUME ~careless' PROVE \E who, age, top : Traced(who, age, top)'
    <2>1. ~careless  BY <1>2
    <2>2. PICK who, age, top : Traced(who, age, top)  BY <2>1 DEF BuildInv
    <2>3. JobTraced(who, age)'  BY <2>2
    <2>4. KeysTraced(who, age, top)'  BY <2>2 DEF Traced, KeysTraced
    <2>5. InputsTraced(who, age)'  BY <2>2 DEF Traced, InputsTraced
    <2>6. LockTraced(who, age)'  BY <2>2 DEF Traced, LockTraced
    <2> QED  BY <2>3, <2>4, <2>5, <2>6 DEF Traced
  <1> QED  BY <1>1, <1>2 DEF BuildInv

LEMMA StartKeeps ==
  ASSUME BuildInv, NEW command, Build!Start(command) PROVE BuildInv'
  <1>1. /\ job' = [pc |-> "prepared", command |-> command, in |-> inputs]
        /\ UNCHANGED <<inputs, lock, known, taken, careless>>
    BY DEF Build!Start, Build!files
  <1>2. "pc" \in DOMAIN job' /\ job'.pc = "prepared" /\ job'.in = inputs  BY <1>1
  <1>3. inputs \in Inputs  BY DEF BuildInv, BuildTypes
  <1>4. ASSUME NEW who, NEW age, NEW top, Traced(who, age, top) PROVE JobTraced(who, age)'
    <2>1. /\ Sane(taken, who, age, inputs) /\ Youngest(taken, who, age, inputs.renames)
          /\ DOMAIN lock.ids \subseteq taken
          /\ \A k \in DOMAIN lock.ids : who[k] = k \/ who[k] \in Build!From(inputs.renames)
      BY <1>4 DEF Traced, InputsTraced, LockTraced, Descends
    <2>2. Fits(who, age, lock, inputs.renames)  BY <2>1 DEF Fits, Youngest, Build!From
    <2>3. /\ Sane(taken', who, age, job'.in) /\ Fits(who, age, lock', job'.in.renames)
          /\ Build!From(job'.in.renames) \subseteq Build!From(inputs'.renames)
      BY <1>1, <1>2, <2>1, <2>2
    <2> QED  BY <2>3 DEF JobTraced, Build!From
  <1> QED  BY <1>1, <1>2, <1>3, <1>4, JobMoves

LEMMA RunsOn ==
  ASSUME BuildInv, UNCHANGED <<inputs, lock, known, taken, careless>>, "pc" \in DOMAIN job',
         \/ job'.pc \notin Preparing
         \/ /\ job'.pc \in {"assigned", "hashed"} /\ job.pc \in Preparing
            /\ job'.in = job.in /\ job'.a = Build!Assigned(lock, job.in) /\ job'.a.ok
  PROVE  BuildInv'
  <1>1. job'.pc \in Preparing =>
          /\ job'.pc \in {"assigned", "hashed"} /\ job.pc \in Preparing
          /\ job'.in = job.in /\ job'.a = Build!Assigned(lock, job.in) /\ job'.a.ok
    OBVIOUS
  <1>2. job.pc \in Preparing => job.in \in Inputs  BY DEF BuildInv, BuildTypes
  <1>3. ASSUME NEW who, NEW age, NEW top, Traced(who, age, top) PROVE JobTraced(who, age)'
    <2> SUFFICES ASSUME job'.pc \in Preparing
                 PROVE  /\ Sane(taken', who, age, job'.in) /\ Fits(who, age, lock', job'.in.renames)
                        /\ Build!From(job'.in.renames) \subseteq Build!From(inputs'.renames)
      BY DEF JobTraced, Build!From
    <2>1. job.pc \in Preparing /\ job'.in = job.in  BY <1>1
    <2>2. /\ Sane(taken, who, age, job.in) /\ Fits(who, age, lock, job.in.renames)
          /\ Build!From(job.in.renames) \subseteq Build!From(inputs.renames)
      BY <1>3, <2>1 DEF Traced, JobTraced
    <2> QED  BY <2>1, <2>2
  <1>4. job'.pc \in {"assigned", "hashed"} => job'.pc \in Preparing  BY DEF Preparing
  <1>5. job'.pc \in {"assigned", "hashed"} =>
          job'.a = Build!Assigned(lock, job'.in) /\ job'.a.ok
    BY <1>1, <1>4
  <1>6. job'.pc \in Preparing => job'.in \in Inputs  BY <1>1, <1>2
  <1> QED  BY <1>3, <1>5, <1>6, JobMoves

LEMMA AssignKeeps == ASSUME BuildInv, Build!Assign PROVE BuildInv'
  <1>1. /\ job.pc = "prepared" /\ UNCHANGED <<inputs, lock, known, taken, careless>>
        /\ \/ job' = [pc |-> "idle"]
           \/ /\ Build!Assigned(lock, job.in).ok
              /\ job' = [pc |-> "assigned", command |-> job.command, in |-> job.in,
                         a |-> Build!Assigned(lock, job.in)]
    BY DEF Build!Assign, Build!Idle, Build!files
  <1>2. CASE job' = [pc |-> "idle"]
    <2>1. "pc" \in DOMAIN job' /\ job'.pc = "idle"  BY <1>2
    <2> QED  BY <1>1, <2>1, RunsOn DEF Preparing
  <1>3. CASE job' = [pc |-> "assigned", command |-> job.command, in |-> job.in,
                     a |-> Build!Assigned(lock, job.in)] /\ Build!Assigned(lock, job.in).ok
    <2>1. /\ "pc" \in DOMAIN job' /\ job'.pc = "assigned" /\ job'.in = job.in
          /\ job'.a = Build!Assigned(lock, job.in)
      BY <1>3
    <2> QED  BY <1>1, <1>3, <2>1, RunsOn DEF Preparing
  <1> QED  BY <1>1, <1>2, <1>3

LEMMA HashKeeps == ASSUME BuildInv, Build!Hash PROVE BuildInv'
  <1>1. /\ job.pc = "assigned" /\ UNCHANGED <<inputs, lock, known, taken, careless>>
        /\ job' = [pc |-> "hashed", command |-> "build", in |-> job.in, a |-> job.a, hash |-> inputs]
    BY DEF Build!Hash, Build!files
  <1>2. "pc" \in DOMAIN job' /\ job'.pc = "hashed" /\ job'.in = job.in /\ job'.a = job.a
    BY <1>1
  <1>3. job.a = Build!Assigned(lock, job.in) /\ job.a.ok  BY <1>1 DEF BuildInv, BuildTypes
  <1> QED  BY <1>1, <1>2, <1>3, RunsOn DEF Preparing

LEMMA WritesKeep ==
  ASSUME BuildInv,
         Build!WriteManifest \/ Build!WriteGeometry \/ Build!WriteBorders \/ Build!Stop
  PROVE  BuildInv'
  <1>1. "pc" \in DOMAIN job  BY DEF BuildInv, BuildTypes
  <1>2. /\ UNCHANGED <<inputs, lock, known, taken, careless>>
        /\ \/ job' = [job EXCEPT !.pc = "listed"] \/ job' = [job EXCEPT !.pc = "drawn"]
           \/ job' = [pc |-> "idle"]
    BY DEF Build!WriteManifest, Build!WriteGeometry, Build!WriteBorders, Build!Stop, Build!Idle,
           Build!files
  <1>3. "pc" \in DOMAIN job' /\ job'.pc \in {"listed", "drawn", "idle"}  BY <1>1, <1>2
  <1> QED  BY <1>2, <1>3, RunsOn DEF Preparing

(* The key of a node leads to the province it is known by.                 *)
LEMMA ProvinceIs ==
  ASSUME NEW T, NEW who, NEW age, NEW in \in Inputs, Sane(T, who, age, in),
         NEW k \in Build!Keys(in)
  PROVE  Build!Province(in, k) = who[k]
  <1>1. \A n \in in.include : who[Build!KeyOf(in, n)] = n  BY SaneKeys
  <1>2. CASE \E n \in in.include : Build!KeyOf(in, n) = k
    <2>1. PICK n \in in.include : Build!KeyOf(in, n) = k /\ Build!Province(in, k) = n
      BY <1>2 DEF Build!Province
    <2> QED  BY <1>1, <2>1
  <1>3. CASE ~ \E n \in in.include : Build!KeyOf(in, n) = k
    <2>1. k \in in.fresh \cup in.seas  BY <1>3 DEF Build!Keys, Build!LandKeys
    <2>2. Build!Province(in, k) = k  BY <1>3 DEF Build!Province
    <2> QED  BY <2>1, <2>2 DEF Sane
  <1> QED  BY <1>2, <1>3

LEMMA WriteLockIs ==
  ASSUME KeysAreNumbers, BuildInv, Build!WriteLock
  PROVE  /\ job.pc \in Preparing /\ job.in \in Inputs /\ Build!Assigned(lock, job.in).ok
         /\ job.a = Build!Assigned(lock, job.in)
         /\ lock' = Build!LockOf(Build!Assigned(lock, job.in)) /\ IsLock(lock')
         /\ Keeps(lock, lock')
  <1>1. job.pc \in {"assigned", "hashed"} /\ lock' = Build!LockOf(job.a)  BY DEF Build!WriteLock
  <1>2. /\ job.pc \in Preparing /\ job.in \in Inputs /\ IsLock(lock)
        /\ job.a = Build!Assigned(lock, job.in) /\ job.a.ok
    BY <1>1 DEF BuildInv, BuildTypes, Preparing
  <1>3. PICK in : in = job.in  OBVIOUS
  <1>4. PICK a : a = Build!LockOf(Build!Assigned(lock, in))  OBVIOUS
  <1>5. PICK m : m = Build!Moves(lock, in.renames)[Len(in.renames)]  OBVIOUS
  <1>6. in \in Inputs /\ Build!Assigned(lock, in).ok  BY <1>2, <1>3
  <1>7. IsLock(a) /\ Keeps(lock, a)  BY <1>2, <1>4, <1>5, <1>6, AssignIs
  <1>8. lock' = a  BY <1>1, <1>2, <1>3, <1>4
  <1> QED  BY <1>1, <1>2, <1>3, <1>4, <1>6, <1>7, <1>8

LEMMA WriteLockKeeps == ASSUME KeysAreNumbers, BuildInv, Build!WriteLock PROVE BuildInv'
  <1>1. /\ job.pc \in Preparing /\ job.in \in Inputs /\ Build!Assigned(lock, job.in).ok
        /\ job.a = Build!Assigned(lock, job.in)
        /\ lock' = Build!LockOf(Build!Assigned(lock, job.in)) /\ IsLock(lock')
        /\ Keeps(lock, lock')
    BY WriteLockIs
  <1>2. /\ known' = known \cup {<<Build!Province(job.in, k), job.a.ids[k]>> : k \in Build!Keys(job.in)}
        /\ job' = [job EXCEPT !.pc = "locked"] \/ job' = [pc |-> "idle"]
        /\ UNCHANGED <<inputs, taken, careless>>
    BY DEF Build!WriteLock, Build!Idle
  <1>3. "pc" \in DOMAIN job' /\ job'.pc \in {"locked", "idle"}
    <2>1. "pc" \in DOMAIN job  BY DEF BuildInv, BuildTypes
    <2> QED  BY <1>2, <2>1
  <1>4. BuildTypes'
    <2>1. inputs' \in Inputs /\ taken' \subseteq BuildKey /\ careless' \in BOOLEAN
      BY <1>2 DEF BuildInv, BuildTypes
    <2> QED  BY <1>1, <1>3, <2>1 DEF BuildTypes, Preparing
  <1>5. ASSUME ~careless' PROVE \E who, age, top : Traced(who, age, top)'
    <2>1. PICK who, age, top : Traced(who, age, top)  BY <1>2, <1>5 DEF BuildInv
    <2>2. PICK in : in = job.in  OBVIOUS
    <2>3. PICK a : a = Build!LockOf(Build!Assigned(lock, in))  OBVIOUS
    <2>4. in \in Inputs /\ Build!Assigned(lock, in).ok /\ lock' = a  BY <1>1, <2>2, <2>3
    <2>5. /\ Line(taken, who, age) /\ Descends(taken, who, age, lock) /\ IsLock(lock)
          /\ DOMAIN lock.prev \subseteq DOMAIN lock.ids
      BY <2>1 DEF Traced, KeysTraced, LockTraced, BuildInv, BuildTypes
    <2>6. /\ Sane(taken, who, age, in) /\ Fits(who, age, lock, in.renames)
          /\ Build!From(in.renames) \subseteq Build!From(inputs.renames)
      BY <1>1, <2>1, <2>2 DEF Traced, JobTraced
    <2>7. /\ Descends(taken, who, age, a) /\ DOMAIN a.prev \subseteq DOMAIN a.ids
          /\ \A k \in DOMAIN a.ids : who[k] = k \/ who[k] \in Build!From(in.renames)
      BY <2>3, <2>4, <2>5, <2>6, AssignDescends
    <2>8. ASSUME NEW s \in known' PROVE \E k \in DOMAIN a.ids : who[k] = s[1] /\ a.ids[k] = s[2]
      <3>1. CASE s \in known
        <4>1. PICK k \in DOMAIN lock.ids : who[k] = s[1] /\ lock.ids[k] = s[2]
          BY <2>1, <3>1 DEF Traced, LockTraced
        <4>2. PICK j \in DOMAIN a.ids : a.ids[j] = lock.ids[k] /\ (j = k \/ k \in Build!Past(a, j))
          BY <1>1, <2>4 DEF Keeps
        <4>3. who[j] = who[k]
          <5>1. CASE k \in Build!Past(a, j)
            <6>1. j \in DOMAIN a.prev  BY <5>1, PastIsInDomain
            <6> QED  BY <2>7, <5>1, <6>1 DEF Descends
          <5> QED  BY <4>2, <5>1
        <4> QED  BY <4>1, <4>2, <4>3
      <3>2. CASE s \notin known
        <4>1. PICK k \in Build!Keys(in) : s = <<Build!Province(in, k), job.a.ids[k]>>
          BY <1>2, <2>2, <3>2
        <4>2. Build!Province(in, k) = who[k]  BY <2>4, <2>6, ProvinceIs
        <4>3. k \in DOMAIN a.ids
          <5>1. PICK m : m = Build!Moves(lock, in.renames)[Len(in.renames)]  OBVIOUS
          <5>2. GivesIds(m, in, a)  BY <2>3, <2>4, <2>5, <5>1, AssignIs
          <5> QED  BY <5>2 DEF GivesIds
        <4>4. a.ids = job.a.ids  BY <1>1, <2>2, <2>3 DEF Build!LockOf
        <4> QED  BY <4>1, <4>2, <4>3, <4>4
      <3> QED  BY <3>1, <3>2
    <2>9. LockTraced(who, age)'
      <3>1. /\ Descends(taken', who, age, lock') /\ DOMAIN lock'.prev \subseteq DOMAIN lock'.ids
            /\ \A k \in DOMAIN lock'.ids : who[k] = k \/ who[k] \in Build!From(inputs'.renames)
            /\ \A s \in known' : \E k \in DOMAIN lock'.ids : who[k] = s[1] /\ lock'.ids[k] = s[2]
        BY <1>2, <2>4, <2>6, <2>7, <2>8
      <3> QED  BY <3>1 DEF LockTraced, Build!From
    <2>10. JobTraced(who, age)'  BY <1>3 DEF JobTraced, Preparing
    <2>11. KeysTraced(who, age, top)'  BY <1>2, <2>1 DEF Traced, KeysTraced
    <2>12. InputsTraced(who, age)'  BY <1>2, <2>1 DEF Traced, InputsTraced
    <2> QED  BY <2>9, <2>10, <2>11, <2>12 DEF Traced
  <1> QED  BY <1>4, <1>5 DEF BuildInv

LEMMA BuildNext == ASSUME KeysAreNumbers, BuildInv, [Build!Next]_(Build!vars) PROVE BuildInv'
  <1>1. CASE UNCHANGED Build!vars
    <2>1. UNCHANGED <<inputs, lock, known, taken, careless, job>>
      BY <1>1 DEF Build!vars, Build!files
    <2>2. BuildTypes  BY DEF BuildInv
    <2>3. job.pc \in Preparing => job.in \in Inputs  BY <2>2 DEF BuildTypes
    <2>4. job.pc \in {"assigned", "hashed"} => job.a = Build!Assigned(lock, job.in) /\ job.a.ok
      BY <2>2 DEF BuildTypes
    <2>5. ASSUME NEW who, NEW age, NEW top, Traced(who, age, top) PROVE JobTraced(who, age)'
      <3>1. JobTraced(who, age)  BY <2>5 DEF Traced
      <3> QED  BY <2>1, <3>1 DEF JobTraced
    <2>6. "pc" \in DOMAIN job'  BY <2>1, <2>2 DEF BuildTypes
    <2> QED  BY <2>1, <2>3, <2>4, <2>5, <2>6, JobMoves
  <1>2. ASSUME NEW n \in Name,
               \/ Build!Include(n) \/ Build!Retire(n) \/ Build!Forget(n) \/ Build!Unrename(n)
               \/ \E k \in Spare \cup Name : Build!Rename(n, k)
        PROVE  BuildInv'
    BY <1>2, IncludeKeeps, RetireKeeps, ForgetKeeps, UnrenameKeeps, RenameKeeps
  <1>3. ASSUME NEW k \in Spare, Build!Detach(k) \/ Build!Undetach(k) PROVE BuildInv'
    BY <1>3, DetachKeeps, UndetachKeeps
  <1>4. ASSUME NEW z \in Sea, Build!Zones(z) PROVE BuildInv'  BY <1>4, ZonesKeep
  <1>5. ASSUME NEW c \in {"nodes", "build"}, Build!Start(c) PROVE BuildInv'  BY <1>5, StartKeeps
  <1>6. CASE \/ Build!Assign \/ Build!Hash \/ Build!WriteLock \/ Build!WriteManifest
             \/ Build!WriteGeometry \/ Build!WriteBorders \/ Build!Stop
    BY <1>6, AssignKeeps, HashKeeps, WriteLockKeeps, WritesKeep
  <1>7. CASE Build!Next
    <2> USE <1>7
    <2>1. \/ \E n \in Name : \/ Build!Include(n) \/ Build!Retire(n) \/ Build!Forget(n)
                             \/ Build!Unrename(n)
                             \/ \E k \in Spare \cup Name : Build!Rename(n, k)
          \/ \E k \in Spare : Build!Detach(k) \/ Build!Undetach(k)
          \/ \E z \in Sea : Build!Zones(z)
          \/ \E c \in {"nodes", "build"} : Build!Start(c)
          \/ Build!Assign \/ Build!Hash \/ Build!WriteLock \/ Build!WriteManifest
          \/ Build!WriteGeometry \/ Build!WriteBorders \/ Build!Stop
      BY Zenon DEF Build!Next
    <2> QED  BY <1>2, <1>3, <1>4, <1>5, <1>6, <2>1, Zenon
  <1> QED  BY <1>1, <1>7

LEMMA BuildInvariant == ASSUME KeysAreNumbers PROVE Build!Spec => []BuildInv
  BY BuildBegins, BuildNext, PTL DEF Build!Spec

(* An id is one province's for ever, as long as nobody was careless        *)
(* (ids.py: assign_ids, _apply_renames).                                   *)
THEOREM IdsAreOnes == ASSUME KeysAreNumbers PROVE Build!Spec => []Build!IdsFollowProvinces
  <1>1. BuildInv => Build!IdsFollowProvinces
    <2> SUFFICES ASSUME BuildInv, ~careless, NEW s \in known, NEW t \in known
                 PROVE  (s[1] = t[1]) <=> (s[2] = t[2])
      BY DEF Build!IdsFollowProvinces
    <2>1. PICK who, age, top : Traced(who, age, top)  BY DEF BuildInv
    <2>2. PICK j \in DOMAIN lock.ids : who[j] = s[1] /\ lock.ids[j] = s[2]
      BY <2>1 DEF Traced, LockTraced
    <2>3. PICK k \in DOMAIN lock.ids : who[k] = t[1] /\ lock.ids[k] = t[2]
      BY <2>1 DEF Traced, LockTraced
    <2>4. who[j] = who[k] \/ lock.ids[j] = lock.ids[k] => j = k
      BY <2>1 DEF Traced, LockTraced, Descends
    <2> QED  BY <2>2, <2>3, <2>4
  <1> QED  BY <1>1, BuildInvariant, PTL

(* The next run can read the lock (ids.py: IdsLock).                       *)
THEOREM LockIsReadable == ASSUME KeysAreNumbers PROVE Build!Spec => []Build!LockStaysLoadable
  <1>1. BuildInv => Build!LockStaysLoadable
    <2> SUFFICES ASSUME BuildInv, ~careless PROVE Build!Loadable(lock)
      BY DEF Build!LockStaysLoadable
    <2>1. PICK who, age, top : Traced(who, age, top)  BY DEF BuildInv
    <2>2. /\ DOMAIN lock.prev \subseteq DOMAIN lock.ids /\ age \in [taken -> Nat]
          /\ DOMAIN lock.ids \subseteq taken
          /\ \A j, k \in DOMAIN lock.ids : who[j] = who[k] \/ lock.ids[j] = lock.ids[k] => j = k
          /\ \A k \in DOMAIN lock.prev : Build!Past(lock, k) # {}
          /\ \A k \in DOMAIN lock.prev : \A j \in Build!Past(lock, k) :
               who[j] = who[k] /\ age[j] < age[k]
      BY <2>1 DEF Traced, KeysTraced, LockTraced, Line, Descends
    <2>3. ASSUME NEW k \in DOMAIN lock.prev
          PROVE  lock.prev[k] # {} /\ lock.prev[k] \cap DOMAIN lock.ids = {}
      <3>1. Build!Past(lock, k) = lock.prev[k]  BY DEF Build!Past
      <3>2. ASSUME NEW j \in lock.prev[k], j \in DOMAIN lock.ids PROVE FALSE
        <4>1. who[j] = who[k] /\ age[j] < age[k]  BY <2>2, <3>1
        <4>2. j = k  BY <2>2, <3>2, <4>1
        <4>3. age[k] \in Nat  BY <2>2
        <4> QED  BY <4>1, <4>2, <4>3
      <3> QED  BY <2>2, <3>1, <3>2
    <2> QED  BY <2>2, <2>3 DEF Build!Loadable
  <1> QED  BY <1>1, BuildInvariant, PTL

(* The lock only grows, whatever is edited (ids.py: assign_ids).           *)
THEOREM LockIsKept == ASSUME KeysAreNumbers PROVE Build!Spec => Build!LockOnlyGrows
  <1> DEFINE Step == \A k \in DOMAIN lock.ids :
                       \E j \in DOMAIN lock'.ids :
                         /\ lock'.ids[j] = lock.ids[k]
                         /\ j = k \/ k \in Build!Past(lock', j)
                         /\ j # k => Build!Past(lock, k) \subseteq Build!Past(lock', j)
  <1>1. ASSUME BuildInv, [Build!Next]_(Build!vars) PROVE [Step]_lock
    <2>1. lock' = lock \/ Build!WriteLock
      BY <1>1
      DEF Build!Next, Build!vars, Build!files, Build!Include, Build!Retire, Build!Forget,
          Build!Unrename, Build!Rename, Build!Detach, Build!Undetach, Build!Zones, Build!Edit,
          Build!Start, Build!Assign, Build!Hash, Build!WriteManifest, Build!WriteGeometry,
          Build!WriteBorders, Build!Stop
    <2>2. CASE Build!WriteLock
      <3>1. Keeps(lock, lock')  BY <1>1, <2>2, WriteLockIs
      <3> QED  BY <3>1 DEF Keeps
    <2> QED  BY <2>1, <2>2
  <1>2. Build!LockOnlyGrows <=> [][Step]_lock  BY DEF Build!LockOnlyGrows
  <1> HIDE DEF Step
  <1> QED  BY <1>1, <1>2, BuildInvariant, PTL DEF Build!Spec

-----------------------------------------------------------------------------
(***************************************************************************)
(* The world: a step of it is a step of one of its five parts, and what    *)
(* each of them keeps it keeps.                                            *)
(***************************************************************************)
LEMMA WorldStepOfEach ==
  [WorldNext]_worldVars =>
    /\ [Picture!Next]_(Picture!vars) /\ [Admin!Next]_(Admin!vars)
    /\ [Number!Next]_(Number!vars) /\ [Map!Next]_(Map!vars) /\ [Build!Next]_(Build!vars)
  <1>1. UNCHANGED pictureVars => UNCHANGED Picture!vars  BY DEF pictureVars, Picture!vars
  <1>2. UNCHANGED adminVars => UNCHANGED Admin!vars
    BY DEF adminVars, Admin!vars, Admin!world, Admin!journal, Admin!door
  <1>3. UNCHANGED numberVars => UNCHANGED Number!vars  BY DEF numberVars, Number!vars
  <1>4. UNCHANGED provinceVars => UNCHANGED Map!vars  BY DEF provinceVars, Map!vars
  <1>5. UNCHANGED buildVars => UNCHANGED Build!vars  BY DEF buildVars, Build!vars, Build!files
  <1> QED  BY <1>1, <1>2, <1>3, <1>4, <1>5, Zenon DEF WorldNext, worldVars

THEOREM TheWorldIsItsParts ==
  WorldSpec => Picture!Spec /\ Admin!Spec /\ Number!Spec /\ Map!Spec /\ Build!Spec
  <1>1. WorldInit => Picture!Init /\ Admin!Init /\ Number!Init /\ Map!Init /\ Build!Init
    BY DEF WorldInit
  <1> QED
    BY <1>1, WorldStepOfEach, PTL
    DEF WorldSpec, Picture!Spec, Admin!Spec, Number!Spec, Map!Spec, Build!Spec

(* Pictures keep their owners and their place (images.py, service.py).     *)
THEOREM PicturesAreSafe == WorldSpec => PicturesAreKept
  <1>1. Picture!CropFits  BY PicturesCanBeCut, WorldAssumption
  <1>2. MaxFiled \in Nat  BY WorldAssumption
  <1> QED
    BY <1>1, <1>2, TheWorldIsItsParts, PicturesOwned, ReviewedStand, PicturesStayOnRecord, PTL
    DEF PicturesAreKept

(* Administrators and numbers (AdminGrantService, PanelLinkStore,          *)
(* ensure_player_numbers).                                                 *)
THEOREM PeopleAreSafe == WorldSpec => PeopleAreKept
  <1>1. Limited /\ MaxPlayers \in Nat  BY WorldAssumption
  <1> QED
    BY <1>1, TheWorldIsItsParts, GrantsArePlayers, LastAdminIsKept, LinksOpenOnce,
       JournalStaysBounded, NumbersAreOnes, NumbersInOrder, PTL
    DEF PeopleAreKept

(* The map and the world (startup_map, ProvinceService, get_map_manifest). *)
THEOREM MapIsFollowed == WorldSpec => WorldFollowsMap
  <1>1. MapsAreFinite  BY WorldAssumption
  <1> QED
    BY <1>1, TheWorldIsItsParts, JournalTellsTheOwner, ProvincesFollowTheMap, TagsAreTrue,
       BootsTakeNothing, ReportsAreRight, PastStandsStill, AnswersStandStill, PTL
    DEF WorldFollowsMap

(* The ids and their lock (ids.py).                                        *)
THEOREM IdsAreKept == WorldSpec => IdsArePermanent
  <1>1. KeysAreNumbers  BY WorldAssumption
  <1> QED
    BY <1>1, TheWorldIsItsParts, IdsAreOnes, LockIsReadable, LockIsKept, PTL
    DEF IdsArePermanent

=============================================================================
