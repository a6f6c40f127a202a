------------------------------ MODULE Pictures ------------------------------
(***************************************************************************)
(* The flags and portraits of module 00_core: a player uploads them for    *)
(* the draft of an application or for the nation, the acceptance hands the *)
(* application's pictures to the nation, an administrator removes one, and *)
(* whatever deletes an owner deletes its pictures.                         *)
(*                                                                         *)
(* An upload ends its reading transaction before the body arrives, so the  *)
(* world may change until it writes.  The session keeps the application it *)
(* loaded (expire_on_commit is off): the second look at its status sees    *)
(* the status of the first.  What a row holds is one file, the content     *)
(* key of the picture that was encoded of it.                              *)
(***************************************************************************)
EXTENDS Integers, FiniteSets

CONSTANTS
  Player,
  Session,      \* uploads and deletions under way at the same time
  Kind,         \* the kinds of pictures in play: flag, portrait
  File,         \* sha256 of encoded pictures
  Raw,          \* what is uploaded: [w, h, turned, known, sound]
  Target,       \* [Kind -> <<width, height>>]
  MaxPixels, MaxSide,
  MaxFiled,     \* bound: applications filed
  MaxUploads,   \* bound: uploads begun
  MaxActs       \* bound: deletions and resets

VARIABLES
  app,          \* nation_applications: [status, owner]
  filed,        \* applications filed so far
  nations,      \* the accepted applications whose nation is there
  rows,         \* nation_images
  lastId,       \* its last id
  tx,           \* what each session has read
  audit,        \* what the journal says was removed: [id, owner, file]
  left          \* uploads, deletions and resets left

vars == <<app, filed, nations, rows, lastId, tx, audit, left>>

Filing == 1..MaxFiled
NoApplication == [status |-> "none"]
Idle == [phase |-> "idle"]
Owner == {"application", "nation"} \X Filing
None == 0

Of(o, k) == {r \in rows : r.owner = o /\ r.kind = k}
Live(p) == {a \in Filing : app[a].status \in {"DRAFT", "PENDING"} /\ app[a].owner = p}
NationOf(p) == {a \in nations : app[a].owner = p}

(* The owner's row is there: its foreign key holds.                        *)
Exists(o) == IF o[1] = "nation" THEN o[2] \in nations ELSE app[o[2]].status # "none"

Init ==
  /\ app = [a \in Filing |-> NoApplication] /\ filed = 0 /\ nations = {}
  /\ rows = {} /\ lastId = 0 /\ audit = {}
  /\ tx = [s \in Session |-> Idle]
  /\ left = [uploads |-> MaxUploads, acts |-> MaxActs]

-----------------------------------------------------------------------------
(* process_image.                                                          *)

(* The size shown after the EXIF rotation, and whether it lies as the kind *)
(* must.                                                                   *)
Shown(raw) == IF raw.turned THEN <<raw.h, raw.w>> ELSE <<raw.w, raw.h>>
Lies(raw, k) == LET d == Shown(raw) IN IF k = "flag" THEN d[1] > d[2] ELSE d[2] > d[1]

(* The first check that fails: the type, the limits of the header, the     *)
(* orientation, the decoding.                                              *)
Judge(raw, k) ==
  IF ~raw.known THEN "unsupported"
  ELSE IF raw.w * raw.h > MaxPixels \/ raw.w > MaxSide \/ raw.h > MaxSide THEN "large"
  ELSE IF ~Lies(raw, k) THEN "orientation"
  ELSE IF ~raw.sound THEN "unsupported" ELSE "ok"

(* The largest rectangle of the target's proportion, and where it starts.  *)
Crop(src, t) ==
  IF src[1] * t[2] > src[2] * t[1]
  THEN <<(src[2] * t[1]) \div t[2], src[2]>>
  ELSE <<src[1], (src[1] * t[2]) \div t[1]>>
Corner(src, t) == <<(src[1] - Crop(src, t)[1]) \div 2, (src[2] - Crop(src, t)[2]) \div 2>>

-----------------------------------------------------------------------------
(* The world around: applications and nations come and go.                 *)

Draft(p) ==
  /\ Live(p) = {} /\ NationOf(p) = {} /\ filed < MaxFiled
  /\ filed' = filed + 1
  /\ app' = [app EXCEPT ![filed + 1] = [status |-> "DRAFT", owner |-> p]]
  /\ UNCHANGED <<nations, rows, lastId, tx, audit, left>>

Move(a, from, to) ==
  /\ app[a].status = from
  /\ app' = [app EXCEPT ![a].status = to]
  /\ UNCHANGED <<filed, nations, rows, lastId, tx, audit, left>>

(* accept: UPDATE nation_images ... WHERE application_id.                  *)
Accept(a) ==
  /\ app[a].status = "PENDING"
  /\ app' = [app EXCEPT ![a].status = "ACCEPTED"]
  /\ nations' = nations \cup {a}
  /\ rows' = {IF r.owner = <<"application", a>> THEN [r EXCEPT !.owner = <<"nation", a>>] ELSE r :
              r \in rows}
  /\ UNCHANGED <<filed, lastId, tx, audit, left>>

(* The explicit deletes before an owner goes.                              *)
Purge(owners) == rows' = {r \in rows : r.owner \notin owners}

Act == left.acts > 0 /\ left' = [left EXCEPT !.acts = @ - 1]

DeleteNation(a) ==
  /\ Act
  /\ nations' = nations \ {a} /\ Purge({<<"nation", a>>})
  /\ UNCHANGED <<app, filed, lastId, tx, audit>>

(* delete_player: the nation and all applications, whatever their status.  *)
Evict(p) ==
  LET his == {a \in Filing : app[a].status # "none" /\ app[a].owner = p} IN
  /\ Act /\ his # {}
  /\ nations' = nations \ his
  /\ app' = [a \in Filing |-> IF a \in his THEN NoApplication ELSE app[a]]
  /\ Purge({"application", "nation"} \X his)
  /\ UNCHANGED <<filed, lastId, tx, audit>>

Reset ==
  /\ Act
  /\ nations' = {} /\ app' = [a \in Filing |-> NoApplication] /\ rows' = {}
  /\ UNCHANGED <<filed, lastId, tx, audit>>

-----------------------------------------------------------------------------
(* Uploads.                                                                *)

(* put_nation_image, put_application_image: the owner is found, whatever   *)
(* the application's status; the transaction ends.                         *)
Ask(s) ==
  /\ tx[s] = Idle /\ left.uploads > 0
  /\ left' = [left EXCEPT !.uploads = @ - 1]
  /\ \E p \in Player, k \in Kind :
       \/ \E a \in Live(p) :
            tx' = [tx EXCEPT ![s] = [phase |-> "body", owner |-> <<"application", a>>, kind |-> k,
                                     seen |-> app[a].status]]
       \/ \E a \in NationOf(p) :
            tx' = [tx EXCEPT ![s] = [phase |-> "body", owner |-> <<"nation", a>>, kind |-> k,
                                     seen |-> "nation"]]
  /\ UNCHANGED <<app, filed, nations, rows, lastId, audit>>

Stop(s) ==
  /\ tx' = [tx EXCEPT ![s] = Idle]
  /\ UNCHANGED <<app, filed, nations, rows, lastId, audit, left>>

(* The body is read and judged and encoded, one picture at a time, to one  *)
(* of the files; or it is too long or refused.                             *)
Process(s) ==
  /\ tx[s].phase = "body"
  /\ \/ Stop(s)
     \/ /\ \E raw \in Raw : Judge(raw, tx[s].kind) = "ok"
        /\ \E f \in File :
             tx' = [tx EXCEPT ![s] = [phase |-> "look", owner |-> tx[s].owner, kind |-> tx[s].kind,
                                      seen |-> tx[s].seen, file |-> f]]
        /\ UNCHANGED <<app, filed, nations, rows, lastId, audit, left>>

\* a variant: the application's status is not looked at
WelcomeAll(t) == IF t.seen = "nation" THEN Exists(t.owner) ELSE TRUE

(* The check of the writing transaction: the nation is looked for anew, of *)
(* the application the status that was loaded.                             *)
Welcome(t) == IF t.seen = "nation" THEN Exists(t.owner) ELSE t.seen = "DRAFT"

(* ... and SELECT the owner's row of the kind.                             *)
Found(t) == IF Of(t.owner, t.kind) = {} THEN None
            ELSE (CHOOSE r \in Of(t.owner, t.kind) : TRUE).id

Look(s) ==
  /\ tx[s].phase = "look"
  /\ IF Welcome(tx[s])
     THEN tx' = [tx EXCEPT ![s] = [phase |-> "write", owner |-> @.owner, kind |-> @.kind,
                                   seen |-> @.seen, file |-> @.file, id |-> Found(tx[s])]]
     ELSE tx' = [tx EXCEPT ![s] = Idle]
  /\ UNCHANGED <<app, filed, nations, rows, lastId, audit, left>>

(* The upload was let in by a status the application no longer has.        *)
Late(t) == t.owner[1] = "application" /\ app[t.owner[2]].status # t.seen

(* INSERT through a savepoint, and the commit.                             *)
Insert(s) ==
  /\ tx[s].phase = "write" /\ tx[s].id = None
  /\ Exists(tx[s].owner) /\ Of(tx[s].owner, tx[s].kind) = {}
  /\ lastId' = lastId + 1
  /\ rows' = rows \cup {[id |-> lastId + 1, owner |-> tx[s].owner, kind |-> tx[s].kind,
                         file |-> tx[s].file, late |-> Late(tx[s])]}
  /\ tx' = [tx EXCEPT ![s] = Idle]
  /\ UNCHANGED <<app, filed, nations, audit, left>>

(* IntegrityError: another row of the kind - read it, it may have gone -   *)
(* or no owner.                                                            *)
Collide(s) ==
  /\ tx[s].phase = "write" /\ tx[s].id = None
  /\ ~Exists(tx[s].owner) \/ Of(tx[s].owner, tx[s].kind) # {}
  /\ \/ Stop(s)
     \/ /\ Of(tx[s].owner, tx[s].kind) # {}
        /\ tx' = [tx EXCEPT ![s].id = Found(tx[s])]
        /\ UNCHANGED <<app, filed, nations, rows, lastId, audit, left>>

(* _apply_image: UPDATE ... WHERE id, whoever the row belongs to by then;  *)
(* StaleDataError if there is none.                                        *)
Rewrite(s) ==
  /\ tx[s].phase = "write" /\ tx[s].id # None
  /\ rows' = {IF r.id = tx[s].id
              THEN [r EXCEPT !.file = tx[s].file, !.late = @ \/ Late(tx[s])] ELSE r : r \in rows}
  /\ tx' = [tx EXCEPT ![s] = Idle]
  /\ UNCHANGED <<app, filed, nations, lastId, audit, left>>

-----------------------------------------------------------------------------
(* An administrator removes a picture: of a nation, or of an application   *)
(* that is not accepted.                                                   *)
Pick(s) ==
  /\ tx[s] = Idle /\ Act
  /\ \E r \in rows :
       /\ r.owner[1] = "application" => app[r.owner[2]].status \in {"DRAFT", "PENDING"}
       /\ tx' = [tx EXCEPT ![s] = [phase |-> "remove", id |-> r.id, owner |-> r.owner,
                                   file |-> r.file]]
  /\ UNCHANGED <<app, filed, nations, rows, lastId, audit>>

(* DELETE ... WHERE id, and the journal's row for what was read; a row     *)
(* that is not there any more is only warned of.                           *)
Remove(s) ==
  /\ tx[s].phase = "remove"
  /\ rows' = {r \in rows : r.id # tx[s].id}
  /\ audit' = audit \cup {[id |-> tx[s].id, owner |-> tx[s].owner, file |-> tx[s].file]}
  /\ tx' = [tx EXCEPT ![s] = Idle]
  /\ UNCHANGED <<app, filed, nations, lastId, left>>

Upload(s) == Ask(s) \/ Process(s) \/ Look(s) \/ Insert(s) \/ Collide(s) \/ Rewrite(s)

Next ==
  \/ \E p \in Player : Draft(p) \/ Evict(p)
  \/ \E a \in Filing : Move(a, "DRAFT", "PENDING") \/ Move(a, "PENDING", "DRAFT") \/ Accept(a)
  \/ \E a \in nations : DeleteNation(a)
  \/ Reset
  \/ \E s \in Session : Upload(s) \/ Pick(s) \/ Remove(s)

Spec == Init /\ [][Next]_vars

-----------------------------------------------------------------------------
TypeOK ==
  /\ app \in [Filing -> [status : {"DRAFT", "PENDING", "ACCEPTED"}, owner : Player]
                          \cup {NoApplication}]
  /\ filed \in 0..MaxFiled /\ nations \subseteq Filing
  /\ rows \subseteq [id : 1..lastId, owner : Owner, kind : Kind, file : File, late : BOOLEAN]
  /\ audit \subseteq [id : 1..lastId, owner : Owner, file : File]
  /\ DOMAIN tx = Session

(* INV-15: one picture of a kind; and a picture belongs to somebody who    *)
(* can show it, a nation or an application that is not accepted - unless   *)
(* an upload was let in by a status that had changed when it wrote.        *)
PicturesHaveOwners ==
  \A r \in rows :
    /\ Of(r.owner, r.kind) = {r}
    /\ ~r.late => /\ Exists(r.owner)
                  /\ r.owner[1] = "application" => app[r.owner[2]].status # "ACCEPTED"

Pictures(o) == {<<r.kind, r.file>> : r \in {q \in rows : q.owner = o}}

(* What the reviewers look at: the pictures of an application that stays   *)
(* pending change only by an administrator's removal - or by an upload     *)
(* that was let in while it was a draft.                                   *)
ReviewedPicturesStand ==
  [][\A a \in Filing : LET o == <<"application", a>> IN
       app[a].status = "PENDING" /\ app'[a].status = "PENDING" /\ Pictures(o)' # Pictures(o)
         => \E s \in Session : \/ tx[s].phase = "remove"
                               \/ tx[s].phase = "write" /\ Late(tx[s])]_vars

(* INV-19: a picture whose owner stays goes only by an administrator's     *)
(* removal, on record, or by a picture of its kind that replaces it; and   *)
(* a picture is never handed to anybody but the nation of its application. *)
PicturesLeaveOnRecord ==
  [][\A r \in rows :
       LET same == {q \in rows' : q.id = r.id} IN
       /\ same = {} /\ Exists(r.owner)' => \E e \in audit' : e.id = r.id
       /\ \A q \in same : q.kind = r.kind /\ q.owner[2] = r.owner[2]]_vars

(* What is accepted can be encoded: the crop is not empty, lies inside the *)
(* picture and has the target's proportion to the pixel.                   *)
CropFits ==
  \A raw \in Raw, k \in Kind : Judge(raw, k) = "ok" =>
    LET src == Shown(raw)  t == Target[k]
        c == Crop(src, t)  at == Corner(src, t)
    IN \A i \in {1, 2} :
         /\ c[i] > 0 /\ at[i] >= 0 /\ at[i] + c[i] <= src[i]
         /\ c[i] * t[3 - i] <= c[3 - i] * t[i] + t[i]

-----------------------------------------------------------------------------
(* Statements of the docs that the code does not keep.                     *)

(* 00_core_applications.md, the states: pictures are uploaded to a draft   *)
(* only, a pending application cannot be edited ("the DRAFT check repeats  *)
(* inside", router.py).                                                    *)
PendingPicturesStand ==
  [][\A a \in Filing : LET o == <<"application", a>> IN
       app[a].status = "PENDING" /\ app'[a].status = "PENDING" /\ Pictures(o)' # Pictures(o)
         => \E s \in Session : tx[s].phase = "remove"]_vars
=============================================================================
