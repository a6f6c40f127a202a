------------------------------ MODULE MapBuild ------------------------------
(***************************************************************************)
(* The files of the map: the inputs people edit, the lock that gives every *)
(* node its id, and the three files the pipeline builds from them          *)
(* (tools/map_pipeline), read by the server (module 01_map, loader.py).    *)
(* A run reads the inputs, assigns the ids, hashes the inputs again and    *)
(* writes file after file; it may be stopped between any two.              *)
(*                                                                         *)
(* Keys are numbers; a province of the source has the key its name gives.  *)
(* A file is what it was made of, and so is its hash.                      *)
(***************************************************************************)
EXTENDS Integers, Sequences, FiniteSets, FiniteSetsExt

CONSTANTS
  Name,        \* provinces of source/map.svg
  Spare,       \* other keys, for renames and new provinces
  Sea,         \* keys that look like a sea zone
  Patient,     \* nobody edits while a run is under way
  MaxEdits,    \* bound
  MaxCareless, \* bound: edits when some of them are careless
  MaxStops     \* bound: runs that are killed

VARIABLES
  inputs,      \* boundary.yaml and overrides.yaml
  lock,        \* ids.lock.json
  manifest, geometry, borders,
  job,         \* the run under way
  known,       \* <<province, id>> of every lock written
  taken,       \* keys that were ever some node's
  careless,    \* somebody took a rename or a retirement back, or used a key again
  edits, stops

files == <<lock, manifest, geometry, borders>>
vars  == <<inputs, files, job, known, taken, careless, edits, stops>>

None == [none |-> TRUE]
Idle == [pc |-> "idle"]
NoLock == [ids |-> <<>>, prev |-> <<>>]

Init ==
  /\ inputs = [include |-> {Min(Name)}, exclude |-> {}, renames |-> <<>>, fresh |-> {}, seas |-> {}]
  /\ lock = NoLock /\ manifest = None /\ geometry = None /\ borders = None
  /\ job = Idle /\ known = {} /\ taken = {Min(Name)} /\ careless = FALSE /\ edits = 0 /\ stops = 0

-----------------------------------------------------------------------------
(* People edit the inputs between the runs.                                *)

From(rs)  == {rs[i].from : i \in 1..Len(rs)}
To(rs)    == {rs[i].to : i \in 1..Len(rs)}
KeyOf(in, n) == LET i == {j \in 1..Len(in.renames) : in.renames[j].from = n}
                IN IF i = {} THEN n ELSE in.renames[Min(i)].to
LandKeys(in) == {KeyOf(in, n) : n \in in.include} \cup in.fresh
Keys(in)     == LandKeys(in) \cup in.seas

Edit(in, carelessly) ==
  /\ Patient => job = Idle
  /\ careless' = (careless \/ carelessly)
  /\ edits < (IF careless' THEN MaxCareless ELSE MaxEdits) /\ edits' = edits + 1
  /\ inputs' = in /\ taken' = taken \cup Keys(in)
  /\ UNCHANGED <<files, job, known, stops>>

Include(n) ==
  /\ n \notin inputs.include
  /\ Edit([inputs EXCEPT !.include = @ \cup {n}, !.exclude = @ \ {n}],
          n \in taken \ inputs.exclude)

Retire(n) ==
  /\ n \in inputs.include
  /\ Edit([inputs EXCEPT !.include = @ \ {n}, !.exclude = @ \cup {n}], n \in From(inputs.renames))

Forget(n) ==
  /\ n \in inputs.exclude
  /\ Edit([inputs EXCEPT !.exclude = @ \ {n}], TRUE)

(* The list without the entry for n.                                       *)
Others(rs, n) ==
  LET i == {j \in 1..Len(rs) : rs[j].from = n}
  IN IF i = {} THEN rs
     ELSE [j \in 1..(Len(rs) - 1) |-> IF j < Min(i) THEN rs[j] ELSE rs[j + 1]]

Rename(n, k) ==
  /\ n \in inputs.include
  /\ Edit([inputs EXCEPT !.renames = Append(Others(@, n), [from |-> n, to |-> k])], k \in taken)

Unrename(n) ==
  /\ n \in From(inputs.renames)
  /\ Edit([inputs EXCEPT !.renames = Others(@, n)], TRUE)

\* A split or detach patch; without it the province is gone.
Detach(k) ==
  /\ k \notin inputs.fresh
  /\ Edit([inputs EXCEPT !.fresh = @ \cup {k}], k \in taken)

Undetach(k) == k \in inputs.fresh /\ Edit([inputs EXCEPT !.fresh = @ \ {k}], FALSE)

Zones(z) ==
  Edit([inputs EXCEPT !.seas = IF z \in @ THEN @ \ {z} ELSE @ \cup {z}], FALSE)

-----------------------------------------------------------------------------
(* What the tool makes of the inputs.                                      *)

(* collect_reference_errors: keys that collide, names of nobody.           *)
ReferencesHold(in) ==
  LET names == in.include \cup in.exclude  rs == in.renames
  IN /\ in.include \cap in.exclude = {}
     /\ From(rs) \subseteq in.include
     /\ \A i, j \in 1..Len(rs) : i # j => rs[i].from # rs[j].from /\ rs[i].to # rs[j].to
     /\ To(rs) \cap (names \cup in.seas \cup in.fresh \cup Sea) = {}
     /\ in.fresh \cap (names \cup Sea) = {}

(* IdsLock: a former key is nobody's key, an id is one key's.              *)
Loadable(l) ==
  /\ DOMAIN l.prev \subseteq DOMAIN l.ids
  /\ \A k \in DOMAIN l.prev : l.prev[k] # {} /\ l.prev[k] \cap DOMAIN l.ids = {}
  /\ \A j, k \in DOMAIN l.ids : j # k => l.ids[j] # l.ids[k]

With(f, k, v) == [i \in DOMAIN f \cup {k} |-> IF i = k THEN v ELSE f[i]]
Without(f, k) == [i \in DOMAIN f \ {k} |-> f[i]]
Past(l, k)    == IF k \in DOMAIN l.prev THEN l.prev[k] ELSE {}

(* Who has the id of a key that is renamed: the key, or the one that       *)
(* replaced it before.                                                     *)
Holders(l, r) ==
  IF r.from \in DOMAIN l.ids THEN {r.from}
  ELSE IF r.to \in DOMAIN l.ids THEN {}
  ELSE {k \in DOMAIN l.ids : r.from \in Past(l, k)}

(* A variant with a mistake in it: the keys before one that gives its id   *)
(* up are lost.                                                            *)
KeyAlone(l, k) == {k}

ChainOf(l, k) == Past(l, k) \cup {k}

Move(l, r) ==
  LET h == Min(Holders(l, r))
  IN IF ~l.ok THEN l
     ELSE IF Holders(l, r) = {}
     THEN [ok |-> TRUE, ids |-> l.ids, prev |-> With(l.prev, r.to, Past(l, r.to) \cup {r.from})]
     ELSE [ok   |-> r.to \notin DOMAIN l.ids,
           ids  |-> With(Without(l.ids, h), r.to, l.ids[h]),
           prev |-> With(Without(l.prev, h), r.to, Past(l, r.to) \cup ChainOf(l, h))]

(* _apply_renames: one after the other, in the order of the file.          *)
Moves(l, rs) ==
  LET m[i \in 0..Len(rs)] ==
        IF i = 0 THEN [ok |-> TRUE, ids |-> l.ids, prev |-> l.prev] ELSE Move(m[i - 1], rs[i])
  IN m

(* The keys still without an id get the next ones: land first, each kind   *)
(* in order.                                                               *)
Before(in, j, k) ==
  IF j \in LandKeys(in) THEN k \in LandKeys(in) => j <= k ELSE k \notin LandKeys(in) /\ j <= k
Place(in, new, k) == Cardinality({j \in new : Before(in, j, k)})

Highest(ids) == Max({0} \cup {ids[k] : k \in DOMAIN ids})

(* assign_ids: a key that is gone and not retired stops the run.           *)
Assigned(l, in) ==
  LET moved == Moves(l, in.renames)[Len(in.renames)]
      new   == Keys(in) \ DOMAIN moved.ids
      top   == Highest(moved.ids)
  IN [ok   |-> moved.ok /\ DOMAIN moved.ids \subseteq Keys(in) \cup in.exclude,
      ids  |-> [k \in DOMAIN moved.ids \cup new |->
                  IF k \in new THEN top + Place(in, new, k) ELSE moved.ids[k]],
      prev |-> moved.prev]

LockOf(a) == [ids |-> a.ids, prev |-> a.prev]

(* The documents a build writes: nodes with their ids, their paths, their  *)
(* lines; the manifest has the hashes of the others and of the inputs.     *)
Paths(in, ids) == [of |-> in, ids |-> [k \in Keys(in) |-> ids[k]]]
ManifestOf(in, hashed, a) ==
  [nodes |-> [k \in Keys(in) |-> a.ids[k]], hash |-> hashed, ids_lock |-> LockOf(a),
   geometry |-> Paths(in, a.ids), borders |-> Paths(in, a.ids)]

-----------------------------------------------------------------------------
(* A run: nodes and graph write the lock, build writes everything.         *)

Start(command) ==
  /\ job = Idle
  /\ ReferencesHold(inputs) /\ inputs.include # {}
  /\ job' = [pc |-> "prepared", command |-> command, in |-> inputs]
  /\ UNCHANGED <<inputs, files, known, taken, careless, edits, stops>>

Assign ==
  /\ job.pc = "prepared"
  /\ LET a == Assigned(lock, job.in)
     IN job' = IF ~Loadable(lock) \/ ~a.ok THEN Idle
               ELSE [pc |-> "assigned", command |-> job.command, in |-> job.in, a |-> a]
  /\ UNCHANGED <<inputs, files, known, taken, careless, edits, stops>>

(* The manifest is put together, with the hashes of the files as they are. *)
Hash ==
  /\ job.pc = "assigned" /\ job.command = "build"
  /\ job' = [pc |-> "hashed", command |-> "build", in |-> job.in, a |-> job.a, hash |-> inputs]
  /\ UNCHANGED <<inputs, files, known, taken, careless, edits, stops>>

Province(in, k) == IF \E n \in in.include : KeyOf(in, n) = k
                   THEN CHOOSE n \in in.include : KeyOf(in, n) = k ELSE k

WriteLock ==
  /\ job.pc \in {"assigned", "hashed"} /\ (job.pc = "assigned" => job.command # "build")
  /\ lock' = LockOf(job.a)
  /\ known' = known \cup {<<Province(job.in, k), job.a.ids[k]>> : k \in Keys(job.in)}
  /\ job' = IF job.command = "build" THEN [job EXCEPT !.pc = "locked"] ELSE Idle
  /\ UNCHANGED <<inputs, manifest, geometry, borders, taken, careless, edits, stops>>

WriteManifest ==
  /\ job.pc = "locked" /\ manifest' = ManifestOf(job.in, job.hash, job.a)
  /\ job' = [job EXCEPT !.pc = "listed"]
  /\ UNCHANGED <<inputs, lock, geometry, borders, known, taken, careless, edits, stops>>

WriteGeometry ==
  /\ job.pc = "listed" /\ geometry' = Paths(job.in, job.a.ids)
  /\ job' = [job EXCEPT !.pc = "drawn"]
  /\ UNCHANGED <<inputs, lock, manifest, borders, known, taken, careless, edits, stops>>

WriteBorders ==
  /\ job.pc = "drawn" /\ borders' = Paths(job.in, job.a.ids) /\ job' = Idle
  /\ UNCHANGED <<inputs, lock, manifest, geometry, known, taken, careless, edits, stops>>

Stop ==
  /\ job # Idle /\ stops < MaxStops /\ stops' = stops + 1 /\ job' = Idle
  /\ UNCHANGED <<inputs, files, known, taken, careless, edits>>

Next ==
  \/ \E n \in Name : Include(n) \/ Retire(n) \/ Forget(n) \/ Unrename(n)
                     \/ \E k \in Spare \cup Name : Rename(n, k)
  \/ \E k \in Spare : Detach(k) \/ Undetach(k)
  \/ \E z \in Sea : Zones(z)
  \/ \E c \in {"nodes", "build"} : Start(c)
  \/ Assign \/ Hash \/ WriteLock \/ WriteManifest \/ WriteGeometry \/ WriteBorders \/ Stop

Spec == Init /\ [][Next]_vars

-----------------------------------------------------------------------------
(* The server reads the files: what it refuses to start with.              *)

\* inputs_sha256: what the manifest has noted is what is there.
InputsHash == inputs
InvM10 == manifest.hash = InputsHash /\ manifest.ids_lock = lock

InvM1  == \A k \in DOMAIN manifest.nodes : k \in DOMAIN lock.ids /\ lock.ids[k] = manifest.nodes[k]
InvM6  == /\ geometry = manifest.geometry /\ borders = manifest.borders
          /\ DOMAIN geometry.ids = DOMAIN manifest.nodes

Exists   == manifest # None /\ geometry # None /\ borders # None /\ lock # NoLock
Accepted == Exists /\ InvM1 /\ InvM6 /\ InvM10

-----------------------------------------------------------------------------
(* Properties.                                                             *)

TypeOK ==
  /\ inputs.include \subseteq Name /\ inputs.exclude \subseteq Name
  /\ DOMAIN lock.ids \subseteq Name \cup Spare \cup Sea
  /\ job.pc \in {"idle", "prepared", "assigned", "hashed", "locked", "listed", "drawn"}
  /\ edits \in 0..MaxEdits /\ stops \in 0..MaxStops

(* An id is one province's for ever, through renames of the key, through   *)
(* retirement and return, and through runs that were stopped; no province  *)
(* gets a second one; unless somebody was careless.                        *)
IdsFollowProvinces ==
  ~careless => \A s, t \in known : (s[1] = t[1]) <=> (s[2] = t[2])

(* The lock only grows, and a key that gives its id up stays in the chain  *)
(* of the one that has it now.                                             *)
LockOnlyGrows ==
  [][\A k \in DOMAIN lock.ids :
       \E j \in DOMAIN lock'.ids :
         /\ lock'.ids[j] = lock.ids[k]
         /\ j = k \/ k \in Past(lock', j)
         /\ j # k => Past(lock, k) \subseteq Past(lock', j)]_lock

(* The lock a run has written the next one can read; again, unless         *)
(* somebody was careless.                                                  *)
LockStaysLoadable == ~careless => Loadable(lock)

(* What the server starts with is what a run over the present inputs would *)
(* write: nothing half written, nothing built from older inputs or from    *)
(* another lock.                                                           *)
AcceptedIsCurrent ==
  Accepted /\ ~careless =>
    /\ Assigned(lock, inputs).ok /\ LockOf(Assigned(lock, inputs)) = lock
    /\ manifest = ManifestOf(inputs, inputs, Assigned(lock, inputs))
    /\ geometry = manifest.geometry /\ borders = manifest.borders
=============================================================================
