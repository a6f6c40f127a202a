------------------------------ MODULE Patches -------------------------------
(***************************************************************************)
(* The geometry patches of the map pipeline (tools/map_pipeline): the      *)
(* provinces of the source are cut, joined and split by the entries of     *)
(* overrides.yaml, in their order, and parts are dropped.  A province is   *)
(* the set of cells it covers, a part of it a connected piece; area is a   *)
(* number of cells.  An entry that is wrong leaves everything as it was    *)
(* and stops the run after the last one.                                   *)
(***************************************************************************)
EXTENDS Integers, Sequences, FiniteSets, SequencesExt, FiniteSetsExt

CONSTANTS
  Touch,         \* cell -> the cells it shares an edge with
  Close,         \* cell -> the cells with a gap under _PART_GAP to it
  Worlds,        \* what may be in the files: [owner, rename, patches, drop, keep, ...]
  MinSplit,      \* _MIN_SPLIT_AREA
  MinPart        \* isolated.min_part_area

VARIABLES
  world,     \* the files
  land,      \* geoms: source name -> cells
  byKey,     \* key -> source name
  next,      \* the entry whose turn it is
  failed,    \* errors were found
  nodes,     \* key -> source name, of the provinces in the game
  stage

vars == <<world, land, byKey, next, failed, nodes, stage>>

(* The pieces a set of cells falls into, linked cell by cell.              *)
RECURSIVE Spread(_, _, _)
Spread(front, cells, linked) ==
  LET more == (UNION {linked[f] : f \in front} \cap cells) \ front
  IN IF more = {} THEN front ELSE Spread(front \cup more, cells, linked)

Pieces(cells, linked) == {Spread({c}, cells, linked) : c \in cells}

PolygonsOf(cells) == Pieces(cells, Touch)
Clusters(cells)   == Pieces(cells, Close)
Adjoins(a, b)     == \E c \in a : Touch[c] \cap b # {}
With(f, k, v)     == [i \in DOMAIN f \cup {k} |-> IF i = k THEN v ELSE f[i]]

-----------------------------------------------------------------------------
(* A variant with a mistake in it: renames are not looked up.              *)
KeyItself(w, k) == k

(* The source province a key stands for.                                   *)
SourceOf(w, k) == LET r == {x \in w.renames : x.to = k} IN IF r = {} THEN k ELSE (CHOOSE x \in r : TRUE).from
KeyOf(w, n)    == LET r == {x \in w.renames : x.from = n} IN IF r = {} THEN n ELSE (CHOOSE x \in r : TRUE).to

Init ==
  /\ world \in Worlds
  /\ land = world.owner
  /\ byKey = [k \in DOMAIN world.owner \cup {r.to : r \in world.renames} |-> SourceOf(world, k)]
  /\ nodes = [k \in {KeyOf(world, n) : n \in world.include \ world.technical} |-> SourceOf(world, k)]
  /\ next = 1 /\ failed = FALSE /\ stage = "patching"

Entry(kind) ==
  /\ stage = "patching" /\ next <= Len(world.patches)
  /\ world.patches[next].kind = kind
  /\ next' = next + 1 /\ UNCHANGED <<world, stage>>

Reject == failed' = TRUE /\ UNCHANGED <<land, byKey, nodes>>

Known(k) == k \in DOMAIN byKey

(* A variant with a mistake in it: what was cut off stays where it was.    *)
NothingLeft(old, cut) == old

Left(old, cut) == old \ cut

(* transfer: the land of one province inside a polygon joins another.  The *)
(* cut is one piece that touches the receiver; what is left of the giver   *)
(* may fall apart only where drop_parts or keep_parts says so.             *)
Transfer ==
  LET p == world.patches[next]  giver == byKey[p.from]  taker == byKey[p.to]
      cut    == land[giver] \cap p.cells
      rest   == Left(land[giver], cut)
      listed == {c \in UNION PolygonsOf(rest) : <<p.from, c>> \in world.drop \cup world.keep}
      main   == CHOOSE q \in PolygonsOf(rest) : \A o \in PolygonsOf(rest) : Cardinality(o) <= Cardinality(q)
      fits   == /\ p.from # p.to /\ Known(p.from) /\ Known(p.to)
                /\ Cardinality(PolygonsOf(cut)) = 1 /\ Adjoins(cut, land[taker])
                /\ rest # {}
                /\ \A q \in PolygonsOf(rest) \ {main} : q \cap listed # {}
                /\ Cardinality(PolygonsOf(land[taker] \cup cut)) = 1
  IN /\ Entry("transfer")
     /\ IF ~fits THEN Reject
        ELSE /\ land' = [land EXCEPT ![giver] = rest, ![taker] = @ \cup cut]
             /\ UNCHANGED <<byKey, nodes, failed>>

(* The cluster of a province a point falls into, {} when there is none.    *)
ClusterAt(cells, c) == IF c \in cells THEN CHOOSE q \in Clusters(cells) : c \in q ELSE {}

(* transfer_part: a cluster moves whole.                                   *)
TransferPart ==
  LET p == world.patches[next]  giver == byKey[p.from]  taker == byKey[p.to]
      moved == ClusterAt(land[giver], p.at)
      fits  == /\ p.from # p.to /\ Known(p.from) /\ Known(p.to) /\ giver # taker
               /\ moved # {} /\ moved # land[giver]
               /\ IF Adjoins(moved, land[taker])
                  THEN Cardinality(PolygonsOf(land[taker] \cup moved)) = 1
                  ELSE p.detached
  IN /\ Entry("transfer_part")
     /\ IF ~fits THEN Reject
        ELSE /\ land' = [land EXCEPT ![giver] = @ \ moved, ![taker] = @ \cup moved]
             /\ UNCHANGED <<byKey, nodes, failed>>

NewNode(p, cells, giver, rest) ==
  /\ land' = With([land EXCEPT ![giver] = rest], p.new, cells)
  /\ byKey' = With(byKey, p.new, p.new)
  /\ nodes' = With(nodes, p.new, p.new)
  /\ UNCHANGED failed

(* detach: the clusters at the points leave for a province of their own.   *)
Detach ==
  LET p == world.patches[next]  giver == byKey[p.from]
      taken == UNION {ClusterAt(land[giver], c) : c \in p.points}
      fits  == /\ Known(p.from) /\ ~Known(p.new) /\ p.new \notin DOMAIN land
               /\ p.points \subseteq land[giver]
               /\ \A c, d \in p.points : c # d => ClusterAt(land[giver], c) # ClusterAt(land[giver], d)
               /\ taken # land[giver]
  IN /\ Entry("detach")
     /\ IF fits THEN NewNode(p, taken, giver, land[giver] \ taken) ELSE Reject

(* split: a line cuts one province in two; keep_point says which half      *)
(* stays.  The line is the set of cells on one side of it.                 *)
Split ==
  LET p == world.patches[next]  giver == byKey[p.from]
      halves == PolygonsOf(land[giver] \cap p.cells) \cup PolygonsOf(land[giver] \ p.cells)
      stays  == CHOOSE q \in halves : p.at \in q
      fits   == /\ Known(p.from) /\ ~Known(p.new) /\ p.new \notin DOMAIN land
                /\ Cardinality(PolygonsOf(land[giver])) = 1 /\ Cardinality(halves) = 2
                /\ \A q \in halves : Cardinality(q) >= MinSplit
                /\ p.at \in land[giver]
  IN /\ Entry("split")
     /\ IF fits THEN NewNode(p, land[giver] \ stays, giver, stays) ELSE Reject

(* drop_parts: whole parts of provinces in the game are left out; none     *)
(* twice, and never the last one.                                          *)
PartAt(k, c) == {q \in PolygonsOf(land[nodes[k]]) : c \in q}

DropParts ==
  LET hits(k)    == UNION {PartAt(d[1], d[2]) : d \in {e \in world.drop : e[1] = k}}
      dropped(k) == UNION hits(k)
      fits == /\ \A d \in world.drop : d[1] \in DOMAIN nodes /\ PartAt(d[1], d[2]) # {}
              /\ \A d, e \in world.drop :
                   d # e /\ d[1] = e[1] => PartAt(d[1], d[2]) # PartAt(e[1], e[2])
              /\ \A k \in DOMAIN nodes : dropped(k) # land[nodes[k]]
  IN /\ stage = "patching" /\ next > Len(world.patches)
     /\ IF failed \/ ~fits THEN stage' = "failed" /\ UNCHANGED land
        ELSE /\ stage' = "dropped"
             /\ land' = [n \in DOMAIN land |->
                  land[n] \ UNION {dropped(k) : k \in {j \in DOMAIN nodes : nodes[j] = n}}]
     /\ UNCHANGED <<world, byKey, next, failed, nodes>>

(* A part all of whose neighbours are out of the game is an error, unless  *)
(* keep_parts lists it.  Neighbours technically excluded do not count.     *)
Isolated(k, part) ==
  LET others == {n \in DOMAIN land \ (world.technical \cup {nodes[k]}) :
                   \E c \in part : Close[c] \cap land[n] # {}}
  IN /\ Cardinality(part) >= MinPart
     /\ others # {} /\ others \cap world.include = {}
     /\ \A c \in part : <<k, c>> \notin world.keep

CheckIsolated ==
  /\ stage = "dropped"
  /\ stage' = IF \E k \in DOMAIN nodes : \E part \in PolygonsOf(land[nodes[k]]) : Isolated(k, part)
              THEN "failed" ELSE "done"
  /\ UNCHANGED <<world, land, byKey, next, failed, nodes>>

Next == Transfer \/ TransferPart \/ Detach \/ Split \/ DropParts \/ CheckIsolated

-----------------------------------------------------------------------------
(* Properties.                                                             *)

Cells(f) == UNION {f[n] : n \in DOMAIN f}

TypeOK ==
  /\ stage \in {"patching", "dropped", "done", "failed"} /\ failed \in BOOLEAN
  /\ \A k \in DOMAIN nodes : nodes[k] \in DOMAIN land
  /\ \A k \in DOMAIN byKey : byKey[k] \in DOMAIN land

(* Whatever is moved, cut and renamed, no land is lost, made or in two     *)
(* provinces; only drop_parts leaves any out, and what it leaves out was   *)
(* pointed at.                                                             *)
LandIsConserved ==
  /\ \A m, n \in DOMAIN land : m # n => land[m] \cap land[n] = {}
  /\ Cells(land) \subseteq Cells(world.owner)
  /\ stage = "patching" => Cells(land) = Cells(world.owner)
  /\ \A c \in Cells(world.owner) \ Cells(land) : world.drop # {}

(* Every province of the game has land of its own, and no two nodes share  *)
(* a province, whatever keys they go by.                                   *)
EveryNodeHasLand ==
  /\ \A j, k \in DOMAIN nodes : j # k => nodes[j] # nodes[k]
  /\ \A k \in DOMAIN nodes : land[nodes[k]] # {}
=============================================================================
