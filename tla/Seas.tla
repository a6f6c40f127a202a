-------------------------------- MODULE Seas --------------------------------
(***************************************************************************)
(* The seas of the map pipeline (tools/map_pipeline/seas.py): the water    *)
(* near the game's land is shared out among the sea zones by a search that *)
(* starts from the seeds of all of them, and every other piece of water is *)
(* unknown sea, a bay or a lake.  The raster is a set of cells.            *)
(***************************************************************************)
EXTENDS Integers, Sequences, FiniteSets, SequencesExt, FiniteSetsExt

CONSTANTS
  Cell,
  Touch,     \* cell -> its neighbours up, down, left and right
  Window,    \* cell -> the cells within seed_snap_radius, nearest first
  Margin,    \* cell -> the cells within sea_margin of it
  LinkGap,   \* cell -> the cells within sea_link_gap of it
  LakeMax,   \* lake_max_area
  Waters     \* what may be in the files

VARIABLES
  world,     \* [land, playable, zones, outside, lakes, bays]
  working,   \* the water near the land of the game
  labels,    \* cell -> index of a zone, 0
  queue,     \* seeds placed, then the front of the search
  turn,      \* the seed whose turn it is, as <<zone, seed>>
  bad,       \* errors were found
  kinds,     \* cell -> what it is
  stage

vars == <<world, working, labels, queue, turn, bad, kinds, stage>>

RECURSIVE Spread(_, _)
Spread(front, cells) ==
  LET more == (UNION {Touch[f] : f \in front} \cap cells) \ front
  IN IF more = {} THEN front ELSE Spread(front \cup more, cells)

Bodies(cells) == {Spread({c}, cells) : c \in cells}

Water   == Cell \ world.land
Band    == UNION {Margin[c] : c \in world.playable}
Zone    == 1..Len(world.zones)
Labelled(z) == {c \in Cell : labels[c] = z}

Init ==
  /\ world \in Waters /\ working = Water \cap Band
  /\ labels = [c \in Cell |-> 0] /\ queue = <<>> /\ turn = <<1, 1>>
  /\ bad = FALSE /\ stage = "seeds"
  /\ kinds = [c \in Cell |-> "none"]

-----------------------------------------------------------------------------
(* The nearest working water a seed can be moved to.                       *)
Snapped(c) == SelectSeq(Window[c], LAMBDA d : d \in working)

After(t) == IF t[2] < Len(world.zones[t[1]].seeds) THEN <<t[1], t[2] + 1>> ELSE <<t[1] + 1, 1>>

PlaceSeed ==
  LET zone == world.zones[turn[1]]
      at   == Snapped(zone.seeds[turn[2]])
  IN /\ stage = "seeds" /\ turn[1] \in Zone
     /\ turn' = After(turn)
     /\ IF at = <<>> \/ labels[at[1]] # 0
        THEN /\ bad' = (bad \/ (at = <<>> /\ ~zone.retired))
             /\ UNCHANGED <<labels, queue>>
        ELSE /\ labels' = [labels EXCEPT ![at[1]] = turn[1]]
             /\ queue' = Append(queue, at[1]) /\ UNCHANGED bad
     /\ UNCHANGED <<world, working, kinds, stage>>

(* A body of one zone's seeds is its own at once; the seeds of the others  *)
(* are what the search starts from.                                        *)
StartSearch ==
  LET zonesOf(c) == {labels[s] : s \in ToSet(queue) \cap Spread({c}, working)}
  IN /\ stage = "seeds" /\ turn[1] \notin Zone
     /\ labels' = [c \in Cell |->
          IF c \in working /\ Cardinality(zonesOf(c)) = 1
          THEN CHOOSE z \in zonesOf(c) : TRUE ELSE labels[c]]
     /\ queue' = SelectSeq(queue, LAMBDA s : Cardinality(zonesOf(s)) > 1)
     /\ stage' = "search" /\ UNCHANGED <<world, working, turn, bad, kinds>>

Queued(found) == Tail(queue) \o found

Search ==
  LET c == Head(queue)
      free == {d \in Touch[c] \cap working : labels[d] = 0}
  IN /\ stage = "search" /\ queue # <<>>
     /\ labels' = [d \in Cell |-> IF d \in free THEN labels[c] ELSE labels[d]]
     /\ \E found \in SetToSeqs(free) : queue' = Queued(found)
     /\ UNCHANGED <<world, working, turn, bad, kinds, stage>>

-----------------------------------------------------------------------------
(* What every water is, and what makes the whole an error.                 *)

Seeded(body) == \E z \in Zone : \E i \in 1..Len(world.zones[z].seeds) :
                  LET at == Snapped(world.zones[z].seeds[i])
                  IN at # <<>> /\ at[1] \in body

Small(body) == Cardinality(body) < LakeMax
Ours        == {c \in Water : labels[c] # 0 /\ ~world.zones[labels[c]].retired}
Pools       == {b \in Bodies(Water) : ~Seeded(b) /\ Small(b)}

IsBay(body, sea) ==
  /\ body \cap world.lakes = {}
  /\ body \cap world.bays # {} \/ (UNION {LinkGap[c] : c \in body}) \cap sea # {}

Kinds ==
  LET pools == Pools
      sea   == Water \ UNION pools
      bays  == UNION {b \in pools : IsBay(b, sea)}
  IN [c \in Cell |-> CASE c \in world.land -> "land"
                       [] c \in Ours       -> "zone"
                       [] c \in sea \ Ours -> "unknown"
                       [] c \in bays       -> "bay"
                       [] OTHER            -> "lake"]

Unreached == {b \in Bodies(working) : /\ \A c \in b : labels[c] = 0
                                      /\ \E w \in Bodies(Water) : b \subseteq w /\ Seeded(w)}

Wrong ==
  \/ bad
  \/ \E c \in world.outside :
       \A b \in Bodies(Water) : c \in b => Seeded(b) \/ Small(b)
  \/ \E b \in Bodies(Water) :
       /\ ~Seeded(b) /\ ~Small(b) /\ b \cap Band # {} /\ b \cap world.outside = {}
  \/ \E b \in Unreached : ~Small(b)
  \/ \E z \in Zone : ~world.zones[z].retired /\ Labelled(z) = {}

Classify ==
  /\ stage = "search" /\ queue = <<>>
  /\ kinds' = Kinds
  /\ stage' = IF Wrong THEN "failed" ELSE "done"
  /\ UNCHANGED <<world, working, labels, queue, turn, bad>>

Next == PlaceSeed \/ StartSearch \/ Search \/ Classify

-----------------------------------------------------------------------------
(* Properties.                                                             *)

TypeOK ==
  /\ labels \in [Cell -> 0..Len(world.zones)] /\ ToSet(queue) \subseteq working
  /\ stage \in {"seeds", "search", "done", "failed"} /\ bad \in BOOLEAN

(* All the seeds start at once, and one step is a wave: water without a    *)
(* zone takes the first of those beside it.                                *)
RECURSIVE Waves(_, _)
Waves(owner, n) ==
  IF n = 0 THEN owner
  ELSE Waves([c \in Cell |->
                LET near == {owner[d] : d \in Touch[c]} \ {0}
                IN IF c \notin working \/ owner[c] # 0 \/ near = {} THEN owner[c] ELSE Min(near)],
             n - 1)

Claims(z) == {Snapped(world.zones[z].seeds[i]) : i \in 1..Len(world.zones[z].seeds)}
Shared    ==
  Waves([c \in Cell |->
           LET zs == {z \in Zone : \E w \in Claims(z) : w # <<>> /\ w[1] = c}
           IN IF zs = {} THEN 0 ELSE Min(zs)], Cardinality(working))

(* However the search goes, a cell belongs to the zone whose seed reaches  *)
(* it first, and on a tie to the zone listed first; a retired zone keeps   *)
(* its water, so that its neighbours do not change.                        *)
WaterGoesToTheFirst == stage \in {"done", "failed"} => labels = Shared

(* What is accepted is complete: a zone in the game has water, no large    *)
(* water beside the game is overlooked, and a lake that is left dark has   *)
(* no sea near it.                                                         *)
NoWaterIsOverlooked ==
  stage = "done" =>
    /\ \A z \in Zone : ~world.zones[z].retired => \E c \in Cell : kinds[c] = "zone" /\ labels[c] = z
    /\ \A b \in Bodies(Water) :
         Cardinality(b) >= LakeMax /\ b \cap Band # {} =>
           \/ \E c \in b : labels[c] # 0
           \/ b \cap world.outside # {}
    /\ \A c \in Cell : kinds[c] = "lake" /\ Spread({c}, Water) \cap world.lakes = {} =>
         \A d \in LinkGap[c] : kinds[d] \notin {"zone", "unknown"}
=============================================================================
