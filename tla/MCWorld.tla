------------------------------- MODULE MCWorld --------------------------------
(***************************************************************************)
(* TLC instances of what the world is made of: the patches of its          *)
(* provinces, its seas, its graph, the files that are built of them, the   *)
(* map in the running world; the pictures of its nations, the              *)
(* administrators with their panel, the players' permanent numbers; the    *)
(* database through the releases, the start of the backend on its files;   *)
(* and the bot's circuit breaker.  A behaviour is a behaviour of one of    *)
(* them, chosen at the start; the variables of the others stay as they     *)
(* are.                                                                    *)
(***************************************************************************)
EXTENDS Breaker, World, FiniteSets, SequencesExt, TLC, Samples

CONSTANTS r1, r2, w1, w2   \* requests of the panel, readers of the registry

VARIABLES
  active,
  stage, world, next, failed,                                 \* of several
  land, byKey, nodes,                                         \* Patches
  working, labels, queue, seed, bad, kinds,                   \* Seas
  plan, edges,                                                \* MapGraph
  db, code, backend, phase, prev, dump, ran, plays, tries,    \* Migrations
  image, at, held, types, sources, gates, resets, tasks, running   \* Boot

stages     == <<stage, world, next, failed>>
patchVars  == <<land, byKey, nodes>>
seaVars    == <<working, labels, queue, seed, bad, kinds>>
graphVars  == <<plan, edges>>
mapVars    == <<stages, patchVars, seaVars, graphVars, buildVars, provinceVars>>
baseVars   == <<db, code, backend, phase, prev, dump, ran, plays, tries>>
bootVars   == <<image, at, held, types, sources, gates, resets, tasks, running>>
all == <<active, mapVars, adminVars, numberVars, pictureVars, baseVars, bootVars, vars>>

Empty(v) == v = <<>>

-----------------------------------------------------------------------------
(* The raster: 4 x 3 cells.                                                *)
Abs(i) == IF i < 0 THEN -i ELSE i
Raster == (1..4) \X (1..3)
Around(c, near(_, _)) == {d \in Raster : c # d /\ near(Abs(c[1] - d[1]), Abs(c[2] - d[2]))}
Touching == [c \in Raster |-> Around(c, LAMBDA x, y : x + y = 1)]
Closely  == [c \in Raster |-> Around(c, LAMBDA x, y : x <= 1 /\ y <= 1)]
Steps    == <<<<0,0>>, <<0,-1>>, <<-1,0>>, <<1,0>>, <<0,1>>, <<-1,-1>>, <<1,-1>>, <<-1,1>>, <<1,1>>>>
Nearest  == [c \in Raster |->
  SelectSeq([i \in 1..9 |-> <<c[1] + Steps[i][1], c[2] + Steps[i][2]>>], LAMBDA d : d \in Raster)]

(* Three provinces, a in two parts and c in two that touch at a corner.    *)
Owner == [a |-> {<<1,1>>, <<2,1>>, <<1,3>>}, b |-> {<<3,1>>, <<4,1>>, <<4,2>>},
          c |-> {<<2,2>>, <<3,2>>, <<4,3>>}]
Shapes == {{<<2,1>>, <<2,2>>}, {<<4,2>>, <<4,3>>}, {<<1,1>>, <<1,3>>}, {<<2,2>>}}
Patch ==
  [kind : {"transfer"}, from : {"a", "b", "c"}, to : {"a", "b"}, cells : Shapes]
  \cup [kind : {"transfer_part"}, from : {"a", "c", "r"}, to : {"b", "r"},
        at : {<<1,3>>, <<1,1>>, <<4,3>>}, detached : BOOLEAN]
  \cup [kind : {"detach"}, from : {"a", "r"}, points : {{<<1,3>>}, {<<1,1>>, <<1,3>>}, {<<1,1>>, <<2,1>>}},
        new : {"n"}]
  \cup [kind : {"split"}, from : {"a", "b", "n"}, cells : Shapes, at : {<<3,1>>, <<2,1>>}, new : {"n", "m"}]
Later == {p \in Patch : p.from \in {"a", "n"} /\ p.kind = "split"}
AllPatchWorlds ==
  [owner : {Owner}, renames : {{}, {[from |-> "a", to |-> "r"]}}, include : {{"a", "b"}},
   technical : {{}, {"c"}}, patches : {<<p>> : p \in Patch} \cup {<<p, q>> : p \in Patch, q \in Later},
   drop : {{}, {<<"a", <<1,3>>>>}}, keep : {{}, {<<"b", <<4,2>>>>, <<"a", <<2,1>>>>}}]
PatchWorlds ==
  {w \in AllPatchWorlds :
     Cardinality({i \in 1..4 : <<w.renames, w.technical, w.drop, w.keep>>[i] # {}})
       <= 3 - Len(w.patches)}

Lands == {{<<2,2>>, <<3,2>>, <<1,3>>}, {<<1,2>>, <<2,2>>, <<2,3>>, <<3,1>>, <<3,2>>}}
Seeds == {<<<<1,1>>>>, <<<<4,3>>>>, <<<<1,1>>, <<4,3>>>>}
Waters ==
  [land : Lands, playable : {{<<2,2>>}, {<<3,2>>, <<3,1>>}}, outside : {{}, {<<4,1>>}}, lakes : {{}, {<<1,3>>}},
   bays : {{}},
   zones : {<<[seeds |-> s, retired |-> r], [seeds |-> t, retired |-> FALSE]>> : s \in Seeds, t \in Seeds, r \in BOOLEAN}]

(* Three lands, a sea and a node that is retired.                          *)
Pairs == {<<1, 2>>, <<2, 1>>, <<1, 3>>, <<1, 4>>, <<1, 1>>, <<2, 5>>}
Written(s, t) == {<<>>} \cup {<<[section |-> s, a |-> p[1], b |-> p[2], type |-> t]>> : p \in Pairs}
Apart(es) == {e \in es : e = <<>> \/ e[1].a # e[1].b}
Contact(i, j) == [p \in {{1, 2}, {2, 3}, {1, 4}, {2, 5}} |-> CASE p = {1, 2} -> i [] p = {1, 4} -> j [] OTHER -> 2]
Plans ==
  [kind : {<<"LAND", "LAND", "LAND", "SEA", "RETIRED">>}, contact : {Contact(i, j) : i \in 0..2, j \in 1..2},
   entries : {e \in {r \o a \o s \o l : r \in Written("edges_remove", ""), l \in Apart(Written("land_links", "")),
                    a \in UNION {Written("edges_add", t) : t \in {"land", "coast", "strait"}},
                    s \in Apart(Written("straits", ""))} : Len(e) <= 2}]

(* Releases: a province is retired and another new; another map; other     *)
(* rules.                                                                  *)
Made(n, l, k, r, m) == [nodes |-> n, lock |-> l, links |-> k, rules |-> r, multiplier |-> m]
First    == Made(<<"LAND", "LAND", "SEA">>, 1..3, {{1, 2}}, 1, 1)
Releases == {First,
             Made((1 :> "LAND") @@ (3 :> "SEA") @@ (4 :> "LAND"), 1..4, {{1, 4}}, 1, 1),
             Made((1 :> "LAND") @@ (2 :> "SEA") @@ (5 :> "LAND"), {1, 2, 5}, {}, 2, 1)}

-----------------------------------------------------------------------------
Cut   == INSTANCE Patches  WITH Touch <- Touching, Close <- Closely, Worlds <- PatchWorlds, MinSplit <- 1, MinPart <- 2
Water == INSTANCE Seas     WITH Cell <- Raster, Touch <- Touching, Window <- Nearest, Margin <- Closely,
                                LinkGap <- Closely, LakeMax <- 3, turn <- seed
Graph == INSTANCE MapGraph WITH MinBorder <- 2, MaxDegree <- 2

(* Photographs of a few cells, upright and turned, sound and broken.       *)
Sizes  == {<<1, 2>>, <<2, 1>>, <<3, 2>>, <<3, 3>>, <<2, 5>>, <<4, 5>>, <<5, 4>>, <<7, 2>>}
Photo(s, t, read, whole) ==
  [w |-> s[1], h |-> s[2], turned |-> t, known |-> read, sound |-> whole]
Photos == {Photo(s, t, TRUE, TRUE) : s \in Sizes, t \in BOOLEAN}
          \cup {Photo(<<3, 2>>, FALSE, FALSE, TRUE), Photo(<<3, 2>>, FALSE, TRUE, FALSE)}
Targets == [flag |-> <<3, 2>>, portrait |-> <<3, 4>>]

Base == INSTANCE Migrations WITH Name <- {"a", "A"}, Folded <- [n \in {"a", "A"} |-> "a"],
                                 Release <- {5, 24}, MaxPlays <- 2, MaxTries <- 3

Start == INSTANCE Boot WITH
  Distance <- SampleDistance, Variables <- SampleVariables, Builtin <- SampleBuiltin,
  Answers <- SampleAnswers, Deployments <- SampleDeployments, OrderTypes <- SampleOrders,
  Provides <- SampleSources, OrderSources <- {"orders"}

NoStages == Empty(stage) /\ Empty(world) /\ Empty(next) /\ Empty(failed)
NoPatch  == Empty(land) /\ Empty(byKey) /\ Empty(nodes)
NoSea    == Empty(working) /\ Empty(labels) /\ Empty(queue) /\ Empty(seed) /\ Empty(bad) /\ Empty(kinds)
NoGraph  == Empty(plan) /\ Empty(edges)
NoBuild  == Build!Init
NoMap    == Map!Init
NoBoot   ==
  /\ Empty(image) /\ Empty(at) /\ Empty(held) /\ Empty(types) /\ Empty(sources)
  /\ Empty(gates) /\ Empty(resets) /\ Empty(tasks) /\ Empty(running)

MapInit ==
  \/ active = "patches" /\ Cut!Init /\ NoSea /\ NoGraph /\ NoBuild /\ NoMap
  \/ active = "seas" /\ Water!Init /\ Empty(next) /\ Empty(failed) /\ NoPatch /\ NoGraph /\ NoBuild /\ NoMap
  \/ active = "graph" /\ Graph!Init /\ Empty(world) /\ NoPatch /\ NoSea /\ NoBuild /\ NoMap
  \/ active = "build" /\ Build!Init /\ NoStages /\ NoPatch /\ NoSea /\ NoGraph /\ NoMap
  \/ active \in {"world", "admins", "numbers", "pictures", "releases", "boot", "breaker"} /\ Map!Init /\ NoStages /\ NoPatch /\ NoSea /\ NoGraph /\ NoBuild

MapNext ==
  \/ active = "patches" /\ Cut!Next /\ UNCHANGED <<seaVars, graphVars, buildVars, provinceVars>>
  \/ active = "seas" /\ Water!Next /\ UNCHANGED <<next, failed, patchVars, graphVars, buildVars, provinceVars>>
  \/ active = "graph" /\ Graph!Next /\ UNCHANGED <<world, patchVars, seaVars, buildVars, provinceVars>>
  \/ active = "build" /\ Build!Next /\ UNCHANGED <<stages, patchVars, seaVars, graphVars, provinceVars>>
  \/ active = "world" /\ Map!Next /\ UNCHANGED <<stages, patchVars, seaVars, graphVars, buildVars>>

AllInit ==
  /\ MapInit /\ Admin!Init /\ Number!Init /\ Picture!Init /\ Base!Init /\ Init
  /\ root = {}
  /\ IF active = "boot" THEN Start!Init ELSE NoBoot

AllNext ==
  /\ UNCHANGED active
  /\ \/ MapNext /\ UNCHANGED <<adminVars, numberVars, pictureVars, baseVars, bootVars, vars>>
     \/ active = "admins" /\ Admin!Next /\ UNCHANGED <<mapVars, numberVars, pictureVars, baseVars, bootVars, vars>>
     \/ active = "numbers" /\ Number!Next /\ UNCHANGED <<mapVars, adminVars, pictureVars, baseVars, bootVars, vars>>
     \/ active = "pictures" /\ Picture!Next /\ UNCHANGED <<mapVars, adminVars, numberVars, baseVars, bootVars, vars>>
     \/ active = "releases" /\ Base!Next /\ UNCHANGED <<mapVars, adminVars, numberVars, pictureVars, bootVars, vars>>
     \/ active = "breaker" /\ Next /\ UNCHANGED <<mapVars, adminVars, numberVars, pictureVars, baseVars, bootVars>>
     \/ active = "boot" /\ Start!Next
        /\ UNCHANGED <<mapVars, adminVars, numberVars, pictureVars, baseVars, vars>>

AllSpec == AllInit /\ [][AllNext]_all

-----------------------------------------------------------------------------
(* Every component is well typed: a type invariant of each.                *)
AllTypeOK ==
  /\ active = "patches" => Cut!TypeOK
  /\ active = "seas" => Water!TypeOK
  /\ active = "graph" => Graph!TypeOK
  /\ active = "build" => Build!TypeOK
  /\ active = "world" => Map!TypeOK
  /\ active = "admins" => Admin!TypeOK
  /\ active = "numbers" => Number!TypeOK
  /\ active = "pictures" => Picture!TypeOK
  /\ active = "releases" => Base!TypeOK
  /\ active = "boot" => Start!TypeOK
  /\ active = "breaker" => TypeOK

(* The patches lose no land, the seas overlook no water; the graph that is *)
(* built has every entry's effect and the server accepts it; and the       *)
(* server starts with nothing half written or out of date, however the     *)
(* runs are stopped and the files edited between them.                     *)
MapIsSound ==
  /\ active = "patches" => Cut!LandIsConserved /\ Cut!EveryNodeHasLand
  /\ active = "seas" => Water!WaterGoesToTheFirst /\ Water!NoWaterIsOverlooked
  /\ active = "graph" => Graph!BuiltIsAccepted /\ Graph!EntriesHold
  /\ active = "build" => Build!AcceptedIsCurrent

(* The backend runs on its own schema, every date and name outlives the    *)
(* migrations, and a migration gives up only for a reason its revision     *)
(* gives.  It starts no task on files or registries that are not checked   *)
(* in full, and its start can be undone and repeated.                      *)
WorldOutlivesReleases ==
  /\ active = "releases" =>
       /\ Base!SchemaFitsCode /\ Base!SchemaIsTheRevisions /\ Base!DatesStand
       /\ Base!BackfillsAreTrue /\ Base!AbortsAreForeseen
  /\ active = "boot" =>
       /\ Start!NothingRunsUnchecked /\ Start!ResetsUndoTheBoot
       /\ Start!BotRunsWhenReady /\ Start!RunsAsAssumed
=============================================================================
