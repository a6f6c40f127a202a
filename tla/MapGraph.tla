------------------------------ MODULE MapGraph ------------------------------
(***************************************************************************)
(* The graph of the map (tools/map_pipeline/graph.py, manifest_schema.py,  *)
(* borders.py): the edges that were measured, the entries of               *)
(* overrides.yaml applied to them section by section, the checks of the    *)
(* tool, and the checks with which the server (module 01_map, loader.py)   *)
(* accepts the files.                                                      *)
(***************************************************************************)
EXTENDS Integers, Sequences, FiniteSets, SequencesExt, FiniteSetsExt, Functions

CONSTANTS
  MinBorder,   \* geometry.min_border_length
  MaxDegree,   \* limits.max_edges_per_node
  Plans        \* [kind: node -> kind or "RETIRED", contact: pair -> length, entries]

VARIABLES
  plan,
  edges,    \* pair of nodes -> [type, len, name, manual]
  next,     \* the entry whose turn it is
  failed,   \* errors were found
  stage

vars == <<plan, edges, next, failed, stage>>

Node     == {n \in DOMAIN plan.kind : plan.kind[n] # "RETIRED"}
Ends(p)  == [LAND |-> Cardinality({n \in p : plan.kind[n] = "LAND"}),
             SEA  |-> Cardinality({n \in p : plan.kind[n] = "SEA"})]
TypeEnds == [land   |-> [LAND |-> 2, SEA |-> 0], coast |-> [LAND |-> 1, SEA |-> 1],
             sea    |-> [LAND |-> 0, SEA |-> 2], strait |-> [LAND |-> 2, SEA |-> 0]]
\* A loop counts its end twice.
KindsOk(type, a, b) ==
  IF a = b THEN TypeEnds[type][plan.kind[a]] = 2 ELSE Ends({a, b}) = TypeEnds[type]

Measured == {p \in DOMAIN plan.contact : p \subseteq Node /\ plan.contact[p] >= MinBorder}
TypeOf(p) == CHOOSE t \in {"land", "coast", "sea"} : Ends(p) = TypeEnds[t]

Edge(type, len, name, manual) == [type |-> type, len |-> len, name |-> name, manual |-> manual]
Put(p, e)  == edges' = [q \in DOMAIN edges \cup {p} |-> IF q = p THEN e ELSE edges[q]]

Init ==
  /\ plan \in Plans
  /\ edges = [p \in Measured |-> Edge(TypeOf(p), TRUE, FALSE, FALSE)]
  /\ next = 1 /\ failed = FALSE /\ stage = "overrides"

-----------------------------------------------------------------------------
(* One entry of overrides.yaml; the sections come in a fixed order.  A     *)
(* wrong entry is left out, and stops the run after the last one.          *)
Entry(section) ==
  /\ stage = "overrides" /\ next <= Len(plan.entries)
  /\ plan.entries[next].section = section
  /\ next' = next + 1 /\ UNCHANGED <<plan, stage>>

This   == plan.entries[next]
Pair   == {This.a, This.b}
Exist  == Pair \subseteq Node
Reject == failed' = TRUE /\ UNCHANGED edges
Keep   == UNCHANGED <<failed, edges>>

EdgesRemove ==
  /\ Entry("edges_remove")
  /\ IF Exist /\ Pair \in DOMAIN edges
     THEN edges' = Restrict(edges, DOMAIN edges \ {Pair}) /\ UNCHANGED failed
     ELSE Reject

EdgesAdd ==
  /\ Entry("edges_add")
  /\ IF ~Exist \/ ~KindsOk(This.type, This.a, This.b) THEN Reject
     ELSE IF Pair \in DOMAIN edges THEN Keep
     ELSE Put(Pair, Edge(This.type, FALSE, FALSE, TRUE)) /\ UNCHANGED failed

Straits ==
  /\ Entry("straits")
  /\ IF Exist /\ KindsOk("strait", This.a, This.b) /\ Pair \notin DOMAIN edges
     THEN Put(Pair, Edge("strait", FALSE, TRUE, FALSE)) /\ UNCHANGED failed
     ELSE Reject

Linkable(p) == p \notin DOMAIN edges \/ edges[p].type = "strait"

LandLinks ==
  /\ Entry("land_links")
  /\ IF Exist /\ KindsOk("land", This.a, This.b) /\ Linkable(Pair)
     THEN Put(Pair, Edge("land", FALSE, FALSE, TRUE)) /\ UNCHANGED failed
     ELSE Reject

-----------------------------------------------------------------------------
(* The checks of the tool.                                                 *)

RECURSIVE Find(_, _)
Find(parent, x) == IF parent[x] = x THEN x ELSE Find(parent, parent[x])

Join(p, parent) ==
  LET roots == {Find(parent, n) : n \in p}
  IN [parent EXCEPT ![Max(roots)] = Min(roots)]

Components(pairs) ==
  LET parent == FoldSet(Join, [n \in Node |-> n], pairs)
  IN {Find(parent, n) : n \in Node}

Degree(n) == Cardinality({p \in DOMAIN edges : n \in p})

Unsound(p) == Cardinality(p) # 2 \/ ~(p \subseteq Node) \/ Ends(p) # TypeEnds[edges[p].type]
Unnamed(p) == edges[p].type = "strait" /\ ~edges[p].name
NoContour(p) == edges[p].type = "land" /\ (p \notin DOMAIN plan.contact \/ plan.contact[p] = 0)

(* A variant with a mistake in it: a land edge without a border passes.    *)
SoundWithoutBorders ==
  /\ \A p \in DOMAIN edges : ~Unsound(p) /\ ~Unnamed(p)
  /\ Cardinality(Components(DOMAIN edges)) = 1
  /\ \A n \in Node : Degree(n) <= MaxDegree

Sound ==
  /\ \A p \in DOMAIN edges : ~Unsound(p) /\ ~Unnamed(p) /\ ~NoContour(p)
  /\ Cardinality(Components(DOMAIN edges)) = 1
  /\ \A n \in Node : Degree(n) <= MaxDegree

Check ==
  /\ stage = "overrides" /\ next > Len(plan.entries)
  /\ stage' = IF failed \/ ~Sound THEN "failed" ELSE "built"
  /\ UNCHANGED <<plan, edges, next, failed>>

Next == EdgesRemove \/ EdgesAdd \/ Straits \/ LandLinks \/ Check

-----------------------------------------------------------------------------
(* The checks of the server, on the files that were written.               *)

Adjacent(n) == (UNION {p \in DOMAIN edges : n \in p}) \ {n}

RECURSIVE Visit(_)
Visit(seen) ==
  LET more == UNION {Adjacent(n) : n \in seen} \ seen
  IN IF more = {} THEN seen ELSE Visit(seen \cup more)

InvM2 ==
  \A p \in DOMAIN edges :
    /\ Cardinality(p) = 2 /\ p \subseteq Node
    /\ Ends(p) = TypeEnds[edges[p].type]
    /\ IF edges[p].type = "strait" THEN edges[p].name /\ ~edges[p].len ELSE ~edges[p].name

InvM3 == Node # {} => Visit({Min(Node)}) = Node

\* borders.json has a line of its own for every land edge.
InvM6 == \A p \in DOMAIN edges : edges[p].type = "land" => p \in DOMAIN plan.contact /\ plan.contact[p] > 0

WithinLimits == \A n \in Node : Degree(n) <= MaxDegree

-----------------------------------------------------------------------------
(* Properties.                                                             *)

TypeOK ==
  /\ stage \in {"overrides", "built", "failed"} /\ failed \in BOOLEAN
  /\ \A p \in DOMAIN edges : p \subseteq Node /\ edges[p].type \in DOMAIN TypeEnds

(* What the tool builds the server accepts: the two check the graph with   *)
(* code of their own, and there is nothing to correct by hand.             *)
BuiltIsAccepted == stage = "built" => InvM2 /\ InvM3 /\ InvM6 /\ WithinLimits

Listed(section) == {i \in 1..Len(plan.entries) : plan.entries[i].section = section}
Says(section, p) == \E i \in Listed(section) : {plan.entries[i].a, plan.entries[i].b} = p

(* Every entry has its effect in what is built: a link over a strait over  *)
(* an added edge over a removed one over what was measured.                *)
EntriesHold ==
  stage = "built" =>
    \A p \in SUBSET Node : Cardinality(p) = 2 =>
      LET has(type, manual) ==
            p \in DOMAIN edges /\ edges[p].type = type /\ edges[p].manual = manual
      IN IF Says("land_links", p) THEN has("land", TRUE)
         ELSE IF Says("straits", p) THEN has("strait", FALSE)
         ELSE IF p \in Measured /\ ~Says("edges_remove", p) THEN has(TypeOf(p), FALSE)
         ELSE IF Says("edges_add", p) THEN has(TypeOf(p), TRUE)
         ELSE p \notin DOMAIN edges
=============================================================================
