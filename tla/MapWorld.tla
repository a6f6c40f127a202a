------------------------------ MODULE MapWorld -------------------------------
(***************************************************************************)
(* The map in the running world (module 01_map: startup.py, hooks.py,      *)
(* ownership_service.py, api_service.py, retired_report.py, and the        *)
(* ProvinceService of 00_core): an instance of the application brings the  *)
(* provinces of the database in line with the map it was built with,       *)
(* changes of ownership go into the journal in their own transaction, and  *)
(* the API answers from both and from bodies it has prepared.              *)
(*                                                                         *)
(* A step is a statement or a commit of one connection.  Instances may     *)
(* overlap in a deployment, and their maps may differ.                     *)
(***************************************************************************)
EXTENDS Integers, Sequences, FiniteSets

CONSTANTS
  Instance,
  Nation,
  Release,     \* [nodes: id -> kind, lock: ids, links: pairs, rules, multiplier]
  MaxTurn,     \* bound
  MaxRows,     \* bound: rows of the journal
  MaxBoots     \* bound

VARIABLES
  prov,        \* provinces: id -> [kind, owner]
  journal,     \* map_ownership_log, by id
  turn,        \* game_clock.current_turn
  change,      \* the ownership transaction under way; it holds the nations lock
  inst,        \* where each instance stands
  client,      \* [tag, body] of the manifest a client keeps
  boots

vars == <<prov, journal, turn, change, inst, client, boots>>

Free == 0
None == [none |-> TRUE]
Down == [pc |-> "down", map |-> None, rows |-> <<>>, late |-> FALSE, history |-> {}, gone |-> {}]
Up   == {i \in Instance : inst[i].pc = "up"}
Kinds == [q \in DOMAIN prov |-> prov[q].kind]

Init ==
  /\ prov = <<>> /\ journal = <<>> /\ turn = 1 /\ change = None
  /\ inst = [i \in Instance |-> Down] /\ client = None /\ boots = 0

Retired(r) == r.lock \ DOMAIN r.nodes

-----------------------------------------------------------------------------
(* startup_map, one transaction: look at the rows and insert the missing   *)
(* ones, look at the journal, look at the owners of what is retired,       *)
(* delete it, verify, commit.                                              *)

Booting(i, pc) == inst[i].pc = pc
Stay(i, s)     == inst' = [inst EXCEPT ![i] = s]
Added(i)       == DOMAIN inst[i].map.nodes \ DOMAIN inst[i].rows

ReadRows(i, r) ==
  /\ Booting(i, "down") /\ boots < MaxBoots
  /\ boots' = boots + 1
  /\ Stay(i, [Down EXCEPT !.pc = "read", !.map = r, !.rows = Kinds])
  /\ UNCHANGED <<prov, journal, turn, change, client>>

(* The keys another boot has inserted and not committed make this one      *)
(* wait; once they are committed they make it fail.                        *)
Inserting(i) == IF inst[i].pc \in {"inserted", "listed", "checked"} THEN Added(i) ELSE {}

InsertMissing(i) ==
  /\ Booting(i, "read")
  /\ \A j \in Instance \ {i} : Inserting(j) \cap Added(i) = {}
  /\ Stay(i, IF Added(i) \cap DOMAIN prov # {} THEN Down ELSE [inst[i] EXCEPT !.pc = "inserted"])
  /\ UNCHANGED <<prov, journal, turn, change, client, boots>>

Journalled(ids) == {q \in ids : \E k \in 1..Len(journal) : journal[k].province = q}

ReadHistory(i) ==
  /\ Booting(i, "inserted")
  /\ Stay(i, [inst[i] EXCEPT !.pc = "listed", !.history = Journalled(Retired(inst[i].map))])
  /\ UNCHANGED <<prov, journal, turn, change, client, boots>>

(* remove_retired: a retired row somebody owns, or that has a history,     *)
(* stops the boot.                                                         *)
ReadOwners(i) ==
  LET present == Retired(inst[i].map) \cap DOMAIN prov
  IN /\ Booting(i, "listed")
     /\ Stay(i, IF \/ \E q \in present : prov[q].owner # Free
                   \/ present \cap inst[i].history # {}
                THEN Down
                ELSE [inst[i] EXCEPT !.pc = "checked", !.gone = present])
     /\ UNCHANGED <<prov, journal, turn, change, client, boots>>

(* map_ownership_log.province_id refers to provinces.                      *)
ForeignKeyHolds(ids) == Journalled(ids) = {}

(* _verify_inv_m5: rows the lock does not know, and other kinds.           *)
Mismatched(r, rows) == {q \in DOMAIN rows \cap DOMAIN r.nodes : rows[q] # r.nodes[q]}
Unknown(i) == (DOMAIN inst[i].rows \ DOMAIN inst[i].map.nodes) \ inst[i].gone

Locked(ids) == change # None /\ change.province \in ids

Remaining(i) ==
  [q \in (DOMAIN prov \ inst[i].gone) \cup Added(i) |->
     IF q \in DOMAIN prov THEN prov[q] ELSE [kind |-> inst[i].map.nodes[q], owner |-> Free]]

DeleteRetired(i) ==
  /\ Booting(i, "checked") /\ ~Locked(inst[i].gone)
  /\ UNCHANGED <<journal, turn, change, client, boots>>
  /\ IF /\ ForeignKeyHolds(inst[i].gone) /\ Unknown(i) = {}
        /\ Mismatched(inst[i].map, inst[i].rows) = {}
     THEN /\ prov' = Remaining(i)
          /\ inst' = [j \in Instance |->
               IF j = i THEN [Down EXCEPT !.pc = "up", !.map = inst[i].map, !.late = inst[i].late]
               ELSE IF inst[j].pc # "down" THEN [inst[j] EXCEPT !.late = TRUE]
               ELSE inst[j]]
     ELSE Stay(i, Down) /\ UNCHANGED prov

(* A stop, or a crash in the middle: what was not committed is gone.       *)
Stop(i) ==
  /\ inst[i] # Down /\ Stay(i, Down)
  /\ UNCHANGED <<prov, journal, turn, change, client, boots>>

Boot(i) ==
  \/ \E r \in Release : ReadRows(i, r)
  \/ InsertMissing(i) \/ ReadHistory(i) \/ ReadOwners(i) \/ DeleteRetired(i) \/ Stop(i)

-----------------------------------------------------------------------------
(* A change of ownership: the row is written under the nations lock, the   *)
(* turn is read, and the listener's row of the journal is committed with   *)
(* it.  A tick may come between.  (Whom a transfer is refused is the       *)
(* matter of module Nations.)                                              *)

(* group_components has found one: over land and straits, every part of   *)
(* the group has a neighbour in the rest of it.                            *)
OnePiece(r, Q) ==
  \A part \in SUBSET Q \ {{}, Q} : \E u \in part, v \in Q \ part : {u, v} \in r.links

(* A variant with a mistake in it: the turn that has just ended.           *)
TurnOfOld == turn - 1

TurnRead == turn

Begin(i, q, n) ==
  /\ i \in Up /\ change = None /\ Len(journal) < MaxRows
  /\ q \in DOMAIN prov /\ prov[q].kind = "LAND" /\ prov[q].owner # n
  /\ change' = [province |-> q, owner |-> n, turn |-> TurnRead]
  /\ UNCHANGED <<prov, journal, turn, inst, client, boots>>

Commit ==
  /\ change # None
  /\ prov' = [prov EXCEPT ![change.province].owner = change.owner]
  /\ journal' = Append(journal, change)
  /\ change' = None
  /\ UNCHANGED <<turn, inst, client, boots>>

Rollback == change # None /\ change' = None /\ UNCHANGED <<prov, journal, turn, inst, client, boots>>

Ascends(list) == \A j, k \in DOMAIN list : j < k => list[j] < list[k]

(* A nation is founded on a group: all of it free, LAND, and of one piece  *)
(* on the map of the instance that is asked.                               *)
FoundOn(i, Q, n) ==
  /\ i \in Up /\ change = None /\ Len(journal) + Cardinality(Q) <= MaxRows
  /\ \A p \in DOMAIN prov : prov[p].owner # n
  /\ Q \subseteq DOMAIN prov \cap DOMAIN inst[i].map.nodes
  /\ \A q \in Q : prov[q] = [kind |-> "LAND", owner |-> Free]
  /\ OnePiece(inst[i].map, Q)
  /\ prov' = [q \in DOMAIN prov |-> IF q \in Q THEN [prov[q] EXCEPT !.owner = n] ELSE prov[q]]
  /\ \E list \in [1..Cardinality(Q) -> Q] :
       /\ Ascends(list) /\ Q = {list[k] : k \in DOMAIN list}
       /\ journal' = journal \o [k \in DOMAIN list |->
            [province |-> list[k], owner |-> n, turn |-> TurnRead]]
  /\ UNCHANGED <<turn, change, inst, client, boots>>

Tick ==
  /\ turn < MaxTurn /\ turn' = turn + 1
  /\ UNCHANGED <<prov, journal, change, inst, client, boots>>

(* The world reset waits for the row that is being changed.                *)
Reset ==
  /\ change = None /\ journal # <<>>
  /\ prov' = [q \in DOMAIN prov |-> [prov[q] EXCEPT !.owner = Free]]
  /\ journal' = <<>> /\ turn' = 1
  /\ UNCHANGED <<change, inst, client, boots>>

-----------------------------------------------------------------------------
(* The API.                                                                *)

(* owners_at_turn: of the rows of turns up to this one the last by turn,   *)
(* then by id; a release is no owner.                                      *)
LastRow(q, t) ==
  LET rows == {k \in 1..Len(journal) : journal[k].province = q /\ journal[k].turn <= t}
  IN IF rows = {} THEN 0
     ELSE CHOOSE k \in rows : \A j \in rows :
            journal[j].turn < journal[k].turn \/ (journal[j].turn = journal[k].turn /\ j <= k)

OwnerAt(q, t) == IF LastRow(q, t) = 0 THEN Free ELSE journal[LastRow(q, t)].owner

(* build_state: the live tables for this turn, the journal for another;    *)
(* nodes that are not on the map are left out.                             *)
State(i, t) ==
  [q \in DOMAIN inst[i].map.nodes |->
     IF t = turn THEN (IF q \in DOMAIN prov THEN prov[q].owner ELSE Free) ELSE OwnerAt(q, t)]

Tag(r)  == [nodes |-> r.nodes, rules |-> r.rules]
Body(r) == [nodes |-> r.nodes, rules |-> r.rules, multiplier |-> r.multiplier]

GetManifest(i) ==
  /\ i \in Up
  /\ client' = IF client # None /\ client.tag = Tag(inst[i].map) THEN client
               ELSE [tag |-> Tag(inst[i].map), body |-> Body(inst[i].map)]
  /\ client' # client
  /\ UNCHANGED <<prov, journal, turn, change, inst, boots>>

Write(i) ==
  \/ \E q \in DOMAIN prov, n \in Nation \cup {Free} : Begin(i, q, n)
  \/ \E Q \in SUBSET DOMAIN prov \ {{}}, n \in Nation : FoundOn(i, Q, n)

(* collect_report, on the database as it is.                               *)
ReportIsOk(r) ==
  LET present == Retired(r) \cap DOMAIN prov
  IN /\ \A q \in present : prov[q].owner = Free
     /\ Journalled(present) = {}
     /\ DOMAIN prov \subseteq DOMAIN r.nodes \cup Retired(r)
     /\ \A q \in DOMAIN prov \cap DOMAIN r.nodes : prov[q].kind = r.nodes[q]

Next ==
  \/ \E i \in Instance : Boot(i) \/ Write(i) \/ GetManifest(i)
  \/ Commit \/ Rollback \/ Tick \/ Reset

Spec == Init /\ [][Next]_vars

-----------------------------------------------------------------------------
(* Properties.                                                             *)

TypeOK ==
  /\ \A q \in DOMAIN prov : prov[q].kind \in {"LAND", "SEA"} /\ prov[q].owner \in Nation \cup {Free}
  /\ turn \in 1..MaxTurn /\ Len(journal) <= MaxRows /\ boots \in 0..MaxBoots

(* The journal and the live tables agree: what the journal says of the     *)
(* present turn is who owns the province, so an answer does not change     *)
(* when its turn becomes a past one; and a row has its province.           *)
JournalIsTheOwner ==
  /\ \A q \in DOMAIN prov : OwnerAt(q, turn) = prov[q].owner
  /\ Journalled({journal[k].province : k \in 1..Len(journal)}) \subseteq DOMAIN prov

(* The past does not change: only a transaction that has read its turn     *)
(* before the tick still adds to it, and only the province it has locked.  *)
PastStands ==
  [][turn' >= turn /\ journal' # <<>> =>
       \A k \in 1..Len(journal') : journal'[k].turn < turn /\ k > Len(journal) =>
         change # None /\ journal'[k] = change]_vars

(* What an instance answers of a turn it goes on answering when that turn  *)
(* is over, though it answers from the journal then.                       *)
AnswersStand ==
  [][turn' > turn => \A i \in Up : \A t \in {turn} : State(i, t)' = State(i, t)]_vars

(* INV-M5: an instance that is up has the provinces of its map and their   *)
(* kinds, unless another one has come up since it looked.                  *)
ProvincesAreTheMap ==
  \A i \in Up : ~inst[i].late => Kinds = inst[i].map.nodes

(* No boot takes a province from its owner or a row from the journal.      *)
NothingIsTaken ==
  [][\A q \in DOMAIN prov \ DOMAIN prov' : prov[q].owner = Free /\ Journalled({q}) = {}]_vars

(* Who boots alone comes up only if the report would have let it.          *)
ReportForesees ==
  [][\A i \in Instance :
       /\ inst[i].pc = "checked" /\ ~inst[i].late /\ inst'[i].pc = "up"
       => ReportIsOk(inst[i].map)]_vars

(* A client that is told that nothing has changed has the nodes and the    *)
(* rules of the instance that tells it.  (The multiplier of the straits is *)
(* in the body and not in the tag.)                                        *)
UnchangedIsTrue ==
  \A i \in Up :
    client # None /\ client.tag = Tag(inst[i].map) =>
      client.body.nodes = inst[i].map.nodes /\ client.body.rules = inst[i].map.rules
=============================================================================
