------------------------------- MODULE Admins -------------------------------
(***************************************************************************)
(* Who administers the game (core/admin, module 00_core): the environment  *)
(* allowlist, the grants in the database, the one-time links into the      *)
(* panel and the bounded journal of what administrators do.                *)
(*                                                                         *)
(* A request is let in by require_admin, reads what it decides by, and     *)
(* commits: three moments between which other requests may commit.         *)
(***************************************************************************)
EXTENDS Integers, FiniteSets

CONSTANTS
  Person,      \* players, by their vk id
  Request,     \* requests under way
  MaxPending,  \* admin_panel.max_pending_links_per_player
  HardCap,     \* PanelLinkStore.HARD_CAP
  Lifetime,    \* admin_panel.link_ttl_seconds
  MaxRows,     \* admin_panel.audit_log_max_rows
  MaxActs,     \* bound: links issued and journal ids taken
  MaxStarts    \* bound: restarts of the process

VARIABLES
  root,        \* ADMIN_VK_USER_IDS
  players,
  grants,      \* admin_grants
  req,         \* what each request has read
  audit,       \* admin_audit_log: committed ids
  nextRow,     \* the id the next row takes
  links,       \* PanelLinkStore._entries: an older one has a lower id
  issued,      \* links issued so far
  entered,     \* panel sessions opened, by the id of the link
  clock,
  starts       \* restarts left

world   == <<root, players, grants>>
journal == <<audit, nextRow>>
door    == <<links, issued, entered>>
vars == <<world, req, journal, door, clock, starts>>

Idle == [op |-> "idle", who |-> 0, link |-> 0, seen |-> {}, row |-> 0, old |-> {}]

RoomForAct == issued + nextRow <= MaxActs

IsAdmin(p) == p \in players /\ (p \in root \/ p \in grants)
Admins     == root \cup grants

Init ==
  /\ root \in {{}, {1}} /\ players = Person
  /\ grants = Person \ root
  /\ req = [r \in Request |-> Idle]
  /\ audit = {} /\ nextRow = 1
  /\ links = {} /\ issued = 0 /\ entered = [id \in 1..MaxActs |-> 0]
  /\ clock = 0 /\ starts = MaxStarts

-----------------------------------------------------------------------------
(* The journal: record() takes an id and deletes what the cap leaves out;  *)
(* both are seen when the caller commits.                                  *)

Trimmed(id) == {row \in audit : row <= id - MaxRows}

Record(r, seen) ==
  /\ RoomForAct /\ nextRow' = nextRow + 1
  /\ req' = [req EXCEPT ![r] = [op |-> @.op, who |-> @.who, link |-> @.link, seen |-> seen,
                                row |-> nextRow, old |-> Trimmed(nextRow)]]

CommitRow(r) == audit' = (audit \ req[r].old) \cup {req[r].row}

-----------------------------------------------------------------------------
(* Grants, revocations and deletions.                                      *)

(* require_admin; nobody revokes or deletes themselves.                    *)
Ask(r, op, by, about) ==
  /\ req[r] = Idle /\ IsAdmin(by)
  /\ op \in {"revoke", "delete"} => by # about
  /\ req' = [req EXCEPT ![r] = [Idle EXCEPT !.op = op, !.who = about]]
  /\ UNCHANGED <<world, journal, door, clock, starts>>

(* A variant: the last administrator may go.                               *)
RevocableAny(p) == p \in grants /\ p \notin root

(* revoke refuses those of the environment and the last one who is left.   *)
Revocable(p) == p \in grants /\ p \notin root /\ (grants \ {p}) \cup root # {}

(* A grant that is there already is left alone, an administrator is not    *)
(* deleted.                                                                *)
Allowed(op, p) ==
  /\ p \in players
  /\ \/ op = "grant"  /\ p \notin grants
     \/ op = "revoke" /\ Revocable(p)
     \/ op = "delete" /\ ~IsAdmin(p)

Read(r) ==
  LET q == req[r]
  IN /\ q.op \in {"grant", "revoke", "delete"} /\ q.row = 0
     /\ \/ Allowed(q.op, q.who) /\ Record(r, IF q.op = "revoke" THEN grants ELSE {})
        \/ ~Allowed(q.op, q.who) /\ req' = [req EXCEPT ![r] = Idle] /\ UNCHANGED nextRow
     /\ UNCHANGED <<world, audit, door, clock, starts>>

(* admin_grants.player_id is unique and refers to a player: the insert     *)
(* fails without the player, the deletion with a grant.                    *)
Referenced(q) ==
  /\ q.op = "grant"  => q.who \in players \ grants
  /\ q.op = "delete" => q.who \in players \ grants

Commit(r) ==
  LET q == req[r]
  IN /\ q.op \in {"grant", "revoke", "delete"} /\ q.row # 0
     /\ req' = [req EXCEPT ![r] = Idle]
     /\ \/ /\ Referenced(q) /\ CommitRow(r)
           /\ grants' = IF q.op = "grant" THEN grants \cup {q.who}
                        ELSE IF q.op = "revoke" THEN grants \ {q.who} ELSE grants
           /\ players' = IF q.op = "delete" THEN players \ {q.who} ELSE players
        \/ ~Referenced(q) /\ UNCHANGED <<grants, players, audit>>
     /\ UNCHANGED <<root, nextRow, door, clock, starts>>

(* get_or_create: a new player of the same person.                         *)
Register(p) ==
  /\ p \notin players /\ players' = players \cup {p}
  /\ UNCHANGED <<root, grants, req, journal, door, clock, starts>>

-----------------------------------------------------------------------------
(* The panel's links.                                                      *)

Live(entry) == entry.dies > clock
Purged      == {e \in links : Live(e)}
PendingOf(es, p) == {e \in es : e.who = p /\ ~e.used}

(* The n newest entries: what is left when the oldest are deleted.         *)
Newest(es, n) == {e \in es : Cardinality({f \in es : f.id >= e.id}) <= n}

(* The oldest pending links of a player, to make room for one more.        *)
Surplus(es, p) == PendingOf(es, p) \ Newest(PendingOf(es, p), MaxPending - 1)

Room(p) == Newest(Purged \ Surplus(Purged, p), HardCap - 1)

Issue(p) ==
  /\ IsAdmin(p) /\ RoomForAct /\ issued' = issued + 1
  /\ links' = Room(p) \cup {[id |-> issued + 1, who |-> p, dies |-> clock + Lifetime,
                             used |-> FALSE]}
  /\ UNCHANGED <<world, req, journal, entered, clock, starts>>

Spent(e) == [e EXCEPT !.used = TRUE]

(* redeem: the token is spent before the first await.                      *)
Redeem(r) ==
  /\ req[r] = Idle
  /\ \E e \in Purged :
       /\ ~e.used
       /\ links' = (Purged \ {e}) \cup {Spent(e)}
       /\ req' = [req EXCEPT ![r] = [Idle EXCEPT !.op = "enter", !.who = e.who, !.link = e.id]]
  /\ UNCHANGED <<world, journal, issued, entered, clock, starts>>

(* The rights are read again: the link may be older than a revocation.     *)
Admit(r) ==
  LET q == req[r]
  IN /\ q.op = "enter" /\ q.row = 0
     /\ \/ IsAdmin(q.who) /\ Record(r, {})
        \/ ~IsAdmin(q.who) /\ req' = [req EXCEPT ![r] = Idle] /\ UNCHANGED nextRow
     /\ UNCHANGED <<world, audit, door, clock, starts>>

Enter(r) ==
  /\ req[r].op = "enter" /\ req[r].row # 0
  /\ entered' = [entered EXCEPT ![req[r].link] = @ + 1]
  /\ CommitRow(r) /\ req' = [req EXCEPT ![r] = Idle]
  /\ UNCHANGED <<world, nextRow, links, issued, clock, starts>>

-----------------------------------------------------------------------------
Elapse ==
  /\ clock < Lifetime /\ clock' = clock + 1
  /\ UNCHANGED <<world, req, journal, door, starts>>

(* A request fails, or its client goes away.                               *)
Fail(r) ==
  /\ req[r] # Idle /\ req' = [req EXCEPT ![r] = Idle]
  /\ UNCHANGED <<world, journal, door, clock, starts>>

(* The store is in memory; the allowlist may be another one.               *)
Restart ==
  /\ starts > 0 /\ starts' = starts - 1
  /\ links' = {} /\ req' = [r \in Request |-> Idle]
  /\ root' \in {{}, {1}}
  /\ UNCHANGED <<players, grants, journal, issued, entered, clock>>

RequestStep(r) ==
  \/ \E op \in {"grant", "revoke", "delete"}, by, about \in Person : Ask(r, op, by, about)
  \/ Read(r) \/ Commit(r) \/ Redeem(r) \/ Admit(r) \/ Enter(r) \/ Fail(r)

Next ==
  \/ \E r \in Request : RequestStep(r)
  \/ \E p \in Person : Issue(p) \/ Register(p)
  \/ Elapse \/ Restart

Spec == Init /\ [][Next]_vars

-----------------------------------------------------------------------------
(* Properties.                                                             *)

Rows == 1..MaxActs
Asked == [op : {"idle", "grant", "revoke", "delete", "enter"}, who : Person \cup {0},
          link : 0..MaxActs, seen : SUBSET Person, row : Rows \cup {0},
          old : SUBSET Rows]

TypeOK ==
  /\ root \subseteq Person /\ players \subseteq Person
  /\ req \in [Request -> Asked]
  /\ audit \subseteq Rows /\ nextRow \in 1..(MaxActs + 1)
  /\ links \subseteq [id : 1..issued, who : Person, dies : Lifetime..(2 * Lifetime), used : BOOLEAN]
  /\ issued \in 0..MaxActs /\ entered \in [1..MaxActs -> Nat]

(* No grant is left without its player, whatever commits between the look  *)
(* at the grants of a player and the deletion of the player.               *)
GrantsHavePlayers == grants \subseteq players

(* Revocations one at a time leave an administrator: only one that has     *)
(* decided by grants that have changed since takes the last one away.      *)
Overtaken(r) == req[r].op = "revoke" /\ req'[r] = Idle /\ req[r].seen # grants
LastAdminStays ==
  [][Admins # {} /\ Admins' = {} => root' # root \/ \E r \in Request : Overtaken(r)]_vars

(* A link opens the panel once, however many exchanges are under way.      *)
LinkOpensOnce == \A id \in DOMAIN entered : entered[id] <= 1

(* The store is bounded, and so are the pending links of a player.         *)
LinksAreBounded ==
  /\ Cardinality(links) <= HardCap
  /\ \A p \in Person : Cardinality(PendingOf(links, p)) <= MaxPending

(* Next to the newest rows the journal holds at most those that were not   *)
(* committed when the last row trimmed it.                                 *)
JournalIsBounded == Cardinality(audit) <= MaxRows + Cardinality(Request) - 1
=============================================================================
